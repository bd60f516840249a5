--------------------------- MODULE CrashHeapProofs ---------------------------
(***************************************************************************)
(* Proofs about CrashHeap, for any number of pages, any size of sub-heaps, *)
(* any slack and any sizes of allocations.                                 *)
(***************************************************************************)
EXTENDS CrashHeap, FiniteSetTheorems, TLAPS

-----------------------------------------------------------------------------
(* Walks. *)

\* A nonempty set of numbers has a least one: the intervals up to its members are ordered
\* by inclusion.
LEMMA LeastOf ==
  ASSUME NEW S \in SUBSET Nat, S # {}
  PROVE  \E x \in S : \A y \in S : x <= y
<1> DEFINE T == {0 .. x : x \in S}
<1>1. T \in SUBSET FiniteSubsetsOf(Nat) /\ T # {}
  <2> SUFFICES ASSUME NEW x \in S
               PROVE  0 .. x \in FiniteSubsetsOf(Nat)
    OBVIOUS
  <2>1. IsFiniteSet(0 .. x)
    BY FS_Interval
  <2> QED
    BY <2>1 DEF FiniteSubsetsOf
<1>2. \E I \in T : \A J \in T : ~ (<<J, I>> \in StrictSubsetOrdering(Nat))
  BY <1>1, FS_StrictSubsetOrderingWellFounded, WFMin
<1>3. PICK x \in S : \A y \in S : ~ (<<0 .. y, 0 .. x>> \in StrictSubsetOrdering(Nat))
  BY <1>2
<1>4. ASSUME NEW y \in S, y < x
      PROVE  FALSE
  <2>1. 0 .. y \in SUBSET Nat /\ 0 .. x \in SUBSET Nat /\ 0 .. y \subseteq 0 .. x
    BY <1>4
  <2>2. x \notin 0 .. y /\ x \in 0 .. x
    BY <1>4
  <2>3. 0 .. y # 0 .. x
    BY <2>2
  <2>4. <<0 .. y, 0 .. x>> \in StrictSubsetOrdering(Nat)
    BY <2>1, <2>3 DEF StrictSubsetOrdering
  <2> QED
    BY <1>3, <2>4
<1> QED
  BY <1>4

\* Least is that one.
LEMMA LeastIs ==
  ASSUME NEW S \in SUBSET Nat, S # {}
  PROVE  Least(S) \in S /\ \A y \in S : Least(S) <= y
BY LeastOf DEF Least

\* A walk stays in whatever it starts in and does not lead out of.
LEMMA WalkIn ==
  ASSUME NEW a, NEW next, NEW S \in SUBSET DOMAIN next,
         a \in DOMAIN next => a \in S,
         \A y \in S : next[y] \in DOMAIN next => next[y] \in S
  PROVE  Walk(a, next) \subseteq S
BY DEF Walk

\* A walk goes on.
LEMMA WalkOn ==
  ASSUME NEW a, NEW next
  PROVE  /\ Walk(a, next) \subseteq DOMAIN next
         /\ a \in DOMAIN next => a \in Walk(a, next)
         /\ \A y \in Walk(a, next) : next[y] \in DOMAIN next => next[y] \in Walk(a, next)
BY DEF Walk

-----------------------------------------------------------------------------
(* Pieces that cover 0 .. n - 1. *)

End(bl, p) == p + bl[p].len
Tiling(bl, S, n) ==
  /\ S \in SUBSET (0 .. n - 1) /\ S \subseteq DOMAIN bl /\ 0 \in S
  /\ \A u \in S : bl[u].len \in 1 .. n /\ bl[u].free \in BOOLEAN /\ End(bl, u) \in S \cup {n}
  /\ \A u, v \in S : u < v => End(bl, u) <= v
  /\ \A v \in S \cup {n} : v # 0 => \E u \in S : End(bl, u) = v

\* They are what a walk by their lengths finds.
LEMMA StartsOf ==
  ASSUME NEW n \in Nat \ {0}, NEW bl, DOMAIN bl \subseteq 0 .. n - 1, NEW S, Tiling(bl, S, n)
  PROVE  Starts(bl) = S
<1> DEFINE next == [p \in DOMAIN bl |-> p + bl[p].len]
           W == Walk(0, next)
<1>1. DOMAIN next = DOMAIN bl /\ \A p \in DOMAIN bl : next[p] = End(bl, p)
  BY DEF End
<1>2. n \notin DOMAIN bl /\ 0 \in DOMAIN bl /\ S \subseteq DOMAIN bl /\ S \in SUBSET Nat /\ 0 \in S
  BY DEF Tiling
<1>3. Starts(bl) = W
  BY DEF Starts
<1>4. W \subseteq S
  <2>1. \A y \in S : next[y] \in DOMAIN next => next[y] \in S
    BY <1>1, <1>2 DEF Tiling
  <2> HIDE DEF next
  <2> QED
    BY <1>1, <1>2, <2>1, WalkIn
<1>5. ASSUME S \ W # {}
      PROVE  FALSE
  <2> DEFINE v == Least(S \ W)
  <2>1. v \in S \ W /\ \A y \in S \ W : v <= y
    BY <1>2, <1>5, LeastIs
  <2>2. 0 \in W /\ \A y \in W : next[y] \in DOMAIN next => next[y] \in W
    BY <1>1, <1>2, WalkOn
  <2> HIDE DEF v, W, next
  <2>3. PICK u \in S : End(bl, u) = v
    BY <2>1, <2>2 DEF Tiling
  <2>4. u < v
    BY <1>2, <2>1, <2>3 DEF Tiling, End
  <2>5. u \in W
    BY <1>2, <2>1, <2>4
  <2> QED
    BY <1>1, <1>2, <2>1, <2>2, <2>3, <2>5
<1> QED
  BY <1>3, <1>4, <1>5

\* Nothing starts within a piece.
LEMMA Apart ==
  ASSUME NEW n \in Nat \ {0}, NEW bl, NEW S, Tiling(bl, S, n), NEW u \in S, NEW v \in S
  PROVE  /\ u \in Nat /\ v \in Nat /\ bl[u].len \in Nat \ {0} /\ bl[u].len <= n /\ End(bl, u) \in Nat
         /\ v <= u \/ End(bl, u) <= v
         /\ End(bl, u) = End(bl, v) => u = v
<1>1. /\ u \in Nat /\ v \in Nat /\ bl[u].len \in Nat \ {0} /\ bl[v].len \in Nat \ {0} /\ bl[u].len <= n
  BY DEF Tiling
<1>2. (u < v => End(bl, u) <= v) /\ (v < u => End(bl, v) <= u)
  BY DEF Tiling
<1> QED
  BY <1>1, <1>2 DEF End

\* Pieces of a function over the numbers below n.
Rest(bl, p, m) == IF bl[p].len > m THEN {p + m} ELSE {}
IsCut(c, bl, S, p, m) ==
  /\ DOMAIN c = DOMAIN bl \cup Rest(bl, p, m) /\ Rest(bl, p, m) \cap S = {}
  /\ c[p] = [len |-> m, free |-> FALSE]
  /\ \A q \in Rest(bl, p, m) : c[q] = Whole(bl[p].len - m) /\ q = p + m /\ bl[p].len > m
  /\ \A q \in S \ {p} : c[q] = bl[q]

\* What Cut does: the piece is used, its rest is free, the others are as they were.
LEMMA CutPieces ==
  ASSUME NEW n \in Nat \ {0}, NEW bl, NEW S, Tiling(bl, S, n), NEW p \in S, NEW m \in 1 .. bl[p].len
  PROVE  IsCut(Cut(bl, p, m), bl, S, p, m) /\ Rest(bl, p, m) \subseteq 0 .. n - 1
<1>1. /\ p \in Nat /\ bl[p].len \in Nat \ {0} /\ End(bl, p) <= n /\ S \subseteq DOMAIN bl /\ m \in Nat \ {0}
  BY Apart DEF Tiling, End
<1>2. \A q \in S : q \in Nat /\ (q <= p \/ End(bl, p) <= q)
  BY Apart
<1>3. Rest(bl, p, m) \subseteq 0 .. n - 1 /\ Rest(bl, p, m) \cap S = {}
  BY <1>1, <1>2 DEF Rest, End
<1>4. \A q \in S : ~ (q = p + m /\ bl[p].len - m > 0)
  BY <1>1, <1>2 DEF End
<1>5. (IF bl[p].len - m > 0 THEN {p + m} ELSE {}) = Rest(bl, p, m)
  BY <1>1 DEF Rest
<1> DEFINE c == Cut(bl, p, m)
<1>6. c = [q \in DOMAIN bl \cup Rest(bl, p, m) |->
             IF q = p THEN [len |-> m, free |-> FALSE]
             ELSE IF q = p + m /\ bl[p].len - m > 0 THEN Whole(bl[p].len - m) ELSE bl[q]]
  BY <1>5 DEF Cut
<1> HIDE DEF c
<1>7. DOMAIN c = DOMAIN bl \cup Rest(bl, p, m) /\ c[p] = [len |-> m, free |-> FALSE]
  BY <1>1, <1>6
<1>8. \A q \in Rest(bl, p, m) : c[q] = Whole(bl[p].len - m) /\ q = p + m /\ bl[p].len > m
  BY <1>1, <1>6 DEF Rest
<1>9. \A q \in S \ {p} : c[q] = bl[q]
  BY <1>1, <1>4, <1>6
<1> QED
  BY <1>3, <1>7, <1>8, <1>9 DEF c, IsCut

\* The pieces still cover all there is.
LEMMA CutTiles ==
  ASSUME NEW n \in Nat \ {0}, NEW bl, NEW S, Tiling(bl, S, n), NEW p \in S, NEW m \in 1 .. bl[p].len
  PROVE  Tiling(Cut(bl, p, m), S \cup Rest(bl, p, m), n)
<1> DEFINE c == Cut(bl, p, m)
           R == Rest(bl, p, m)
<1>1. /\ DOMAIN c = DOMAIN bl \cup R /\ R \subseteq 0 .. n - 1 /\ R \cap S = {}
      /\ c[p] = [len |-> m, free |-> FALSE]
      /\ \A q \in R : c[q] = Whole(bl[p].len - m) /\ q = p + m /\ bl[p].len > m
      /\ \A q \in S \ {p} : c[q] = bl[q]
  <2>1. IsCut(c, bl, S, p, m) /\ R \subseteq 0 .. n - 1
    BY CutPieces
  <2> HIDE DEF c
  <2> QED
    BY <2>1 DEF IsCut
<1>2. bl[p].len > m => R = {p + m}
  BY DEF Rest
<1> HIDE DEF c, R
<1>3. /\ p \in Nat /\ m \in Nat \ {0} /\ m <= bl[p].len /\ bl[p].len \in Nat /\ bl[p].len <= n /\ p + bl[p].len <= n
      /\ \A q \in S : q \in Nat /\ q < n /\ bl[q].len \in Nat \ {0} /\ bl[q].len <= n
  BY Apart DEF Tiling, End
<1>4. End(c, p) = p + m /\ \A q \in S \ {p} : End(c, q) = End(bl, q) /\ c[q].len = bl[q].len
  BY <1>1 DEF End
<1>5. \A q \in R : q = p + m /\ c[q].len = bl[p].len - m /\ c[q].free = TRUE /\ bl[p].len > m /\ End(c, q) = End(bl, p)
  BY <1>1, <1>3 DEF End, Whole
<1>6. m = bl[p].len \/ bl[p].len > m
  BY <1>3
<1>14. p \in S /\ End(bl, p) \in S \cup {n} /\ End(bl, p) = p + bl[p].len
  BY DEF Tiling, End
<1>15. m \in 1 .. n /\ (bl[p].len > m => bl[p].len - m \in 1 .. n)
  BY <1>3
<1>16. c[p].len = m /\ c[p].free = FALSE
  BY <1>1
<1>7. S \cup R \in SUBSET (0 .. n - 1) /\ S \cup R \subseteq DOMAIN c /\ 0 \in S \cup R
  BY <1>1 DEF Tiling
<1>8. ASSUME NEW u \in S \cup R
      PROVE  c[u].len \in 1 .. n /\ c[u].free \in BOOLEAN /\ End(c, u) \in S \cup R \cup {n}
  <2>1. CASE u \in S \ {p}
    BY <1>1, <1>4, <2>1 DEF Tiling
  <2>2. CASE u = p
    <3>2. End(c, p) \in S \cup R \cup {n}
      BY <1>2, <1>4, <1>6, <1>14
    <3> QED
      BY <1>15, <1>16, <2>2, <3>2
  <2>3. CASE u \in R
    <3>1. c[u].len = bl[p].len - m /\ c[u].free = TRUE /\ bl[p].len > m /\ End(c, u) = End(bl, p)
      BY <1>5, <2>3
    <3> QED
      BY <1>14, <1>15, <3>1
  <2> QED
    BY <2>1, <2>2, <2>3
<1>9. ASSUME NEW u \in S \cup R, NEW v \in S \cup R, u < v
      PROVE  End(c, u) <= v
  <2>1. \A q \in S : (q < p => End(bl, q) <= p) /\ (q > p => p + bl[p].len <= q)
    BY <1>3 DEF Tiling, End
  <2>2. CASE u \in S \ {p}
    <3>1. v \in S => End(bl, u) <= v
      BY <1>9, <2>2 DEF Tiling
    <3>2. v \in R => u < p /\ v > p
      BY <1>3, <1>5, <1>9, <2>1, <2>2 DEF End
    <3>3. u < p => End(bl, u) <= p
      BY <2>1, <2>2
    <3>4. p \in Nat /\ v \in Nat /\ End(bl, u) \in Nat /\ End(c, u) = End(bl, u)
      BY <1>3, <1>4, <1>5, <2>2 DEF End
    <3> QED
      BY <3>1, <3>2, <3>3, <3>4
  <2>3. CASE u = p
    BY <1>3, <1>4, <1>5, <1>9, <2>1, <2>3
  <2>4. CASE u \in R
    <3>1. u = p + m /\ End(c, u) = p + bl[p].len
      BY <1>5, <1>14, <2>4
    <3>2. v \notin R
      BY <1>3, <1>5, <1>9, <3>1
    <3>3. v \in S /\ v \in Nat /\ v > p
      <4>1. v \in S
        BY <3>2
      <4>2. v \in Nat /\ p \in Nat /\ m \in Nat
        BY <1>3, <4>1
      <4> QED
        BY <1>9, <3>1, <4>1, <4>2
    <3> QED
      BY <2>1, <3>1, <3>3
  <2> QED
    BY <2>2, <2>3, <2>4
<1>10. ASSUME NEW v \in S \cup R \cup {n}, v # 0
       PROVE  \E u \in S \cup R : End(c, u) = v
  <2>1. CASE v \in S \cup {n}
    <3>1. PICK u \in S : End(bl, u) = v
      BY <2>1, <1>10 DEF Tiling
    <3>2. CASE u # p
      BY <1>4, <3>1, <3>2
    <3>3. CASE u = p /\ m = bl[p].len
      BY <1>4, <3>1, <3>3 DEF End
    <3>4. CASE u = p /\ bl[p].len > m
      BY <1>2, <1>5, <3>1, <3>4
    <3> QED
      BY <1>6, <3>2, <3>3, <3>4
  <2>2. CASE v \in R
    BY <1>4, <1>5, <2>2
  <2> QED
    BY <2>1, <2>2
<1>11. Tiling(c, S \cup R, n)
  BY <1>7, <1>8, <1>9, <1>10 DEF Tiling
<1> QED
  BY <1>11 DEF c, R

\* A piece takes in the one behind it.
LEMMA MergeTiles ==
  ASSUME NEW n \in Nat \ {0}, NEW c, NEW S, S = DOMAIN c, Tiling(c, S, n),
         NEW u \in S, NEW v \in S, End(c, u) = v
  PROVE  LET d == Merged(c, u, v)
         IN  /\ Tiling(d, DOMAIN d, n) /\ DOMAIN d = S \ {v} /\ u # v
             /\ d[u] = Whole(c[u].len + c[v].len) /\ \A w \in S \ {u, v} : d[w] = c[w]
<1> DEFINE d == Merged(c, u, v)
           T == S \ {v}
<1>1. DOMAIN d = T /\ \A w \in T : d[w] = IF w = u THEN Whole(c[u].len + c[v].len) ELSE c[w]
  BY DEF Merged
<1> HIDE DEF d, T
<1>2. /\ \A w \in S : w \in Nat /\ w < n /\ c[w].len \in Nat \ {0} /\ c[w].len <= n /\ End(c, w) \in Nat /\ End(c, w) <= n
  BY Apart DEF Tiling
<1>3. u < v /\ v = u + c[u].len /\ End(c, v) = v + c[v].len
  BY <1>2 DEF End
<1>4. T \subseteq S /\ v \notin T /\ u \in T /\ v \in S /\ \A w \in S : w # v => w \in T
  BY <1>2, <1>3 DEF T
<1>5. /\ d[u] = Whole(c[u].len + c[v].len) /\ End(d, u) = End(c, v)
      /\ \A w \in T \ {u} : d[w] = c[w] /\ End(d, w) = End(c, w)
  <2>1. d[u] = Whole(c[u].len + c[v].len)
    BY <1>1, <1>4
  <2>2. d[u].len = c[u].len + c[v].len
    BY <2>1 DEF Whole
  <2> QED
    BY <1>1, <1>2, <1>3, <1>4, <2>1, <2>2 DEF End
<1>6. T \in SUBSET (0 .. n - 1) /\ T \subseteq DOMAIN d /\ 0 \in T
  BY <1>1, <1>2, <1>3, <1>4 DEF Tiling
<1>7. ASSUME NEW w \in T
      PROVE  d[w].len \in 1 .. n /\ d[w].free \in BOOLEAN /\ End(d, w) \in T \cup {n}
  <2>1. CASE w = u
    <3>1. d[w].len = c[u].len + c[v].len /\ d[w].free = TRUE
      BY <1>5, <2>1 DEF Whole
    <3>2. End(c, v) \in S \cup {n} /\ End(c, v) > v
      BY <1>2, <1>3 DEF Tiling
    <3>3. End(d, w) \in T \cup {n}
      BY <1>2, <1>3, <1>4, <1>5, <2>1, <3>2
    <3>4. u \in Nat /\ c[u].len \in Nat \ {0} /\ c[v].len \in Nat \ {0} /\ u + c[u].len + c[v].len <= n
      BY <1>2, <1>3
    <3>5. d[w].len \in 1 .. n
      BY <3>1, <3>4
    <3> QED
      BY <3>1, <3>3, <3>5
  <2>2. CASE w # u
    <3>1. End(c, w) # v
      BY <1>4, <2>2, Apart
    <3> QED
      BY <1>4, <1>5, <2>2, <3>1 DEF Tiling
  <2> QED
    BY <2>1, <2>2
<1>8. ASSUME NEW w \in T, NEW x \in T, w < x
      PROVE  End(d, w) <= x
  <2>1. CASE w = u
    <3>1. v < x
      BY <1>2, <1>3, <1>4, <1>8, <2>1 DEF Tiling
    <3>2. End(c, v) <= x
      BY <1>4, <3>1 DEF Tiling
    <3> QED
      BY <1>5, <2>1, <3>2
  <2>2. CASE w # u
    BY <1>4, <1>5, <1>8, <2>2 DEF Tiling
  <2> QED
    BY <2>1, <2>2
<1>9. ASSUME NEW x \in T \cup {n}, x # 0
      PROVE  \E w \in T : End(d, w) = x
  <2>1. PICK w \in S : End(c, w) = x
    BY <1>4, <1>9 DEF Tiling
  <2>2. CASE w = v
    BY <1>4, <1>5, <2>1, <2>2
  <2>3. CASE w # v
    <3>1. w # u
      <4>1. n # v
        BY <1>2
      <4> QED
        BY <1>4, <2>1, <4>1
    <3> QED
      BY <1>4, <1>5, <2>1, <2>3, <3>1
  <2> QED
    BY <2>2, <2>3
<1>10. Tiling(d, T, n)
  BY <1>6, <1>7, <1>8, <1>9 DEF Tiling
<1>11. Tiling(d, DOMAIN d, n) /\ DOMAIN d = S \ {v} /\ u # v
  <2>1. T = DOMAIN d /\ u # v
    BY <1>1, <1>2, <1>3
  <2> QED
    BY <1>10, <2>1 DEF T
<1>12. \A w \in S \ {u, v} : d[w] = c[w]
  BY <1>4, <1>5
<1> QED
  BY <1>5, <1>11, <1>12 DEF d

-----------------------------------------------------------------------------
(* Compaction. *)

\* The blocks that are left.
Heads(bl) == {p \in Starts(bl) : ~ (bl[p].free /\ AfterFree(bl, p))}

\* The next used block, or the end of the heap.
LEMMA NextUsedIs ==
  ASSUME NEW bl, NEW S, S = Starts(bl), Tiling(bl, S, NumHeapPages), NEW p \in S
  PROVE  /\ NextUsed(bl, p) \in S \cup {NumHeapPages} /\ NextUsed(bl, p) \in Nat
         /\ p < NextUsed(bl, p) /\ NextUsed(bl, p) <= NumHeapPages
         /\ NextUsed(bl, p) \in S => ~ bl[NextUsed(bl, p)].free
         /\ \A q \in S : q > p /\ q < NextUsed(bl, p) => bl[q].free
<1>1. S \in SUBSET (0 .. NumHeapPages - 1) /\ NumHeapPages \in Nat \ {0}
  BY CrashHeapAssumption DEF Tiling
<1> DEFINE U == {q \in S : q > p /\ ~ bl[q].free} \cup {NumHeapPages}
<1>2. U \in SUBSET Nat /\ U # {} /\ NextUsed(bl, p) = Least(U)
  BY <1>1 DEF NextUsed
<1> DEFINE x == Least(U)
<1>3. x \in U /\ \A y \in U : x <= y
  BY <1>2, LeastIs
<1> HIDE DEF x
<1>4. x \in S \cup {NumHeapPages} /\ x \in Nat /\ p < x /\ x <= NumHeapPages /\ (x \in S => ~ bl[x].free)
  BY <1>1, <1>3
<1>5. \A q \in S : q > p /\ q < x => bl[q].free
  <2> SUFFICES ASSUME NEW q \in S, q > p, q < x, ~ bl[q].free
               PROVE  FALSE
    OBVIOUS
  <2>1. q \in U /\ q \in Nat
    BY <1>1
  <2> QED
    BY <1>3, <1>4, <2>1
<1>6. NextUsed(bl, p) = x
  BY <1>2 DEF x
<1> QED
  BY <1>4, <1>5, <1>6

\* The blocks still cover the heap.
LEMMA CompactTiles ==
  ASSUME NEW bl, DOMAIN bl = Pages, NEW S, S = Starts(bl), Tiling(bl, S, NumHeapPages)
  PROVE  /\ Tiling(Compacted(bl), Heads(bl), NumHeapPages) /\ DOMAIN Compacted(bl) = Pages
         /\ Heads(bl) \subseteq S
         /\ \A q \in S : ~ bl[q].free => q \in Heads(bl)
         /\ \A q \in Pages : q \notin Heads(bl) \/ ~ bl[q].free => Compacted(bl)[q] = bl[q]
         /\ \A q \in Heads(bl) : Compacted(bl)[q].free = bl[q].free
<1> DEFINE n == NumHeapPages
           c == Compacted(bl)
           T == Heads(bl)
           far(p) == NextUsed(bl, p)
<1>1. n \in Nat \ {0} /\ S \in SUBSET (0 .. n - 1) /\ S \subseteq Pages
  BY CrashHeapAssumption DEF Tiling, Pages
<1>2. \A p \in S : p \in T <=> ~ (bl[p].free /\ \E q \in S : End(bl, q) = p /\ bl[q].free)
  BY DEF Heads, AfterFree, End
<1>3. T \subseteq S
  BY DEF Heads
<1>4. /\ DOMAIN c = Pages
      /\ \A q \in Pages : c[q] = IF q \in T /\ bl[q].free THEN [len |-> far(q) - q, free |-> TRUE] ELSE bl[q]
  <2>1. \A q \in Pages : (q \in Starts(bl) /\ bl[q].free /\ ~ AfterFree(bl, q)) <=> (q \in T /\ bl[q].free)
    BY DEF Heads
  <2>2. c = [q \in Pages |-> IF q \in Starts(bl) /\ bl[q].free /\ ~ AfterFree(bl, q)
                             THEN [len |-> far(q) - q, free |-> TRUE] ELSE bl[q]]
    BY DEF Compacted
  <2> HIDE DEF c, T
  <2> QED
    BY <2>1, <2>2
<1>5. \A p \in S : /\ p \in Nat /\ bl[p].len \in Nat \ {0} /\ End(bl, p) \in Nat /\ bl[p].len \in 1 .. n
                   /\ bl[p].free \in BOOLEAN /\ End(bl, p) \in S \cup {n} /\ End(bl, p) > p
  BY <1>1, Apart DEF Tiling, End
<1>6. \A p \in S : /\ far(p) \in S \cup {n} /\ far(p) \in Nat /\ p < far(p) /\ far(p) <= n
                   /\ (far(p) \in S => ~ bl[far(p)].free)
                   /\ \A q \in S : q > p /\ q < far(p) => bl[q].free
  BY NextUsedIs
<1>7. \A p, q \in S : q <= p \/ End(bl, p) <= q
  BY <1>1, Apart
<1>8. \A p, q \in S : End(bl, p) = End(bl, q) => p = q
  BY <1>1, Apart
<1> HIDE DEF c, T, n, far
<1>9. ASSUME NEW p \in T
      PROVE  /\ ~ bl[p].free => c[p] = bl[p] /\ End(c, p) = End(bl, p)
             /\ bl[p].free => c[p].free = TRUE /\ c[p].len = far(p) - p /\ End(c, p) = far(p)
  <2>1. p \in Pages /\ p \in Nat /\ far(p) \in Nat
    BY <1>1, <1>3, <1>5, <1>6
  <2>2. bl[p].free => c[p] = [len |-> far(p) - p, free |-> TRUE]
    BY <1>4, <2>1
  <2>3. ~ bl[p].free => c[p] = bl[p]
    BY <1>4, <2>1
  <2> QED
    BY <2>1, <2>2, <2>3 DEF End
<1>10. T \in SUBSET (0 .. n - 1) /\ T \subseteq DOMAIN c
  BY <1>1, <1>3, <1>4
<1>11. 0 \in T
  <2>1. 0 \in S
    BY DEF Tiling
  <2>2. \A q \in S : End(bl, q) # 0
    BY <1>5
  <2> QED
    BY <1>2, <2>1, <2>2
<1>12. \A p \in S : ~ bl[p].free => p \in T
  BY <1>2
<1>13. ASSUME NEW p \in T
       PROVE  c[p].len \in 1 .. n /\ c[p].free \in BOOLEAN /\ End(c, p) \in T \cup {n}
  <2>1. CASE bl[p].free
    <3>1. p \in S /\ p \in Nat /\ far(p) \in S \cup {n} /\ far(p) \in Nat /\ p < far(p) /\ far(p) <= n
      BY <1>3, <1>5, <1>6
    <3>2. far(p) \in T \cup {n}
      BY <1>3, <1>6, <1>12, <3>1
    <3>3. far(p) - p \in 1 .. n
      BY <1>1, <3>1
    <3> QED
      BY <1>9, <2>1, <3>2, <3>3
  <2>2. CASE ~ bl[p].free
    <3>1. End(bl, p) \in S => End(bl, p) \in T
      BY <1>2, <1>3, <1>8, <2>2
    <3> QED
      BY <1>3, <1>5, <1>9, <2>2, <3>1
  <2> QED
    BY <2>1, <2>2
<1>14. ASSUME NEW u \in T, NEW v \in T, u < v
       PROVE  End(c, u) <= v
  <2>1. CASE ~ bl[u].free
    <3>1. u \in S /\ v \in S /\ u \in Nat /\ v \in Nat
      BY <1>3, <1>5
    <3>2. End(c, u) = End(bl, u)
      BY <1>9, <2>1
    <3> QED
      BY <1>7, <1>14, <3>1, <3>2
  <2>2. CASE bl[u].free
    <3> SUFFICES ASSUME v < far(u)
                 PROVE  FALSE
      <4>1. u \in S /\ v \in Nat /\ far(u) \in Nat
        BY <1>3, <1>5, <1>6
      <4>2. End(c, u) = far(u)
        BY <1>9, <2>2
      <4> QED
        BY <4>1, <4>2
    <3>1. bl[v].free /\ u \in S /\ v \in S
      BY <1>3, <1>6, <1>14
    <3>2. v # 0
      BY <1>5, <1>14, <3>1
    <3>3. PICK w \in S : End(bl, w) = v
      BY <3>1, <3>2 DEF Tiling
    <3>4. w >= u /\ w < v
      BY <1>5, <1>7, <1>14, <3>1, <3>3
    <3>5. bl[w].free
      BY <1>5, <1>6, <2>2, <3>1, <3>4
    <3> QED
      BY <1>2, <3>1, <3>3, <3>5
  <2> QED
    BY <2>1, <2>2
<1>15. ASSUME NEW v \in T \cup {n}, v # 0
       PROVE  \E u \in T : End(c, u) = v
  <2>1. PICK w \in S : End(bl, w) = v
    BY <1>3, <1>15 DEF Tiling, n
  <2>2. CASE ~ bl[w].free
    BY <1>9, <1>12, <2>1, <2>2
  <2>3. CASE bl[w].free
    <3> DEFINE R == {u \in S : u <= w /\ \A x \in S : u <= x /\ x <= w => bl[x].free}
               u == Least(R)
    <3>1. w \in R /\ R \in SUBSET Nat
      BY <1>5, <2>3
    <3>2. u \in R /\ \A y \in R : u <= y
      BY <3>1, LeastIs
    <3> HIDE DEF u
    <3>3. u \in S /\ u <= w /\ u \in Nat /\ w \in Nat /\ \A x \in S : u <= x /\ x <= w => bl[x].free
      BY <1>5, <3>2
    <3>4. u \in T
      <4> SUFFICES ASSUME NEW x \in S, End(bl, x) = u, bl[x].free
                   PROVE  FALSE
        BY <1>2, <3>3
      <4>1. x \in Nat /\ x < u
        BY <1>5
      <4>2. \A y \in S : x <= y /\ y <= w => bl[y].free
        BY <1>5, <1>7, <3>3, <4>1
      <4>3. x \in R
        BY <3>3, <4>1, <4>2
      <4> QED
        BY <3>2, <3>3, <4>1, <4>3
    <3>5. v \in S => ~ bl[v].free
      BY <1>1, <1>2, <1>15, <2>1, <2>3
    <3>6. v \in S \cup {n} /\ v \in Nat /\ v > w /\ v <= n
      BY <1>1, <1>5, <2>1
    <3>7. far(u) = v
      <4>1. far(u) <= v
        <5>1. CASE v = n
          BY <1>6, <3>3, <5>1
        <5>2. CASE v \in S
          BY <1>6, <3>3, <3>5, <3>6, <5>2
        <5> QED
          BY <3>6, <5>1, <5>2
      <4>2. far(u) >= v
        <5> SUFFICES ASSUME far(u) < v
                     PROVE  FALSE
          BY <1>6, <3>3, <3>6
        <5>1. far(u) \in S /\ far(u) \in Nat /\ ~ bl[far(u)].free /\ far(u) > u
          BY <1>6, <3>3, <3>6
        <5>2. far(u) <= w
          BY <1>5, <1>7, <2>1, <3>6, <5>1
        <5> QED
          BY <3>3, <5>1, <5>2
      <4> QED
        BY <1>6, <3>3, <3>6, <4>1, <4>2
    <3>8. bl[u].free
      BY <3>3
    <3> QED
      BY <1>9, <3>4, <3>7, <3>8
  <2> QED
    BY <2>2, <2>3
<1>16. Tiling(c, T, n)
  BY <1>10, <1>11, <1>13, <1>14, <1>15 DEF Tiling
<1>17. \A q \in Pages : q \notin T \/ ~ bl[q].free => c[q] = bl[q]
  BY <1>4
<1>18. \A q \in T : c[q].free = bl[q].free
  BY <1>3, <1>5, <1>9
<1> QED
  BY <1>3, <1>4, <1>12, <1>16, <1>17, <1>18 DEF c, T, n

-----------------------------------------------------------------------------
(* The heap of pages. *)

BigFit(bl) == bl \in [Pages -> Pieces(NumHeapPages)] /\ Tiling(bl, Starts(bl), NumHeapPages)

\* Where the walk of __AllocBig goes on.
Onward(bl, p) == (p + bl[p].len) % NumHeapPages

\* Of a block the walk goes to the next, and from the last to the first.
LEMMA GoesOn ==
  ASSUME NEW bl, BigFit(bl), NEW p \in Starts(bl)
  PROVE  /\ Onward(bl, p) = IF End(bl, p) = NumHeapPages THEN 0 ELSE End(bl, p)
         /\ Onward(bl, p) \in Starts(bl)
<1>1. NumHeapPages \in Nat \ {0}
  BY CrashHeapAssumption
<1>2. /\ p \in Nat /\ End(bl, p) \in Nat /\ End(bl, p) <= NumHeapPages /\ End(bl, p) = p + bl[p].len
      /\ End(bl, p) \in Starts(bl) \cup {NumHeapPages} /\ 0 \in Starts(bl)
  BY <1>1, Apart DEF BigFit, Tiling, End
<1> QED
  BY <1>1, <1>2 DEF Onward

\* That walk.
NextBig(bl, n) == [p \in Pages |-> IF FitsBig(bl, p, n) THEN Null ELSE Onward(bl, p)]
SeenBig(bl, n) == Walk(cursor, NextBig(bl, n))

\* What __AllocBig's walk does in one step.
LEMMA FindBigIs ==
  ASSUME NEW bl, NEW n
  PROVE  LET next == NextBig(bl, n)
             seen == SeenBig(bl, n)
         IN  /\ (\E p \in seen : next[p] = Null) =>
                  FindBig(bl, n) \in seen /\ next[FindBig(bl, n)] = Null
             /\ ~ (\E p \in seen : next[p] = Null) =>
                  FindBig(bl, n) = IF \E p \in seen : next[p] = cursor THEN Null ELSE NoEnd
BY DEF FindBig, NextBig, SeenBig, Onward

\* With the cursor at a block it finds one that fits if there is one.
LEMMA FindsBig ==
  ASSUME NEW bl, BigFit(bl), NEW n, cursor \in Starts(bl)
  PROVE  \/ FindBig(bl, n) \in Starts(bl) /\ FitsBig(bl, FindBig(bl, n), n)
         \/ FindBig(bl, n) = Null /\ \A q \in Starts(bl) : ~ FitsBig(bl, q, n)
<1> DEFINE S == Starts(bl)
           next == NextBig(bl, n)
           seen == SeenBig(bl, n)
           N == NumHeapPages
           page == FindBig(bl, n)
<1>1. /\ (\E p \in seen : next[p] = Null) => page \in seen /\ next[page] = Null
      /\ ~ (\E p \in seen : next[p] = Null) => page = IF \E p \in seen : next[p] = cursor THEN Null ELSE NoEnd
  BY FindBigIs
<1>2. N \in Nat \ {0} /\ S \in SUBSET (0 .. N - 1) /\ S \subseteq Pages /\ Null \notin Pages /\ Tiling(bl, S, N)
  BY CrashHeapAssumption DEF BigFit, Tiling, Pages, Null
<1>3. DOMAIN next = Pages
  BY DEF NextBig
<1>4. \A p \in S : next[p] = IF FitsBig(bl, p, n) THEN Null ELSE Onward(bl, p)
  BY <1>2 DEF NextBig
<1>5. \A p \in S : /\ Onward(bl, p) = IF End(bl, p) = N THEN 0 ELSE End(bl, p)
                   /\ Onward(bl, p) \in S
  BY GoesOn
<1>6. \A p \in S : p \in Nat /\ p < N /\ End(bl, p) \in Nat /\ End(bl, p) > p /\ \A q \in S : q <= p \/ End(bl, p) <= q
  BY <1>2, Apart DEF Tiling, End
<1>7. seen = Walk(cursor, next)
  BY DEF SeenBig
<1>8. /\ cursor \in DOMAIN next => cursor \in seen
      /\ \A y \in seen : next[y] \in DOMAIN next => next[y] \in seen
  BY <1>7, WalkOn
<1>9. seen \subseteq S
  <2>1. \A y \in S : next[y] \in DOMAIN next => next[y] \in S
    BY <1>2, <1>3, <1>4, <1>5
  <2>2. S \in SUBSET DOMAIN next
    BY <1>2, <1>3
  <2> HIDE DEF next, seen, S
  <2> QED
    BY <1>7, <2>1, <2>2, WalkIn DEF S
<1>10. cursor \in seen /\ cursor \in S /\ cursor \in Nat /\ cursor < N
  BY <1>2, <1>3, <1>6, <1>8
<1> HIDE DEF next, seen, S, N, page
<1>11. CASE \E p \in seen : next[p] = Null
  <2>1. page \in S /\ next[page] = Null
    BY <1>1, <1>9, <1>11
  <2>2. Onward(bl, page) # Null
    BY <1>2, <1>5, <2>1
  <2> QED
    BY <1>4, <2>1, <2>2 DEF S, page
<1>12. CASE ~ \E p \in seen : next[p] = Null
  <2>1. \A p \in seen : ~ FitsBig(bl, p, n) /\ next[p] = Onward(bl, p) /\ Onward(bl, p) \in seen
    <3> SUFFICES ASSUME NEW p \in seen
                 PROVE  ~ FitsBig(bl, p, n) /\ next[p] = Onward(bl, p) /\ Onward(bl, p) \in seen
      OBVIOUS
    <3>1. p \in S /\ next[p] # Null
      BY <1>9, <1>12
    <3>2. ~ FitsBig(bl, p, n) /\ next[p] = Onward(bl, p)
      BY <1>4, <3>1
    <3>3. next[p] \in DOMAIN next
      BY <1>2, <1>3, <1>5, <3>1, <3>2
    <3> QED
      BY <1>8, <3>2, <3>3
  <2>2. \A p \in S : p >= cursor => p \in seen
    <3> SUFFICES ASSUME {p \in S : p >= cursor /\ p \notin seen} # {}
                 PROVE  FALSE
      OBVIOUS
    <3> DEFINE bad == {p \in S : p >= cursor /\ p \notin seen}
               v == Least(bad)
    <3>1. bad \in SUBSET Nat
      BY <1>6
    <3>2. v \in bad /\ \A y \in bad : v <= y
      BY <3>1, LeastIs
    <3> HIDE DEF v
    <3>3. v \in S /\ v \in Nat /\ v > cursor /\ v < N
      BY <1>6, <1>10, <3>2
    <3>4. PICK u \in S : End(bl, u) = v
      BY <1>2, <1>10, <3>3 DEF Tiling
    <3>5. u >= cursor /\ u < v
      BY <1>6, <1>10, <3>3, <3>4
    <3>6. u \in seen
      BY <3>2, <3>5, <1>6
    <3>7. Onward(bl, u) = v
      BY <1>5, <3>3, <3>4
    <3> QED
      BY <2>1, <3>2, <3>6, <3>7
  <2>3. PICK last \in S : End(bl, last) = N
    BY <1>2 DEF Tiling
  <2>4. last \in seen /\ Onward(bl, last) = 0 /\ 0 \in seen
    <3>1. last >= cursor
      BY <1>6, <1>10, <2>3
    <3>2. Onward(bl, last) = 0
      BY <1>5, <2>3
    <3> QED
      BY <2>1, <2>2, <3>1, <3>2
  <2>5. S \subseteq seen
    <3> SUFFICES ASSUME S \ seen # {}
                 PROVE  FALSE
      OBVIOUS
    <3> DEFINE v == Least(S \ seen)
    <3>1. S \ seen \in SUBSET Nat
      BY <1>6
    <3>2. v \in S \ seen /\ \A y \in S \ seen : v <= y
      BY <3>1, LeastIs
    <3> HIDE DEF v
    <3>3. v \in S /\ v \in Nat /\ v # 0 /\ v < N
      BY <1>6, <2>4, <3>2
    <3>4. PICK u \in S : End(bl, u) = v
      BY <1>2, <3>3 DEF Tiling
    <3>5. u < v
      BY <1>6, <3>4
    <3>6. u \in seen
      BY <1>6, <3>2, <3>3, <3>5
    <3>7. Onward(bl, u) = v
      BY <1>5, <3>3, <3>4
    <3> QED
      BY <2>1, <3>2, <3>6, <3>7
  <2>6. \E p \in seen : next[p] = cursor
    <3>1. CASE cursor = 0
      BY <2>1, <2>4, <3>1
    <3>2. CASE cursor # 0
      <4>1. PICK u \in S : End(bl, u) = cursor
        BY <1>2, <1>10, <3>2 DEF Tiling
      <4>2. Onward(bl, u) = cursor
        BY <1>5, <1>10, <4>1
      <4> QED
        BY <2>1, <2>5, <4>1, <4>2
    <3> QED
      BY <3>1, <3>2
  <2>7. page = Null
    BY <1>1, <1>12, <2>6
  <2> QED
    BY <2>1, <2>5, <2>7 DEF S, page
<1> QED
  BY <1>11, <1>12

\* Compacted, the heap of pages is one.
LEMMA CompactFit ==
  ASSUME NEW bl, BigFit(bl)
  PROVE  BigFit(Compacted(bl)) /\ Starts(Compacted(bl)) = Heads(bl)
<1> DEFINE c == Compacted(bl)
           N == NumHeapPages
<1>1. N \in Nat \ {0} /\ DOMAIN bl = Pages /\ Pages = 0 .. N - 1 /\ Tiling(bl, Starts(bl), N)
  BY CrashHeapAssumption DEF BigFit, Pages
<1>2. /\ Tiling(c, Heads(bl), N) /\ DOMAIN c = Pages
      /\ \A q \in Pages : q \notin Heads(bl) \/ ~ bl[q].free => c[q] = bl[q]
  BY <1>1, CompactTiles
<1>3. Starts(c) = Heads(bl)
  BY <1>1, <1>2, StartsOf
<1>4. \A q \in Heads(bl) : bl[q].free => c[q] = [len |-> NextUsed(bl, q) - q, free |-> TRUE] /\ q \in Pages
  <2> SUFFICES ASSUME NEW q \in Heads(bl), bl[q].free
               PROVE  c[q] = [len |-> NextUsed(bl, q) - q, free |-> TRUE] /\ q \in Pages
    OBVIOUS
  <2>1. q \in Starts(bl) /\ ~ AfterFree(bl, q) /\ q \in Pages
    BY <1>1 DEF Heads, Tiling
  <2> QED
    BY <2>1 DEF Compacted
<1>5. ASSUME NEW q \in Pages
      PROVE  c[q] \in Pieces(N)
  <2>1. CASE q \in Heads(bl) /\ bl[q].free
    <3>1. c[q].len \in 1 .. N
      BY <1>2, <2>1 DEF Tiling
    <3>2. PICK l : c[q] = [len |-> l, free |-> TRUE]
      BY <1>4, <2>1
    <3>3. l \in 0 .. N
      BY <1>1, <3>1, <3>2
    <3>4. [len |-> l, free |-> TRUE] \in Pieces(N)
      BY <3>3 DEF Pieces
    <3> QED
      BY <3>2, <3>4
  <2>2. CASE ~ (q \in Heads(bl) /\ bl[q].free)
    BY <1>2, <2>2 DEF BigFit
  <2> QED
    BY <2>1, <2>2
<1>6. c = [q \in Pages |-> c[q]]
  BY DEF Compacted
<1> HIDE DEF c
<1>7. c \in [Pages -> Pieces(N)]
  BY <1>5, <1>6
<1> QED
  BY <1>2, <1>3, <1>7 DEF BigFit, c

\* After a search in vain and a compaction __AllocBig finds a block that fits, or comes back to
\* the cursor, or the block of the cursor has been merged away: it does not take what that block
\* has left behind, for it did not fit before.
LEMMA CompactFinds ==
  ASSUME NEW bl, BigFit(bl), NEW n, cursor \in Starts(bl),
         \A q \in Starts(bl) : ~ FitsBig(bl, q, n)
  PROVE  LET c == Compacted(bl)
             p == FindBig(c, n)
         IN  \/ p \in Starts(c) /\ FitsBig(c, p, n)
             \/ p = Null /\ cursor \in Starts(c)
             \/ p = NoEnd /\ cursor \notin Starts(c)
<1> DEFINE S == Starts(bl)
           c == Compacted(bl)
           T == Starts(c)
           next == NextBig(c, n)
           seen == SeenBig(c, n)
           N == NumHeapPages
           page == FindBig(c, n)
<1>1. /\ (\E p \in seen : next[p] = Null) => page \in seen /\ next[page] = Null
      /\ ~ (\E p \in seen : next[p] = Null) => page = IF \E p \in seen : next[p] = cursor THEN Null ELSE NoEnd
  BY FindBigIs
<1>2. /\ N \in Nat \ {0} /\ DOMAIN bl = Pages /\ Pages = 0 .. N - 1 /\ Tiling(bl, S, N) /\ S \subseteq Pages
      /\ Null \notin Pages /\ NoEnd # Null
  BY CrashHeapAssumption DEF BigFit, Pages, Tiling, Null, NoEnd
<1>3. /\ T \subseteq S /\ BigFit(c)
      /\ \A q \in Pages : q \notin T => c[q] = bl[q]
  BY <1>2, CompactFit, CompactTiles
<1>4. DOMAIN next = Pages /\ \A p \in Pages : next[p] = IF FitsBig(c, p, n) THEN Null ELSE Onward(c, p)
  BY DEF NextBig
<1>5. \A p \in T : Onward(c, p) \in T
  BY <1>3, GoesOn
<1>6. \A p \in S : /\ Onward(bl, p) = IF End(bl, p) = N THEN 0 ELSE End(bl, p)
                   /\ Onward(bl, p) \in S
  BY GoesOn
<1>7. \A p \in S \ T : ~ FitsBig(c, p, n) /\ Onward(c, p) = Onward(bl, p)
  BY <1>2, <1>3 DEF FitsBig, Onward
<1>8. \A p \in S : p \in Nat /\ End(bl, p) \in Nat /\ End(bl, p) > p
  BY <1>2, Apart DEF Tiling, End
<1>9. 0 \in T
  BY <1>3 DEF BigFit, Tiling
<1>10. seen = Walk(cursor, next)
  BY DEF SeenBig
<1>11. cursor \in S /\ cursor \in Nat
  BY <1>8
<1> DEFINE V == T \cup {p \in S : p >= cursor}
<1>12. V \in SUBSET DOMAIN next /\ cursor \in V
  BY <1>2, <1>3, <1>4, <1>11
<1>13. ASSUME NEW y \in V, next[y] \in DOMAIN next
       PROVE  next[y] \in V
  <2>1. y \in Pages /\ ~ FitsBig(c, y, n) /\ next[y] = Onward(c, y)
    BY <1>2, <1>3, <1>4, <1>13
  <2>2. CASE y \in T
    BY <1>5, <2>1, <2>2
  <2>3. CASE y \notin T
    <3>1. y \in S /\ y >= cursor /\ next[y] = Onward(bl, y)
      BY <1>7, <2>1, <2>3
    <3>2. CASE End(bl, y) = N
      BY <1>6, <1>9, <3>1, <3>2
    <3>3. CASE End(bl, y) # N
      BY <1>6, <1>8, <1>11, <3>1, <3>3
    <3> QED
      BY <3>2, <3>3
  <2> QED
    BY <2>2, <2>3
<1> HIDE DEF next, seen, c, S, T, N, page
<1>14. seen \subseteq V
  <2> HIDE DEF V
  <2> QED
    BY <1>10, <1>12, <1>13, WalkIn
<1>15. CASE \E p \in seen : next[p] = Null
  <2>1. page \in V /\ next[page] = Null
    BY <1>1, <1>14, <1>15
  <2>2. page \in Pages
    BY <1>4, <1>12, <2>1
  <2>3. FitsBig(c, page, n)
    <3> SUFFICES ASSUME ~ FitsBig(c, page, n)
                 PROVE  FALSE
      OBVIOUS
    <3>1. next[page] = Onward(c, page)
      BY <1>4, <2>2
    <3>2. CASE page \in T
      BY <1>2, <1>3, <1>5, <2>1, <3>1, <3>2
    <3>3. CASE page \notin T
      BY <1>2, <1>6, <1>7, <2>1, <3>1, <3>3
    <3> QED
      BY <3>2, <3>3
  <2>4. page \in T
    BY <1>7, <2>1, <2>3
  <2> QED
    BY <2>3, <2>4 DEF T, page, c
<1>16. CASE ~ \E p \in seen : next[p] = Null
  <2>1. CASE cursor \in T
    <3>1. \/ page \in T /\ FitsBig(c, page, n)
          \/ page = Null
      BY <1>3, <2>1, FindsBig DEF T, page
    <3> QED
      BY <2>1, <3>1 DEF T, page, c
  <2>2. CASE cursor \notin T
    <3>1. ASSUME NEW p \in seen, next[p] = cursor
          PROVE  FALSE
      <4>1. p \in V /\ p \in Pages
        BY <1>4, <1>12, <1>14, <3>1
      <4>2. next[p] = Onward(c, p)
        BY <1>2, <1>4, <1>11, <3>1, <4>1
      <4>3. CASE p \in T
        BY <1>5, <2>2, <3>1, <4>2, <4>3
      <4>4. CASE p \notin T
        <5>1. p \in S /\ p >= cursor /\ Onward(bl, p) = cursor
          BY <1>7, <3>1, <4>1, <4>2, <4>4
        <5> QED
          BY <1>6, <1>8, <1>9, <1>11, <2>2, <5>1
      <4> QED
        BY <4>3, <4>4
    <3>2. page = NoEnd
      BY <1>1, <1>16, <3>1
    <3> QED
      BY <2>2, <3>2 DEF T, page, c
  <2> QED
    BY <2>1, <2>2
<1> QED
  BY <1>15, <1>16

\* What __AllocBig leaves: a block that was not used and is now, and nothing else changed of
\* those that are used; or only some free blocks merged.
UsedBig(bl) == {q \in Starts(bl) : ~ bl[q].free}
BigDone(page, bl, n) ==
  /\ BigFit(bl) /\ \A q \in UsedBig(block) : bl[q] = block[q]
  /\ \/ /\ page \in Pages /\ page \notin UsedBig(block) /\ UsedBig(bl) = UsedBig(block) \cup {page}
        /\ bl[page] = [len |-> n, free |-> FALSE] /\ (page + n) % NumHeapPages \in Starts(bl)
     \/ page = Null /\ UsedBig(bl) = UsedBig(block) /\ cursor \in Starts(bl)
     \/ page = NoEnd /\ UsedBig(bl) = UsedBig(block) /\ cursor \notin Starts(bl)

\* ... in blocks that may have been merged first.
LEMMA PlaceDone ==
  ASSUME NEW bl, BigFit(bl), NEW n \in Nat \ {0}, UsedBig(bl) = UsedBig(block), BigFit(block),
         \A q \in UsedBig(block) : bl[q] = block[q],
         LET p == FindBig(bl, n)
         IN  \/ p \in Starts(bl) /\ FitsBig(bl, p, n)
             \/ p = Null /\ cursor \in Starts(bl)
             \/ p = NoEnd /\ cursor \notin Starts(bl)
  PROVE  BigDone(Placed(bl, n).page, Placed(bl, n).blocks, n)
<1> DEFINE p == FindBig(bl, n)
           c == Cut(bl, p, n)
           S == Starts(bl)
           N == NumHeapPages
<1>1. Placed(bl, n).page = p /\ Placed(bl, n).blocks = IF p >= 0 THEN c ELSE bl
  BY DEF Placed
<1>2. CASE p \in S /\ FitsBig(bl, p, n)
  <2>1. /\ N \in Nat \ {0} /\ DOMAIN bl = Pages /\ Pages = 0 .. N - 1 /\ Tiling(bl, S, N)
        /\ bl[p].len \in 1 .. N /\ n \in 1 .. bl[p].len /\ bl[p].free /\ p \in Pages
        /\ End(bl, p) \in S \cup {N}
    BY <1>2, CrashHeapAssumption DEF BigFit, Pages, Tiling, FitsBig
  <2>2. IsCut(c, bl, S, p, n) /\ Rest(bl, p, n) \subseteq Pages
    BY <1>2, <2>1, CutPieces
  <2>3. Tiling(c, S \cup Rest(bl, p, n), N)
    BY <1>2, <2>1, CutTiles
  <2>4. p >= 0
    BY <2>1
  <2> HIDE DEF c, p, S
  <2>5. DOMAIN c = Pages
    BY <2>1, <2>2 DEF IsCut
  <2>6. Starts(c) = S \cup Rest(bl, p, n)
    BY <2>1, <2>3, <2>5, StartsOf
  <2>7. /\ c[p] = [len |-> n, free |-> FALSE] /\ \A q \in S \ {p} : c[q] = bl[q]
        /\ \A q \in Rest(bl, p, n) : c[q] = Whole(bl[p].len - n) /\ q = p + n /\ bl[p].len > n /\ q \notin S
    BY <2>2 DEF IsCut
  <2>8. c \in [Pages -> Pieces(N)]
    <3>1. \A q \in Pages : bl[q] \in Pieces(N)
      BY DEF BigFit
    <3>2. [len |-> n, free |-> FALSE] \in Pieces(N)
      BY <2>1 DEF Pieces
    <3>3. bl[p].len > n => Whole(bl[p].len - n) \in Pieces(N)
      <4>1. bl[p].len > n => bl[p].len - n \in 0 .. N
        BY <2>1
      <4> QED
        BY <4>1 DEF Pieces, Whole
    <3>4. DOMAIN bl \cup Rest(bl, p, n) = Pages
      BY <2>1, <2>2
    <3>5. (IF bl[p].len - n > 0 THEN {p + n} ELSE {}) = Rest(bl, p, n)
      BY <2>1 DEF Rest
    <3>6. c = [q \in Pages |-> IF q = p THEN [len |-> n, free |-> FALSE]
                              ELSE IF q = p + n /\ bl[p].len - n > 0 THEN Whole(bl[p].len - n) ELSE bl[q]]
      BY <3>4, <3>5 DEF c, Cut
    <3>7. bl[p].len - n > 0 <=> bl[p].len > n
      BY <2>1
    <3> QED
      BY <3>1, <3>2, <3>3, <3>6, <3>7
  <2>9. BigFit(c)
    BY <2>3, <2>6, <2>8 DEF BigFit
  <2>10. p \notin UsedBig(bl) /\ \A q \in UsedBig(block) : c[q] = block[q]
    BY <2>1, <2>7 DEF UsedBig, S
  <2>11. \A q \in Rest(bl, p, n) : c[q].free = TRUE
    BY <2>7 DEF Whole
  <2>12. c[p].free = FALSE
    BY <2>7
  <2>13. UsedBig(c) = UsedBig(block) \cup {p}
    <3>1. UsedBig(c) = {q \in S \cup Rest(bl, p, n) : ~ c[q].free}
      BY <2>6 DEF UsedBig
    <3>2. UsedBig(block) = {q \in S : ~ bl[q].free}
      BY DEF UsedBig, S
    <3> QED
      BY <1>2, <2>1, <2>7, <2>11, <2>12, <3>1, <3>2 DEF S, p
  <2>14. (p + n) % N \in Starts(c)
    <3>1. End(c, p) = p + n
      BY <2>12, <2>7 DEF End
    <3>2. p \in Starts(c)
      BY <1>2, <2>6 DEF S, p
    <3>3. Onward(c, p) \in Starts(c)
      BY <2>9, <3>2, GoesOn
    <3> QED
      BY <2>7, <3>3 DEF Onward
  <2>15. Placed(bl, n).page = p /\ Placed(bl, n).blocks = c
    BY <1>1, <2>4 DEF c, p
  <2> QED
    BY <2>1, <2>7, <2>9, <2>10, <2>13, <2>14, <2>15 DEF BigDone
<1>3. CASE ~ (p \in S /\ FitsBig(bl, p, n))
  <2>1. \/ p = Null /\ cursor \in S
        \/ p = NoEnd /\ cursor \notin S
    BY <1>3
  <2>2. ~ (p >= 0)
    BY <2>1 DEF Null, NoEnd
  <2> QED
    BY <1>1, <2>1, <2>2 DEF BigDone
<1> QED
  BY <1>2, <1>3

\* __AllocBig.
LEMMA AllocBigDone ==
  ASSUME BigFit(block), cursor \in Starts(block), NEW n \in Nat \ {0}
  PROVE  BigDone(AllocBig(n).page, AllocBig(n).blocks, n)
<1> DEFINE x == Placed(block, n)
           c == Compacted(block)
<1>1. \/ FindBig(block, n) \in Starts(block) /\ FitsBig(block, FindBig(block, n), n)
      \/ FindBig(block, n) = Null /\ \A q \in Starts(block) : ~ FitsBig(block, q, n)
  BY FindsBig
<1>2. BigDone(x.page, x.blocks, n)
  BY <1>1, PlaceDone
<1>3. AllocBig(n) = IF x.page = Null /\ n > 1 /\ c # block THEN Placed(c, n) ELSE x
  BY DEF AllocBig
<1>4. CASE x.page = Null /\ n > 1 /\ c # block
  <2>1. FindBig(block, n) = Null
    BY <1>4 DEF Placed
  <2>2. \A q \in Starts(block) : ~ FitsBig(block, q, n)
    <3>1. Starts(block) \subseteq Pages /\ Null \notin Pages
      BY CrashHeapAssumption DEF BigFit, Tiling, Pages, Null
    <3> QED
      BY <1>1, <2>1, <3>1
  <2>3. \/ FindBig(c, n) \in Starts(c) /\ FitsBig(c, FindBig(c, n), n)
        \/ FindBig(c, n) = Null /\ cursor \in Starts(c)
        \/ FindBig(c, n) = NoEnd /\ cursor \notin Starts(c)
    BY <2>2, CompactFinds
  <2>4. BigFit(c) /\ Starts(c) = Heads(block)
    BY CompactFit
  <2>5. /\ Heads(block) \subseteq Starts(block)
        /\ \A q \in Starts(block) : ~ block[q].free => q \in Heads(block)
        /\ \A q \in Pages : q \notin Heads(block) \/ ~ block[q].free => c[q] = block[q]
        /\ \A q \in Heads(block) : c[q].free = block[q].free
    BY CompactTiles DEF BigFit
  <2>6. Starts(block) \subseteq Pages
    BY DEF BigFit, Tiling
  <2>7. UsedBig(c) = UsedBig(block) /\ \A q \in UsedBig(block) : c[q] = block[q]
    BY <2>4, <2>5, <2>6 DEF UsedBig
  <2>8. BigDone(Placed(c, n).page, Placed(c, n).blocks, n)
    BY <2>3, <2>4, <2>7, PlaceDone
  <2> QED
    BY <1>3, <1>4, <2>8
<1>5. CASE ~ (x.page = Null /\ n > 1 /\ c # block)
  BY <1>2, <1>3, <1>5
<1> QED
  BY <1>4, <1>5

-----------------------------------------------------------------------------
(* Chunks. *)

\* A chunk's units.
Units(c, u) == u .. u + c[u].len - 1
UsedChunks(c) == {u \in DOMAIN c : ~ c[u].free}

\* Chunks that cover a sub-heap, with no two free ones side by side.
ChunksApart(c) == \A u, v \in DOMAIN c : ~ (c[u].free /\ c[v].free /\ End(c, u) = v)
ChunksOk(c) == c \in Chunks /\ Tiling(c, DOMAIN c, SubHeapSize) /\ ChunksApart(c)

\* What a chunk is.
LEMMA ChunkIs ==
  ASSUME NEW c, c \in Chunks, Tiling(c, DOMAIN c, SubHeapSize), NEW u \in DOMAIN c
  PROVE  /\ SubHeapSize \in Nat \ {0} /\ DOMAIN c \subseteq 0 .. SubHeapSize - 1
         /\ u \in Nat /\ u < SubHeapSize /\ c[u].len \in Nat \ {0} /\ c[u].len <= SubHeapSize
         /\ c[u].free \in BOOLEAN /\ c[u] = [len |-> c[u].len, free |-> c[u].free]
         /\ End(c, u) = u + c[u].len /\ End(c, u) <= SubHeapSize
         /\ End(c, u) \in DOMAIN c \cup {SubHeapSize}
         /\ \A v \in DOMAIN c : /\ v <= u \/ End(c, u) <= v
                                /\ End(c, u) = End(c, v) => u = v
<1>1. SubHeapSize \in Nat \ {0}
  BY CrashHeapAssumption
<1>2. \A v \in DOMAIN c : /\ v <= u \/ End(c, u) <= v
                          /\ End(c, u) = End(c, v) => u = v
  BY <1>1, Apart
<1>3. c[u] \in Pieces(SubHeapSize)
  BY DEF Chunks
<1>4. c[u] = [len |-> c[u].len, free |-> c[u].free] /\ c[u].free \in BOOLEAN
  BY <1>3 DEF Pieces
<1>5. DOMAIN c \in SUBSET (0 .. SubHeapSize - 1) /\ c[u].len \in 1 .. SubHeapSize /\ End(c, u) \in DOMAIN c \cup {SubHeapSize}
  BY DEF Tiling
<1> QED
  BY <1>1, <1>2, <1>4, <1>5 DEF End

\* A function whose chunks are pieces.
LEMMA AreChunks ==
  ASSUME NEW c, c = [u \in DOMAIN c |-> c[u]], DOMAIN c \subseteq 0 .. SubHeapSize - 1,
         \A u \in DOMAIN c : c[u] \in Pieces(SubHeapSize)
  PROVE  c \in Chunks
<1>1. c \in [DOMAIN c -> Pieces(SubHeapSize)]
  OBVIOUS
<1> QED
  BY <1>1 DEF Chunks

\* The free units: those of the free chunks, which are no others'.
LEMMA FreeUnitsAre ==
  ASSUME NEW c, c \in Chunks, Tiling(c, DOMAIN c, SubHeapSize)
  PROVE  /\ FreeUnits(c) \subseteq 0 .. SubHeapSize - 1 /\ IsFiniteSet(FreeUnits(c))
         /\ Cardinality(FreeUnits(c)) \in 0 .. SubHeapSize
         /\ \A x : x \in FreeUnits(c) <=> \E u \in DOMAIN c : c[u].free /\ x \in Units(c, u)
         /\ \A u \in DOMAIN c : /\ IsFiniteSet(Units(c, u)) /\ Cardinality(Units(c, u)) = c[u].len
                                /\ Units(c, u) \subseteq 0 .. SubHeapSize - 1 /\ u \in Units(c, u)
                                /\ ~ c[u].free => Units(c, u) \cap FreeUnits(c) = {}
         /\ \A u, v \in DOMAIN c : u # v => Units(c, u) \cap Units(c, v) = {}
<1>1. \A x : x \in FreeUnits(c) <=> \E u \in DOMAIN c : c[u].free /\ x \in Units(c, u)
  BY DEF FreeUnits, Units
<1>2. ASSUME NEW u \in DOMAIN c
      PROVE  /\ IsFiniteSet(Units(c, u)) /\ Cardinality(Units(c, u)) = c[u].len
             /\ Units(c, u) \subseteq 0 .. SubHeapSize - 1 /\ u \in Units(c, u)
  <2>1. /\ u \in Nat /\ c[u].len \in Nat \ {0} /\ u + c[u].len <= SubHeapSize /\ SubHeapSize \in Nat
    BY ChunkIs
  <2>2. IsFiniteSet(u .. u + c[u].len - 1) /\ Cardinality(u .. u + c[u].len - 1) = c[u].len
    <3>1. u + c[u].len - 1 \in Int /\ u \in Int /\ ~ (u > u + c[u].len - 1) /\ (u + c[u].len - 1) - u + 1 = c[u].len
      BY <2>1
    <3> QED
      BY <3>1, FS_Interval
  <2> QED
    BY <2>1, <2>2 DEF Units
<1>3. ASSUME NEW u \in DOMAIN c, NEW v \in DOMAIN c, u # v
      PROVE  Units(c, u) \cap Units(c, v) = {}
  <2>1. /\ u \in Nat /\ v \in Nat /\ c[u].len \in Nat /\ c[v].len \in Nat
        /\ v <= u \/ u + c[u].len <= v
        /\ u <= v \/ v + c[v].len <= u
    BY ChunkIs DEF End
  <2> QED
    BY <1>3, <2>1 DEF Units
<1>4. \A u \in DOMAIN c : ~ c[u].free => Units(c, u) \cap FreeUnits(c) = {}
  BY <1>1, <1>3
<1>5. FreeUnits(c) \subseteq 0 .. SubHeapSize - 1
  BY <1>1, <1>2
<1>6. IsFiniteSet(FreeUnits(c)) /\ Cardinality(FreeUnits(c)) \in 0 .. SubHeapSize
  <2>1. SubHeapSize \in Nat \ {0}
    BY CrashHeapAssumption
  <2>2. IsFiniteSet(0 .. SubHeapSize - 1) /\ Cardinality(0 .. SubHeapSize - 1) = SubHeapSize
    <3>1. 0 \in Int /\ SubHeapSize - 1 \in Int /\ ~ (0 > SubHeapSize - 1) /\ (SubHeapSize - 1) - 0 + 1 = SubHeapSize
      BY <2>1
    <3> QED
      BY <3>1, FS_Interval
  <2>3. /\ IsFiniteSet(FreeUnits(c)) /\ Cardinality(FreeUnits(c)) <= SubHeapSize
    BY <1>5, <2>2, FS_Subset
  <2>4. Cardinality(FreeUnits(c)) \in Nat
    BY <2>3, FS_CardinalityType
  <2> QED
    BY <2>1, <2>3, <2>4
<1> QED
  BY <1>1, <1>2, <1>3, <1>4, <1>5, <1>6

\* The chunks when one has been served.
Served(c, n) == Cut(c, FirstFit(c, n), Taken(c, n))

\* __TrySmall: a free chunk is used, or the end of it that was asked for is not.
LEMMA ServedOk ==
  ASSUME NEW c, ChunksOk(c), NEW n \in Nat \ {0}, Fitting(c, n) # {}
  PROVE  LET u == FirstFit(c, n)
             len == Taken(c, n)
             d == Served(c, n)
         IN  /\ u \in DOMAIN c /\ u \notin UsedChunks(c) /\ len \in Nat \ {0}
             /\ ChunksOk(d) /\ UsedChunks(d) = UsedChunks(c) \cup {u} /\ d[u].len = len
             /\ \A v \in UsedChunks(c) : d[v] = c[v]
             /\ Cardinality(FreeUnits(d)) = Cardinality(FreeUnits(c)) - len
<1> DEFINE u == FirstFit(c, n)
           len == Taken(c, n)
           d == Served(c, n)
           R == Rest(c, u, len)
<1>1. c \in Chunks /\ Tiling(c, DOMAIN c, SubHeapSize) /\ ChunksApart(c)
  BY DEF ChunksOk
<1>2. SubHeapSize \in Nat \ {0} /\ DOMAIN c \subseteq 0 .. SubHeapSize - 1 /\ DOMAIN c \subseteq Nat
  BY <1>1, CrashHeapAssumption DEF Tiling
<1>3. u \in DOMAIN c /\ c[u].free /\ c[u].len >= n
  <2>1. Fitting(c, n) \in SUBSET Nat
    BY <1>2 DEF Fitting
  <2>2. u \in Fitting(c, n)
    BY <2>1, LeastIs DEF FirstFit
  <2> QED
    BY <2>2 DEF Fitting
<1>4. /\ u \in Nat /\ c[u].len \in Nat \ {0} /\ c[u].len <= SubHeapSize /\ End(c, u) = u + c[u].len
      /\ End(c, u) <= SubHeapSize
      /\ \A v \in DOMAIN c : /\ v <= u \/ End(c, u) <= v
                             /\ End(c, u) = End(c, v) => u = v
  BY <1>1, <1>3, ChunkIs
<1>5. len \in 1 .. c[u].len
  <2>1. Slack \in Nat
    BY CrashHeapAssumption
  <2>2. len = IF c[u].len > n + Slack THEN n ELSE c[u].len
    BY DEF Taken
  <2> HIDE DEF u, len
  <2> QED
    BY <1>3, <1>4, <2>1, <2>2
<1>6. IsCut(d, c, DOMAIN c, u, len) /\ R \subseteq 0 .. SubHeapSize - 1 /\ Tiling(d, DOMAIN c \cup R, SubHeapSize)
  BY <1>1, <1>2, <1>3, <1>5, CutPieces, CutTiles DEF Served
<1>7. d = [q \in DOMAIN d |-> d[q]]
  BY DEF Served, Cut
<1> HIDE DEF u, len, d, R
<1>8. /\ DOMAIN d = DOMAIN c \cup R /\ R \cap DOMAIN c = {} /\ d[u] = [len |-> len, free |-> FALSE]
      /\ \A q \in R : d[q] = Whole(c[u].len - len) /\ q = u + len /\ c[u].len > len
      /\ \A q \in DOMAIN c \ {u} : d[q] = c[q]
  BY <1>6 DEF IsCut, R
<1>9. c[u].len > len => R = {u + len}
  BY DEF R, Rest
<1>10. d[u].free = FALSE /\ d[u].len = len /\ \A q \in R : d[q].free = TRUE /\ d[q].len = c[u].len - len
  BY <1>8 DEF Whole
<1>11. len \in Nat \ {0} /\ len <= SubHeapSize
  BY <1>2, <1>4, <1>5
<1>12. d \in Chunks
  <2>1. \A q \in DOMAIN c : c[q] \in Pieces(SubHeapSize)
    BY <1>1 DEF Chunks
  <2>2. [len |-> len, free |-> FALSE] \in Pieces(SubHeapSize)
    BY <1>11 DEF Pieces
  <2>3. c[u].len > len => Whole(c[u].len - len) \in Pieces(SubHeapSize)
    <3>1. c[u].len > len => c[u].len - len \in 0 .. SubHeapSize
      BY <1>2, <1>4, <1>11
    <3> QED
      BY <3>1 DEF Pieces, Whole
  <2>4. \A q \in DOMAIN d : d[q] \in Pieces(SubHeapSize)
    BY <1>8, <2>1, <2>2, <2>3
  <2>5. DOMAIN d \subseteq 0 .. SubHeapSize - 1
    BY <1>2, <1>6, <1>8
  <2> QED
    BY <1>7, <2>4, <2>5, AreChunks
<1>13. Tiling(d, DOMAIN d, SubHeapSize)
  BY <1>6, <1>8
<1>14. \A q \in DOMAIN c : /\ q # u => End(d, q) = End(c, q)
                           /\ q = u => End(d, q) = u + len
  BY <1>8, <1>10 DEF End
<1>15. \A q \in R : End(d, q) = End(c, u) /\ q = u + len
  BY <1>4, <1>8, <1>10, <1>11 DEF End
<1>16. ChunksApart(d)
  <2> SUFFICES ASSUME NEW v \in DOMAIN d, NEW w \in DOMAIN d, d[v].free, d[w].free, End(d, v) = w
               PROVE  FALSE
    BY DEF ChunksApart
  <2>1. v # u /\ w # u
    BY <1>10
  <2>2. CASE v \in DOMAIN c /\ w \in DOMAIN c
    BY <1>1, <1>8, <1>14, <2>1, <2>2 DEF ChunksApart
  <2>3. CASE v \in R /\ w \in DOMAIN c
    BY <1>1, <1>3, <1>8, <1>15, <2>1, <2>3 DEF ChunksApart
  <2>4. CASE v \in DOMAIN c /\ w \in R
    <3>1. v # u /\ v \in DOMAIN d /\ u \in DOMAIN d /\ End(d, v) = End(d, u)
      BY <1>3, <1>8, <1>14, <1>15, <2>1, <2>4
    <3> QED
      BY <1>2, <1>13, <3>1, Apart
  <2>5. CASE v \in R /\ w \in R
    BY <1>4, <1>11, <1>8, <1>15, <2>5
  <2> QED
    BY <1>8, <2>2, <2>3, <2>4, <2>5
<1>17. ChunksOk(d)
  BY <1>12, <1>13, <1>16 DEF ChunksOk
<1>18. UsedChunks(d) = UsedChunks(c) \cup {u} /\ u \notin UsedChunks(c) /\ \A v \in UsedChunks(c) : d[v] = c[v]
  BY <1>3, <1>8, <1>10 DEF UsedChunks
<1>19. FreeUnits(d) = FreeUnits(c) \ Units(d, u) /\ Units(d, u) \subseteq FreeUnits(c)
  <2>1. \A x : x \in FreeUnits(c) <=> \E v \in DOMAIN c : c[v].free /\ x \in Units(c, v)
    BY <1>1, FreeUnitsAre
  <2>2. \A x : x \in FreeUnits(d) <=> \E v \in DOMAIN d : d[v].free /\ x \in Units(d, v)
    BY <1>12, <1>13, FreeUnitsAre
  <2>3. \A v \in DOMAIN c \ {u} : Units(d, v) = Units(c, v)
    BY <1>8 DEF Units
  <2>4. Units(d, u) \subseteq Units(c, u)
    BY <1>4, <1>5, <1>10 DEF Units
  <2>5. \A x \in Units(c, u) : x \in Units(d, u) \/ \E q \in R : x \in Units(d, q)
    <3> SUFFICES ASSUME NEW x \in Units(c, u), x \notin Units(d, u)
                 PROVE  \E q \in R : x \in Units(d, q)
      OBVIOUS
    <3>1. x \in Nat /\ x >= u /\ x <= u + c[u].len - 1 /\ ~ (x >= u /\ x <= u + len - 1)
      BY <1>4, <1>10, <1>11 DEF Units
    <3>2. c[u].len > len /\ x >= u + len /\ x \in Nat
      BY <1>4, <1>11, <3>1
    <3>3. R = {u + len} /\ d[u + len].len = c[u].len - len
      BY <1>9, <1>10, <3>2
    <3>4. x \in (u + len) .. (u + len) + (c[u].len - len) - 1
      BY <1>4, <1>11, <3>1, <3>2
    <3> QED
      BY <3>3, <3>4 DEF Units
  <2>6. \A q \in R : Units(d, q) \subseteq Units(c, u)
    BY <1>4, <1>8, <1>10, <1>11 DEF Units
  <2>7. \A v, w \in DOMAIN d : v # w => Units(d, v) \cap Units(d, w) = {}
    BY <1>12, <1>13, FreeUnitsAre
  <2>8. \A v \in DOMAIN c : v # u => d[v].free = c[v].free /\ v \in DOMAIN d
    BY <1>8
  <2>9. u \in DOMAIN d /\ R \subseteq DOMAIN d /\ u \notin R
    BY <1>3, <1>8
  <2>10. ASSUME NEW x \in FreeUnits(d)
         PROVE  x \in FreeUnits(c) /\ x \notin Units(d, u)
    <3>1. PICK v \in DOMAIN d : d[v].free /\ x \in Units(d, v)
      BY <2>2
    <3>2. v # u /\ x \notin Units(d, u)
      BY <1>10, <2>7, <2>9, <3>1
    <3>3. CASE v \in R
      BY <1>3, <2>1, <2>6, <3>1, <3>2, <3>3
    <3>4. CASE v \in DOMAIN c
      BY <2>1, <2>3, <2>8, <3>1, <3>2, <3>4
    <3> QED
      BY <1>8, <3>2, <3>3, <3>4
  <2>11. ASSUME NEW x \in FreeUnits(c), x \notin Units(d, u)
         PROVE  x \in FreeUnits(d)
    <3>1. PICK v \in DOMAIN c : c[v].free /\ x \in Units(c, v)
      BY <2>1
    <3>2. CASE v = u
      BY <1>10, <2>2, <2>5, <2>9, <2>11, <3>1, <3>2
    <3>3. CASE v # u
      BY <2>2, <2>3, <2>8, <3>1, <3>3
    <3> QED
      BY <3>2, <3>3
  <2>12. Units(d, u) \subseteq FreeUnits(c)
    BY <1>3, <2>1, <2>4
  <2> QED
    BY <2>10, <2>11, <2>12
<1>20. Cardinality(FreeUnits(d)) = Cardinality(FreeUnits(c)) - len
  <2>1. IsFiniteSet(FreeUnits(c)) /\ Cardinality(FreeUnits(c)) \in 0 .. SubHeapSize
    BY <1>1, FreeUnitsAre
  <2>2. Cardinality(Units(d, u)) = len
    BY <1>3, <1>8, <1>10, <1>12, <1>13, FreeUnitsAre
  <2>3. FreeUnits(c) \cap Units(d, u) = Units(d, u)
    BY <1>19
  <2> QED
    BY <1>19, <2>1, <2>2, <2>3, FS_Difference
<1> QED
  BY <1>3, <1>10, <1>11, <1>17, <1>18, <1>20 DEF u, len, d

\* Two free chunks become one: nothing else changes.
LEMMA MergeOk ==
  ASSUME NEW c, c \in Chunks, Tiling(c, DOMAIN c, SubHeapSize),
         NEW u \in DOMAIN c, NEW v \in DOMAIN c, End(c, u) = v, c[u].free, c[v].free
  PROVE  LET d == Merged(c, u, v)
         IN  /\ d \in Chunks /\ Tiling(d, DOMAIN d, SubHeapSize) /\ DOMAIN d = DOMAIN c \ {v} /\ u < v
             /\ d[u].free /\ End(d, u) = End(c, v) /\ \A w \in DOMAIN c \ {u, v} : d[w] = c[w]
             /\ FreeUnits(d) = FreeUnits(c)
<1> DEFINE d == Merged(c, u, v)
<1>1. SubHeapSize \in Nat \ {0} /\ DOMAIN c \subseteq 0 .. SubHeapSize - 1
  BY ChunkIs
<1>2. /\ Tiling(d, DOMAIN d, SubHeapSize) /\ DOMAIN d = DOMAIN c \ {v} /\ u # v
      /\ d[u] = Whole(c[u].len + c[v].len) /\ \A w \in DOMAIN c \ {u, v} : d[w] = c[w]
  <2> DEFINE S == DOMAIN c
  <2>1. S = DOMAIN c /\ Tiling(c, S, SubHeapSize) /\ u \in S /\ v \in S
    OBVIOUS
  <2> HIDE DEF S
  <2>2. /\ Tiling(d, DOMAIN d, SubHeapSize) /\ DOMAIN d = S \ {v} /\ u # v
        /\ d[u] = Whole(c[u].len + c[v].len) /\ \A w \in S \ {u, v} : d[w] = c[w]
    BY <1>1, <2>1, MergeTiles
  <2> QED
    BY <2>2 DEF S
<1>3. d = [w \in DOMAIN d |-> d[w]]
  BY DEF Merged
<1> HIDE DEF d
<1>4. d[u].free = TRUE /\ d[u].len = c[u].len + c[v].len
  BY <1>2 DEF Whole
<1>5. /\ u \in Nat /\ v \in Nat /\ c[u].len \in Nat \ {0} /\ c[v].len \in Nat \ {0}
      /\ v = u + c[u].len /\ End(c, v) = v + c[v].len /\ End(c, v) <= SubHeapSize
  BY ChunkIs
<1>6. u < v /\ End(d, u) = End(c, v)
  BY <1>4, <1>5 DEF End
<1>7. d \in Chunks
  <2>1. \A q \in DOMAIN c : c[q] \in Pieces(SubHeapSize)
    BY DEF Chunks
  <2>2. Whole(c[u].len + c[v].len) \in Pieces(SubHeapSize)
    <3>1. c[u].len + c[v].len \in 0 .. SubHeapSize
      BY <1>1, <1>5
    <3> QED
      BY <3>1 DEF Pieces, Whole
  <2>3. \A q \in DOMAIN d : d[q] \in Pieces(SubHeapSize)
    BY <1>2, <2>1, <2>2
  <2> QED
    BY <1>1, <1>2, <1>3, <2>3, AreChunks
<1>8. FreeUnits(d) = FreeUnits(c)
  <2>1. \A x : x \in FreeUnits(c) <=> \E w \in DOMAIN c : c[w].free /\ x \in Units(c, w)
    BY FreeUnitsAre
  <2>2. \A x : x \in FreeUnits(d) <=> \E w \in DOMAIN d : d[w].free /\ x \in Units(d, w)
    BY <1>2, <1>7, FreeUnitsAre
  <2>3. \A w \in DOMAIN c \ {u, v} : Units(d, w) = Units(c, w) /\ d[w].free = c[w].free
    BY <1>2 DEF Units
  <2>4. Units(d, u) = Units(c, u) \cup Units(c, v)
    BY <1>4, <1>5 DEF Units
  <2>5. DOMAIN d = DOMAIN c \ {v} /\ u \in DOMAIN d
    BY <1>2
  <2>6. ASSUME NEW x \in FreeUnits(c)
        PROVE  x \in FreeUnits(d)
    <3>1. PICK w \in DOMAIN c : c[w].free /\ x \in Units(c, w)
      BY <2>1
    <3>2. CASE w \in {u, v}
      BY <1>4, <2>2, <2>4, <2>5, <3>1, <3>2
    <3>3. CASE w \notin {u, v}
      BY <2>2, <2>3, <2>5, <3>1, <3>3
    <3> QED
      BY <3>2, <3>3
  <2>7. ASSUME NEW x \in FreeUnits(d)
        PROVE  x \in FreeUnits(c)
    <3>1. PICK w \in DOMAIN d : d[w].free /\ x \in Units(d, w)
      BY <2>2
    <3>2. CASE w = u
      BY <2>1, <2>4, <3>1, <3>2
    <3>3. CASE w # u
      BY <2>1, <2>3, <2>5, <3>1, <3>3
    <3> QED
      BY <3>2, <3>3
  <2> QED
    BY <2>6, <2>7
<1> QED
  BY <1>2, <1>4, <1>6, <1>7, <1>8 DEF d

\* The chunks when one has been freed, and nothing joined yet.
Freed(c, u) == [c EXCEPT ![u].free = TRUE]

\* __FreeSmall: the chunk is free, and no longer apart only from its neighbours.
LEMMA FreedOk ==
  ASSUME NEW c, ChunksOk(c), NEW u \in UsedChunks(c)
  PROVE  LET d == Freed(c, u)
         IN  /\ d \in Chunks /\ Tiling(d, DOMAIN d, SubHeapSize) /\ DOMAIN d = DOMAIN c
             /\ d[u].free /\ d[u].len = c[u].len /\ \A w \in DOMAIN c \ {u} : d[w] = c[w]
             /\ FreeUnits(d) = FreeUnits(c) \cup Units(c, u)
<1> DEFINE d == Freed(c, u)
<1>1. c \in Chunks /\ Tiling(c, DOMAIN c, SubHeapSize) /\ u \in DOMAIN c
  BY DEF ChunksOk, UsedChunks
<1>2. SubHeapSize \in Nat \ {0} /\ DOMAIN c \subseteq 0 .. SubHeapSize - 1
      /\ c[u] = [len |-> c[u].len, free |-> c[u].free] /\ c[u].len \in Nat /\ c[u].len <= SubHeapSize
  BY <1>1, ChunkIs
<1>3. DOMAIN d = DOMAIN c /\ d = [w \in DOMAIN d |-> d[w]] /\ \A w \in DOMAIN c \ {u} : d[w] = c[w]
  BY DEF Freed
<1>4. d[u] = [len |-> c[u].len, free |-> TRUE]
  <2> PICK l, f : c[u] = [len |-> l, free |-> f] /\ l = c[u].len
    BY <1>2
  <2>1. d[u] = [c[u] EXCEPT !.free = TRUE]
    BY <1>1 DEF Freed
  <2> QED
    BY <2>1
<1> HIDE DEF d
<1>5. d[u].free = TRUE /\ d[u].len = c[u].len
  BY <1>4
<1>6. d \in Chunks
  <2>1. \A q \in DOMAIN c : c[q] \in Pieces(SubHeapSize)
    BY <1>1 DEF Chunks
  <2>2. d[u] \in Pieces(SubHeapSize)
    <3>1. c[u].len \in 0 .. SubHeapSize
      BY <1>2
    <3>2. [len |-> c[u].len, free |-> TRUE] \in Pieces(SubHeapSize)
      BY <3>1 DEF Pieces
    <3> QED
      BY <1>4, <3>2
  <2> QED
    BY <1>2, <1>3, <2>1, <2>2, AreChunks
<1>7. \A w \in DOMAIN c : d[w].len = c[w].len /\ End(d, w) = End(c, w) /\ Units(d, w) = Units(c, w)
                          /\ (w # u => d[w].free = c[w].free)
  BY <1>3, <1>5 DEF End, Units
<1>8. Tiling(d, DOMAIN d, SubHeapSize)
  <2>1. \A w \in DOMAIN c : c[w].free \in BOOLEAN
    BY <1>1 DEF Tiling
  <2>2. \A w \in DOMAIN d : d[w].free \in BOOLEAN
    BY <1>3, <1>5, <2>1
  <2> QED
    BY <1>1, <1>3, <1>7, <2>2 DEF Tiling
<1>9. FreeUnits(d) = FreeUnits(c) \cup Units(c, u)
  <2>1. \A x : x \in FreeUnits(c) <=> \E w \in DOMAIN c : c[w].free /\ x \in Units(c, w)
    BY <1>1, FreeUnitsAre
  <2>2. \A x : x \in FreeUnits(d) <=> \E w \in DOMAIN d : d[w].free /\ x \in Units(d, w)
    BY <1>6, <1>8, FreeUnitsAre
  <2>3. ~ c[u].free
    BY DEF UsedChunks
  <2>4. ASSUME NEW x
        PROVE  x \in FreeUnits(d) <=> x \in FreeUnits(c) \cup Units(c, u)
    BY <1>1, <1>3, <1>5, <1>7, <2>1, <2>2, <2>3
  <2> QED
    BY <2>4
<1> QED
  BY <1>3, <1>5, <1>6, <1>8, <1>9 DEF d

\* The chunks c with u free, and only u with a free one before it.
JoinedTo(d, c, u) ==
  /\ d \in Chunks /\ Tiling(d, DOMAIN d, SubHeapSize) /\ DOMAIN d \subseteq DOMAIN c
  /\ u \in DOMAIN d /\ d[u].free /\ FreeUnits(d) = FreeUnits(c) \cup Units(c, u)
  /\ UsedChunks(d) = UsedChunks(c) \ {u} /\ \A w \in DOMAIN d \ {u} : d[w] = c[w]
  /\ \A w, x \in DOMAIN d : d[w].free /\ d[x].free /\ End(d, w) = x => x = u

\* The chunk takes in a free one behind it ...
LEMMA JoinedRightOk ==
  ASSUME NEW c, ChunksOk(c), NEW u \in UsedChunks(c)
  PROVE  JoinedTo(JoinedRight(c, u), c, u)
<1> DEFINE e == Freed(c, u)
           v == u + e[u].len
           m == Merged(e, u, v)
<1>1. /\ e \in Chunks /\ Tiling(e, DOMAIN e, SubHeapSize) /\ DOMAIN e = DOMAIN c
      /\ e[u].free /\ e[u].len = c[u].len /\ \A w \in DOMAIN c \ {u} : e[w] = c[w]
      /\ FreeUnits(e) = FreeUnits(c) \cup Units(c, u)
  BY FreedOk
<1>2. JoinedRight(c, u) = IF v \in DOMAIN e /\ e[v].free THEN m ELSE e
  BY DEF JoinedRight, Freed
<1>3. End(e, u) = v /\ u \in DOMAIN c /\ ~ c[u].free /\ u \in DOMAIN e
  BY <1>1 DEF End, UsedChunks
<1>4. \A w \in DOMAIN c : w # u => e[w].free = c[w].free /\ End(e, w) = End(c, w)
  BY <1>1 DEF End
<1>5. \A w, x \in DOMAIN c : ~ (c[w].free /\ c[x].free /\ End(c, w) = x)
  BY DEF ChunksOk, ChunksApart
<1>6. \A w, x \in DOMAIN e : w # u /\ x # u /\ e[w].free /\ e[x].free /\ End(e, w) = x => FALSE
  BY <1>1, <1>4, <1>5
<1>7. \A w \in DOMAIN e : w \in Nat /\ End(e, w) \in Nat /\ w < End(e, w)
  <2> SUFFICES ASSUME NEW w \in DOMAIN e
               PROVE  w \in Nat /\ End(e, w) \in Nat /\ w < End(e, w)
    OBVIOUS
  <2>1. w \in Nat /\ e[w].len \in Nat \ {0} /\ End(e, w) = w + e[w].len
    BY <1>1, ChunkIs
  <2> QED
    BY <2>1
<1> HIDE DEF e, v, m
<1>8. CASE v \in DOMAIN e /\ e[v].free
  <2>1. /\ m \in Chunks /\ Tiling(m, DOMAIN m, SubHeapSize) /\ DOMAIN m = DOMAIN e \ {v} /\ u < v
        /\ m[u].free /\ End(m, u) = End(e, v) /\ \A w \in DOMAIN e \ {u, v} : m[w] = e[w]
        /\ FreeUnits(m) = FreeUnits(e)
    BY <1>1, <1>3, <1>8, MergeOk DEF m
  <2>2. u # v
    BY <1>3, <1>7
  <2>3. UsedChunks(m) = UsedChunks(c) \ {u} /\ \A w \in DOMAIN m \ {u} : m[w] = c[w]
    BY <1>1, <1>3, <1>8, <2>1, <2>2 DEF UsedChunks
  <2>4. ASSUME NEW w \in DOMAIN m, NEW x \in DOMAIN m, m[w].free, m[x].free, End(m, w) = x, x # u
        PROVE  FALSE
    <3>1. CASE w = u
      <4>1. x \in DOMAIN e /\ x # v /\ e[x].free /\ End(e, v) = x
        BY <2>1, <2>4, <3>1
      <4> QED
        BY <1>6, <1>8, <2>2, <2>4, <4>1
    <3>2. CASE w # u
      <4>1. x \in DOMAIN e /\ w \in DOMAIN e /\ e[x].free /\ e[w].free /\ End(e, w) = x
        BY <2>1, <2>4, <3>2 DEF End
      <4> QED
        BY <1>6, <2>4, <3>2, <4>1
    <3> QED
      BY <3>1, <3>2
  <2>5. JoinedTo(m, c, u)
    BY <1>1, <1>3, <2>1, <2>2, <2>3, <2>4 DEF JoinedTo
  <2> QED
    BY <1>2, <1>8, <2>5
<1>9. CASE ~ (v \in DOMAIN e /\ e[v].free)
  <2>1. UsedChunks(e) = UsedChunks(c) \ {u}
    BY <1>1, <1>3 DEF UsedChunks
  <2>2. \A w, x \in DOMAIN e : e[w].free /\ e[x].free /\ End(e, w) = x => x = u
    BY <1>3, <1>6, <1>9
  <2>3. JoinedTo(e, c, u)
    BY <1>1, <1>3, <2>1, <2>2 DEF JoinedTo
  <2> QED
    BY <1>2, <1>9, <2>3
<1> QED
  BY <1>8, <1>9

\* ... and is taken in by a free one before it: no two free chunks are side by side.
LEMMA JoinedOk ==
  ASSUME NEW c, ChunksOk(c), NEW u \in UsedChunks(c)
  PROVE  LET d == Joined(c, u)
         IN  /\ ChunksOk(d) /\ UsedChunks(d) = UsedChunks(c) \ {u}
             /\ \A w \in UsedChunks(d) : d[w] = c[w]
             /\ Cardinality(FreeUnits(d)) = Cardinality(FreeUnits(c)) + c[u].len
             /\ DOMAIN d # {}
<1> DEFINE e == JoinedRight(c, u)
           left == {w \in DOMAIN e : w + e[w].len = u /\ e[w].free}
           x == Least(left)
           m == Merged(e, x, u)
           d == Joined(c, u)
<1>1. JoinedTo(e, c, u)
  BY JoinedRightOk
<1>2. d = IF left = {} THEN e ELSE m
  BY DEF Joined
<1> HIDE DEF e, d
<1>3. /\ e \in Chunks /\ Tiling(e, DOMAIN e, SubHeapSize) /\ DOMAIN e \subseteq DOMAIN c
      /\ u \in DOMAIN e /\ e[u].free /\ FreeUnits(e) = FreeUnits(c) \cup Units(c, u)
      /\ UsedChunks(e) = UsedChunks(c) \ {u} /\ \A w \in DOMAIN e \ {u} : e[w] = c[w]
      /\ \A w, y \in DOMAIN e : e[w].free /\ e[y].free /\ End(e, w) = y => y = u
  BY <1>1 DEF JoinedTo
<1>4. Cardinality(FreeUnits(e)) = Cardinality(FreeUnits(c)) + c[u].len
  <2>1. c \in Chunks /\ Tiling(c, DOMAIN c, SubHeapSize) /\ u \in DOMAIN c /\ ~ c[u].free
    BY DEF ChunksOk, UsedChunks
  <2>2. /\ IsFiniteSet(FreeUnits(c)) /\ Cardinality(FreeUnits(c)) \in 0 .. SubHeapSize
        /\ IsFiniteSet(Units(c, u)) /\ Cardinality(Units(c, u)) = c[u].len
        /\ FreeUnits(c) \cap Units(c, u) = {}
    BY <2>1, FreeUnitsAre
  <2>3. c[u].len \in Nat
    BY <2>1, ChunkIs
  <2>4. Cardinality(FreeUnits(c) \cap Units(c, u)) = 0
    BY <2>2, FS_EmptySet
  <2>5. Cardinality(FreeUnits(c) \cup Units(c, u))
          = Cardinality(FreeUnits(c)) + Cardinality(Units(c, u)) - Cardinality(FreeUnits(c) \cap Units(c, u))
    BY <2>2, FS_Union
  <2> QED
    BY <1>3, <2>2, <2>3, <2>4, <2>5
<1>5. CASE left = {}
  <2>1. d = e
    BY <1>2, <1>5
  <2>2. ChunksApart(e)
    BY <1>3, <1>5 DEF ChunksApart, End
  <2>3. ChunksOk(e)
    BY <1>3, <2>2 DEF ChunksOk
  <2>4. \A w \in UsedChunks(e) : e[w] = c[w]
    BY <1>3 DEF UsedChunks
  <2> QED
    BY <1>3, <1>4, <2>1, <2>3, <2>4 DEF d
<1>6. CASE left # {}
  <2>1. left \in SUBSET Nat
    <3>1. \A w \in DOMAIN e : w \in Nat
      BY <1>3, ChunkIs
    <3> QED
      BY <3>1
  <2>2. x \in left
    BY <1>6, <2>1, LeastIs
  <2>3. x \in DOMAIN e /\ End(e, x) = u /\ e[x].free
    BY <2>2 DEF End
  <2> HIDE DEF left, x
  <2>4. /\ m \in Chunks /\ Tiling(m, DOMAIN m, SubHeapSize) /\ DOMAIN m = DOMAIN e \ {u} /\ x < u
        /\ m[x].free /\ End(m, x) = End(e, u) /\ \A w \in DOMAIN e \ {x, u} : m[w] = e[w]
        /\ FreeUnits(m) = FreeUnits(e)
    BY <1>3, <2>3, MergeOk
  <2>5. d = m
    BY <1>2, <1>6
  <2> HIDE DEF m
  <2>6. x # u /\ x \in DOMAIN m
    <3>1. u \in Nat
      BY <1>3, ChunkIs
    <3> QED
      BY <2>3, <2>4, <3>1
  <2>7. UsedChunks(m) = UsedChunks(e)
    BY <1>3, <2>3, <2>4 DEF UsedChunks
  <2>8. \A w \in UsedChunks(m) : m[w] = c[w]
    BY <1>3, <2>3, <2>4 DEF UsedChunks
  <2>9. ChunksApart(m)
    <3> SUFFICES ASSUME NEW w \in DOMAIN m, NEW y \in DOMAIN m, m[w].free, m[y].free, End(m, w) = y
                 PROVE  FALSE
      BY DEF ChunksApart
    <3>1. y \in DOMAIN e /\ y # u /\ e[y].free
      BY <2>3, <2>4
    <3>2. CASE w = x
      BY <1>3, <2>4, <3>1, <3>2
    <3>3. CASE w # x
      <4>1. w \in DOMAIN e /\ e[w].free /\ End(e, w) = y
        BY <2>4, <3>3 DEF End
      <4> QED
        BY <1>3, <3>1, <4>1
    <3> QED
      BY <3>2, <3>3
  <2>10. ChunksOk(m)
    BY <2>4, <2>9 DEF ChunksOk
  <2> QED
    BY <1>3, <1>4, <2>4, <2>5, <2>6, <2>7, <2>8, <2>10 DEF d
<1> QED
  BY <1>5, <1>6

\* When a chunk and the free ones are all there is, no other is used.
LEMMA EmptyOk ==
  ASSUME NEW c, ChunksOk(c), NEW u \in UsedChunks(c), Cardinality(FreeUnits(c)) + c[u].len = SubHeapSize
  PROVE  UsedChunks(c) = {u}
<1>1. c \in Chunks /\ Tiling(c, DOMAIN c, SubHeapSize) /\ u \in DOMAIN c /\ ~ c[u].free
  BY DEF ChunksOk, UsedChunks
<1> DEFINE All == FreeUnits(c) \cup Units(c, u)
<1>2. /\ IsFiniteSet(FreeUnits(c)) /\ Cardinality(FreeUnits(c)) \in 0 .. SubHeapSize
      /\ IsFiniteSet(Units(c, u)) /\ Cardinality(Units(c, u)) = c[u].len
      /\ FreeUnits(c) \cap Units(c, u) = {}
      /\ FreeUnits(c) \subseteq 0 .. SubHeapSize - 1 /\ Units(c, u) \subseteq 0 .. SubHeapSize - 1
  BY <1>1, FreeUnitsAre
<1>3. c[u].len \in Nat /\ SubHeapSize \in Nat \ {0}
  BY <1>1, ChunkIs
<1>4. Cardinality(FreeUnits(c) \cap Units(c, u)) = 0
  BY <1>2, FS_EmptySet
<1>5. Cardinality(All) = SubHeapSize
  <2>1. Cardinality(All)
          = Cardinality(FreeUnits(c)) + Cardinality(Units(c, u)) - Cardinality(FreeUnits(c) \cap Units(c, u))
    BY <1>2, FS_Union
  <2> QED
    BY <1>2, <1>3, <1>4, <2>1
<1>6. IsFiniteSet(0 .. SubHeapSize - 1) /\ Cardinality(0 .. SubHeapSize - 1) = SubHeapSize
  <2>1. 0 \in Int /\ SubHeapSize - 1 \in Int /\ ~ (0 > SubHeapSize - 1) /\ (SubHeapSize - 1) - 0 + 1 = SubHeapSize
    BY <1>3
  <2> QED
    BY <2>1, FS_Interval
<1>7. All = 0 .. SubHeapSize - 1
  <2>1. All \in SUBSET (0 .. SubHeapSize - 1)
    BY <1>2
  <2> QED
    BY <1>5, <1>6, <2>1, FS_Subset
<1>8. ASSUME NEW v \in UsedChunks(c), v # u
      PROVE  FALSE
  <2>1. v \in DOMAIN c /\ ~ c[v].free
    BY DEF UsedChunks
  <2>2. v \in Units(c, v) /\ Units(c, v) \cap FreeUnits(c) = {} /\ Units(c, v) \cap Units(c, u) = {}
        /\ v \in 0 .. SubHeapSize - 1
    BY <1>1, <1>8, <2>1, FreeUnitsAre
  <2> QED
    BY <1>7, <2>2
<1> QED
  BY <1>8

\* A new sub-heap is one free chunk.
LEMMA NewOk ==
  LET c == NewSubHeap.chunks
  IN  /\ ChunksOk(c) /\ UsedChunks(c) = {} /\ DOMAIN c # {}
      /\ NewSubHeap.free = Cardinality(FreeUnits(c))
      /\ NewSubHeap = [next |-> Null, prev |-> Null, free |-> SubHeapSize, chunks |-> c]
      /\ \A n \in SmallSizes : Fitting(c, n) # {}
<1> DEFINE c == NewSubHeap.chunks
           S == SubHeapSize
<1>1. S \in Nat \ {0} /\ SmallSizes \subseteq 1 .. S
  BY CrashHeapAssumption
<1> DEFINE f == [u \in {0} |-> Whole(S)]
           none == <<>>
<1>2. NewSubHeap = [next |-> Null, prev |-> Null, free |-> S, chunks |-> f]
  <2>1. NewSubHeap = [NoSub EXCEPT !.free = S, !.chunks = f]
    BY DEF NewSubHeap
  <2>2. NoSub = [next |-> Null, prev |-> Null, free |-> 0, chunks |-> none]
    BY DEF NoSub
  <2> HIDE DEF f, none
  <2> QED
    BY <2>1, <2>2
<1>3. c = [u \in {0} |-> Whole(S)]
  <2> HIDE DEF f
  <2>1. c = f
    BY <1>2
  <2> QED
    BY <2>1 DEF f
<1> HIDE DEF f
<1>4. NewSubHeap = [next |-> Null, prev |-> Null, free |-> S, chunks |-> c] /\ NewSubHeap.free = S
  BY <1>2
<1> HIDE DEF c
<1>5. DOMAIN c = {0} /\ c[0] = Whole(S) /\ c = [u \in DOMAIN c |-> c[u]]
  BY <1>3
<1>6. c[0].len = S /\ c[0].free = TRUE /\ End(c, 0) = S
  BY <1>1, <1>5 DEF Whole, End
<1>7. c \in Chunks
  <2>1. Whole(S) \in Pieces(S)
    <3>1. S \in 0 .. S
      BY <1>1
    <3> QED
      BY <3>1 DEF Pieces, Whole
  <2> QED
    BY <1>1, <1>5, <2>1, AreChunks
<1>8. Tiling(c, DOMAIN c, S)
  <2>1. {0} \in SUBSET (0 .. S - 1) /\ S \in 1 .. S
    BY <1>1
  <2>2. \A u \in {0} : c[u].len \in 1 .. S /\ c[u].free \in BOOLEAN /\ End(c, u) \in {0} \cup {S}
    BY <1>6, <2>1
  <2>3. \A v \in {0} \cup {S} : v # 0 => \E u \in {0} : End(c, u) = v
    BY <1>6
  <2>4. \A u, v \in {0} : ~ (u < v)
    BY <1>1
  <2> QED
    BY <1>5, <2>1, <2>2, <2>3, <2>4 DEF Tiling
<1>9. ChunksApart(c) /\ UsedChunks(c) = {}
  BY <1>1, <1>5, <1>6 DEF ChunksApart, UsedChunks
<1>10. Cardinality(FreeUnits(c)) = S
  <2>1. Units(c, 0) \subseteq FreeUnits(c) /\ Cardinality(Units(c, 0)) = S /\ FreeUnits(c) \subseteq Units(c, 0)
    BY <1>5, <1>6, <1>7, <1>8, FreeUnitsAre
  <2> QED
    BY <2>1
<1>11. \A n \in SmallSizes : 0 \in Fitting(c, n)
  BY <1>1, <1>5, <1>6 DEF Fitting
<1> QED
  BY <1>4, <1>5, <1>7, <1>8, <1>9, <1>10, <1>11 DEF ChunksOk, c

-----------------------------------------------------------------------------
(* The inductive invariant. *)

SubType == [next : Pages \cup {Null}, prev : Pages \cup {Null}, free : 0 .. SubHeapSize, chunks : Chunks]

\* What the used chunks of a sub-heap are for.
InUse(p, c, L) ==
  /\ \A u \in UsedChunks(c) : [page |-> p, at |-> u + 1, len |-> c[u].len] \in L
  /\ \A a \in L : a.page = p => a.at - 1 \in UsedChunks(c) /\ c[a.at - 1].len = a.len
SubFit(h) == ChunksOk(h.chunks) /\ h.free = Cardinality(FreeUnits(h.chunks))
SubsFit == \A p \in SubHeaps(sub) : SubFit(sub[p]) /\ InUse(p, sub[p].chunks, live)

\* The head of the list is a sub-heap, and no sub-heap ever gets a prev (austere.c:261-266).
ListFit ==
  /\ head \in SubHeaps(sub) \cup {Null}
  /\ \A p \in Pages : sub[p].prev = Null /\ sub[p].next # p

\* The cursor is at a block, while nothing has been merged away under it.
CursorFit == fault = "none" => cursor \in Starts(block)

\* What the used blocks are for.
BlocksFit ==
  /\ BigFit(block)
  /\ \A a \in live : a.at > 0 <=> a.page \in SubHeaps(sub)
  /\ \A a \in live : a.at = 0 => a.page \in UsedBig(block) /\ block[a.page].len = a.len
  /\ \A p \in SubHeaps(sub) : p \in UsedBig(block) /\ block[p].len = 1
  /\ \A p \in UsedBig(block) : p \in SubHeaps(sub) \/ [page |-> p, at |-> 0, len |-> block[p].len] \in live

HeapInv == TypeOK /\ ListFit /\ CursorFit /\ BlocksFit /\ SubsFit /\ FaultsNamed

\* An allocation.
LiveType == [page : Pages, at : 0 .. SubHeapSize, len : Nat \ {0}]

\* What TypeOK says, for the provers.
LEMMA TypeIs ==
  TypeOK <=> /\ block \in [Pages -> Pieces(NumHeapPages)] /\ cursor \in Pages /\ head \in Pages \cup {Null}
             /\ sub \in [Pages -> SubType] /\ live \subseteq LiveType
             /\ fault \in {"none", "endless", "astray"}
BY DEF TypeOK, SubType, LiveType

\* A sub-heap is one of its fields.
LEMMA SubIs ==
  ASSUME NEW h \in SubType
  PROVE  /\ h.next \in Pages \cup {Null} /\ h.prev \in Pages \cup {Null} /\ h.free \in 0 .. SubHeapSize
         /\ h.chunks \in Chunks
         /\ h = [next |-> h.next, prev |-> h.prev, free |-> h.free, chunks |-> h.chunks]
BY DEF SubType

\* A sub-heap as the head, and with other chunks.
Linked(h, x) == [h EXCEPT !.prev = Null, !.next = x]
Filled(h, f, c) == [h EXCEPT !.free = f, !.chunks = c]

\* What becomes of a sub-heap's fields when it is made the head and when its chunks change.
LEMMA WritesAre ==
  ASSUME NEW h \in SubType
  PROVE  /\ \A x \in Pages \cup {Null} :
              /\ Linked(h, x) \in SubType /\ Linked(h, x).prev = Null /\ Linked(h, x).next = x
              /\ Linked(h, x).free = h.free /\ Linked(h, x).chunks = h.chunks
         /\ \A f \in 0 .. SubHeapSize, c \in Chunks :
              /\ Filled(h, f, c) \in SubType /\ Filled(h, f, c).free = f /\ Filled(h, f, c).chunks = c
              /\ Filled(h, f, c).prev = h.prev /\ Filled(h, f, c).next = h.next
<1>1. PICK n \in Pages \cup {Null}, p \in Pages \cup {Null}, g \in 0 .. SubHeapSize, k \in Chunks :
        h = [next |-> n, prev |-> p, free |-> g, chunks |-> k]
  BY SubIs
<1>2. Null \in Pages \cup {Null}
  OBVIOUS
<1>3. ASSUME NEW x \in Pages \cup {Null}
      PROVE  /\ Linked(h, x) \in SubType /\ Linked(h, x).prev = Null /\ Linked(h, x).next = x
             /\ Linked(h, x).free = h.free /\ Linked(h, x).chunks = h.chunks
  <2>1. Linked(h, x) = [next |-> x, prev |-> Null, free |-> g, chunks |-> k]
    <3>1. Linked(h, x) = [h EXCEPT !.prev = Null, !.next = x]
      BY DEF Linked
    <3>2. PICK i : i = [h EXCEPT !.prev = Null]
      OBVIOUS
    <3>3. i = [next |-> n, prev |-> Null, free |-> g, chunks |-> k]
      BY <1>1, <3>2
    <3>4. [i EXCEPT !.next = x] = [next |-> x, prev |-> Null, free |-> g, chunks |-> k]
      BY <3>3
    <3>5. [h EXCEPT !.prev = Null, !.next = x] = [i EXCEPT !.next = x]
      BY <3>2
    <3> QED
      BY <3>1, <3>4, <3>5
  <2>2. [next |-> x, prev |-> Null, free |-> g, chunks |-> k] \in SubType
    BY <1>2 DEF SubType
  <2> QED
    BY <1>1, <2>1, <2>2
<1>4. ASSUME NEW f \in 0 .. SubHeapSize, NEW c \in Chunks
      PROVE  /\ Filled(h, f, c) \in SubType /\ Filled(h, f, c).free = f /\ Filled(h, f, c).chunks = c
             /\ Filled(h, f, c).prev = h.prev /\ Filled(h, f, c).next = h.next
  <2>1. Filled(h, f, c) = [next |-> n, prev |-> p, free |-> f, chunks |-> c]
    <3>1. Filled(h, f, c) = [h EXCEPT !.free = f, !.chunks = c]
      BY DEF Filled
    <3>2. PICK i : i = [h EXCEPT !.free = f]
      OBVIOUS
    <3>3. i = [next |-> n, prev |-> p, free |-> f, chunks |-> k]
      BY <1>1, <3>2
    <3>4. [i EXCEPT !.chunks = c] = [next |-> n, prev |-> p, free |-> f, chunks |-> c]
      BY <3>3
    <3>5. [h EXCEPT !.free = f, !.chunks = c] = [i EXCEPT !.chunks = c]
      BY <3>2
    <3> QED
      BY <3>1, <3>4, <3>5
  <2>2. [next |-> n, prev |-> p, free |-> f, chunks |-> c] \in SubType
    BY DEF SubType
  <2> QED
    BY <1>1, <2>1, <2>2
<1> QED
  BY <1>3, <1>4

\* The sub-heaps with p as the head.
Moved(t, sb, p) ==
  /\ t \in [Pages -> SubType] /\ \A q \in Pages \ {p} : t[q] = sb[q]
  /\ t[p].prev = Null /\ t[p].next = IF p = head THEN sb[p].next ELSE head
  /\ t[p].free = sb[p].free /\ t[p].chunks = sb[p].chunks

\* Letting go of a sub-heap writes to no other: none has a prev that it would be reached by.
LEMMA UnlinkedIs ==
  ASSUME NEW sb \in [Pages -> SubType], \A q \in Pages : sb[q].prev = Null, NEW p \in Pages
  PROVE  Unlinked(sb, p) = sb
<1>1. Null \notin Pages
  BY DEF Null, Pages
<1>2. ASSUME NEW q \in Pages
      PROVE  (IF q = sb[p].prev THEN [sb[q] EXCEPT !.next = sb[p].next]
              ELSE IF q = sb[p].next THEN [sb[q] EXCEPT !.prev = sb[p].prev] ELSE sb[q]) = sb[q]
  <2>1. sb[p].prev = Null /\ sb[q].prev = Null /\ q # Null
    BY <1>1
  <2>2. PICK n, g, k : sb[q] = [next |-> n, prev |-> Null, free |-> g, chunks |-> k]
    <3>1. sb[q] \in SubType
      OBVIOUS
    <3> QED
      BY <2>1, <3>1, SubIs
  <2>3. [sb[q] EXCEPT !.prev = Null] = sb[q]
    BY <2>2
  <2> QED
    BY <2>1, <2>3
<1> QED
  BY <1>2 DEF Unlinked

\* The sub-heap that is made the head only gets a new next.
LEMMA ToHeadIs ==
  ASSUME NEW sb \in [Pages -> SubType], \A q \in Pages : sb[q].prev = Null, NEW p \in Pages,
         head \in Pages \cup {Null}
  PROVE  Moved(ToHead(sb, p), sb, p)
<1> DEFINE t == ToHead(sb, p)
<1>1. t = IF p = head THEN sb ELSE [sb EXCEPT ![p] = Linked(sb[p], head)]
  <2>1. Unlinked(sb, p) = sb
    BY UnlinkedIs
  <2>2. [sb EXCEPT ![p].prev = Null, ![p].next = head] = [sb EXCEPT ![p] = Linked(sb[p], head)]
    BY DEF Linked
  <2> QED
    BY <2>1, <2>2 DEF ToHead
<1> HIDE DEF t
<1>2. /\ Linked(sb[p], head) \in SubType /\ Linked(sb[p], head).prev = Null /\ Linked(sb[p], head).next = head
      /\ Linked(sb[p], head).free = sb[p].free /\ Linked(sb[p], head).chunks = sb[p].chunks
  <2>1. sb[p] \in SubType
    OBVIOUS
  <2> QED
    BY <2>1, WritesAre
<1>3. CASE p = head
  BY <1>1, <1>3 DEF Moved, t
<1>4. CASE p # head
  <2>1. t = [sb EXCEPT ![p] = Linked(sb[p], head)]
    BY <1>1, <1>4
  <2>2. t \in [Pages -> SubType] /\ t[p] = Linked(sb[p], head) /\ \A q \in Pages \ {p} : t[q] = sb[q]
    BY <1>2, <2>1
  <2>3. Moved(t, sb, p)
    BY <1>2, <1>4, <2>2 DEF Moved
  <2> QED
    BY <2>3 DEF t
<1> QED
  BY <1>3, <1>4

\* A sub-heap is written to and moved to the head; what this leaves.
Writes(p, h) == sub' = ToHead([sub EXCEPT ![p] = h], p) /\ head' = p
Written(p, h) ==
  /\ sub' \in [Pages -> SubType] /\ \A q \in Pages \ {p} : sub'[q] = sub[q]
  /\ sub'[p].free = h.free /\ sub'[p].chunks = h.chunks
  /\ SubHeaps(sub') = SubHeaps(sub) \cup {p} /\ ListFit'

\* The list is in order after it.
LEMMA SubWritten ==
  ASSUME TypeOK, ListFit, NEW p \in Pages, NEW h \in SubType, h.prev = Null, h.next # p, DOMAIN h.chunks # {},
         Writes(p, h)
  PROVE  Written(p, h)
<1> PICK sb : sb = [sub EXCEPT ![p] = h]
  OBVIOUS
<1>1. sub \in [Pages -> SubType] /\ head \in Pages \cup {Null} /\ \A q \in Pages : sub[q].prev = Null /\ sub[q].next # q
  BY TypeIs DEF ListFit
<1>2. sb \in [Pages -> SubType] /\ sb[p] = h /\ \A q \in Pages \ {p} : sb[q] = sub[q]
  BY <1>1
<1>3. \A q \in Pages : sb[q].prev = Null /\ sb[q].next # q
  BY <1>1, <1>2
<1>4. Moved(sub', sb, p)
  <2>1. Moved(ToHead(sb, p), sb, p)
    BY <1>1, <1>2, <1>3, ToHeadIs
  <2> QED
    BY <2>1 DEF Writes
<1>5. /\ sub' \in [Pages -> SubType] /\ \A q \in Pages \ {p} : sub'[q] = sub[q]
      /\ sub'[p].prev = Null /\ sub'[p].next = IF p = head THEN h.next ELSE head
      /\ sub'[p].free = h.free /\ sub'[p].chunks = h.chunks
  BY <1>2, <1>4 DEF Moved
<1>6. \A q \in Pages : sub'[q].prev = Null /\ sub'[q].next # q
  BY <1>1, <1>5
<1>7. SubHeaps(sub') = SubHeaps(sub) \cup {p}
  BY <1>5 DEF SubHeaps
<1>8. ListFit'
  <2>1. head' = p
    BY DEF Writes
  <2> QED
    BY <1>6, <1>7, <2>1 DEF ListFit
<1> QED
  BY <1>5, <1>7, <1>8 DEF Written

\* What is in use of other sub-heaps does not change.
LEMMA UseElsewhere ==
  ASSUME NEW q, NEW c, NEW L, InUse(q, c, L), NEW a, a.page # q
  PROVE  InUse(q, c, L \cup {a}) /\ InUse(q, c, L \ {a})
<1>1. \A u \in UsedChunks(c) : [page |-> q, at |-> u + 1, len |-> c[u].len].page = q
  OBVIOUS
<1>2. \A u \in UsedChunks(c) : [page |-> q, at |-> u + 1, len |-> c[u].len] # a
  BY <1>1
<1> QED
  BY <1>2 DEF InUse

\* One chunk more is in use ...
LEMMA UseMore ==
  ASSUME NEW p, NEW c, NEW d, NEW L, InUse(p, c, L), NEW u \in Int, u \notin UsedChunks(c), NEW l,
         UsedChunks(d) = UsedChunks(c) \cup {u}, \A v \in UsedChunks(c) : d[v] = c[v], d[u].len = l
  PROVE  InUse(p, d, L \cup {[page |-> p, at |-> u + 1, len |-> l]})
<1> PICK a : a = [page |-> p, at |-> u + 1, len |-> l]
  OBVIOUS
<1>1. a.page = p /\ a.at - 1 = u /\ a.len = l
  OBVIOUS
<1>2. ASSUME NEW v \in UsedChunks(d)
      PROVE  [page |-> p, at |-> v + 1, len |-> d[v].len] \in L \cup {a}
  <2>1. CASE v = u
    BY <2>1
  <2>2. CASE v # u
    <3>1. v \in UsedChunks(c) /\ d[v] = c[v]
      BY <2>2
    <3> QED
      BY <3>1 DEF InUse
  <2> QED
    BY <2>1, <2>2
<1>3. ASSUME NEW b \in L \cup {a}, b.page = p
      PROVE  b.at - 1 \in UsedChunks(d) /\ d[b.at - 1].len = b.len
  <2>1. CASE b = a
    BY <1>1, <2>1
  <2>2. CASE b \in L
    <3>1. b.at - 1 \in UsedChunks(c) /\ c[b.at - 1].len = b.len
      BY <1>3, <2>2 DEF InUse
    <3> QED
      BY <3>1
  <2> QED
    BY <2>1, <2>2
<1> QED
  BY <1>2, <1>3 DEF InUse

\* ... or one less.
LEMMA UseLess ==
  ASSUME NEW p, NEW c, NEW d, NEW L \in SUBSET LiveType, InUse(p, c, L), NEW a \in L, a.page = p,
         UsedChunks(c) \subseteq Nat,
         UsedChunks(d) = UsedChunks(c) \ {a.at - 1}, \A v \in UsedChunks(d) : d[v] = c[v]
  PROVE  InUse(p, d, L \ {a})
<1>1. \A b \in L : b = [page |-> b.page, at |-> b.at, len |-> b.len] /\ b.at \in 0 .. SubHeapSize /\ b.at \in Int
  <2> SUFFICES ASSUME NEW b \in L
               PROVE  b = [page |-> b.page, at |-> b.at, len |-> b.len] /\ b.at \in 0 .. SubHeapSize /\ b.at \in Int
    OBVIOUS
  <2>1. b \in [page : Pages, at : 0 .. SubHeapSize, len : Nat \ {0}]
    BY DEF LiveType
  <2> QED
    BY <2>1
<1>2. ASSUME NEW v \in UsedChunks(d)
      PROVE  [page |-> p, at |-> v + 1, len |-> d[v].len] \in L \ {a}
  <2>1. v \in UsedChunks(c) /\ d[v] = c[v] /\ v # a.at - 1 /\ v \in Nat
    OBVIOUS
  <2>2. [page |-> p, at |-> v + 1, len |-> d[v].len] \in L
    BY <2>1 DEF InUse
  <2>3. [page |-> p, at |-> v + 1, len |-> d[v].len] # a
    <3>1. [page |-> p, at |-> v + 1, len |-> d[v].len].at = v + 1
      OBVIOUS
    <3> QED
      BY <1>1, <2>1, <3>1
  <2> QED
    BY <2>2, <2>3
<1>3. ASSUME NEW b \in L \ {a}, b.page = p
      PROVE  b.at - 1 \in UsedChunks(d) /\ d[b.at - 1].len = b.len
  <2>1. /\ b.at - 1 \in UsedChunks(c) /\ c[b.at - 1].len = b.len
        /\ a.at - 1 \in UsedChunks(c) /\ c[a.at - 1].len = a.len
    BY <1>3 DEF InUse
  <2>2. b.at # a.at
    BY <1>1, <1>3, <2>1
  <2>3. b.at - 1 # a.at - 1
    BY <1>1, <2>2
  <2> QED
    BY <2>1, <2>3
<1> QED
  BY <1>2, <1>3 DEF InUse

\* Serving: the sub-heap is in order, with one allocation more.
LEMMA ServeStep ==
  ASSUME TypeOK, ListFit, SubsFit, NEW p \in Pages, NEW h \in SubType, h.prev = Null, h.next # p,
         SubFit(h), InUse(p, h.chunks, live), NEW n \in SmallSizes, Fitting(h.chunks, n) # {},
         Serve(p, h, n)
  PROVE  /\ sub' \in [Pages -> SubType] /\ SubHeaps(sub') = SubHeaps(sub) \cup {p} /\ ListFit' /\ SubsFit'
         /\ \E a \in LiveType : a.page = p /\ a.at > 0 /\ live' = live \cup {a}
<1> DEFINE c == h.chunks
           u == FirstFit(c, n)
           len == Taken(c, n)
           d == Served(c, n)
           f == h.free - len
           a == [page |-> p, at |-> u + 1, len |-> len]
<1>1. n \in Nat \ {0} /\ SubHeapSize \in Nat \ {0}
  BY CrashHeapAssumption
<1>2. /\ u \in DOMAIN c /\ u \notin UsedChunks(c) /\ len \in Nat \ {0}
      /\ ChunksOk(d) /\ UsedChunks(d) = UsedChunks(c) \cup {u} /\ d[u].len = len
      /\ \A v \in UsedChunks(c) : d[v] = c[v]
      /\ Cardinality(FreeUnits(d)) = Cardinality(FreeUnits(c)) - len
  BY <1>1, ServedOk DEF SubFit
<1>3. sub' = ToHead([sub EXCEPT ![p] = Filled(h, f, d)], p) /\ head' = p /\ live' = live \cup {a}
  <2>1. [h EXCEPT !.free = @ - len, !.chunks = Cut(h.chunks, u, len)] = Filled(h, f, d)
    BY DEF Filled, Served
  <2> QED
    BY <2>1 DEF Serve
<1> HIDE DEF u, len, d, f
<1>4. /\ d \in Chunks /\ Tiling(d, DOMAIN d, SubHeapSize) /\ c \in Chunks /\ Tiling(c, DOMAIN c, SubHeapSize)
      /\ h.free = Cardinality(FreeUnits(c))
  BY <1>2 DEF ChunksOk, SubFit
<1>5. f = Cardinality(FreeUnits(d)) /\ f \in 0 .. SubHeapSize
  <2>1. Cardinality(FreeUnits(d)) \in 0 .. SubHeapSize
    BY <1>4, FreeUnitsAre
  <2>2. f = Cardinality(FreeUnits(d))
    BY <1>2, <1>4 DEF f
  <2> QED
    BY <2>1, <2>2
<1>6. u \in Nat /\ u < SubHeapSize /\ u \in DOMAIN d
  <2>1. u \in DOMAIN d
    BY <1>2 DEF UsedChunks
  <2> QED
    BY <1>2, <1>4, <2>1, ChunkIs
<1> DEFINE g == Filled(h, f, d)
<1>7. g \in SubType /\ g.free = f /\ g.chunks = d /\ g.prev = Null /\ g.next = h.next
  BY <1>4, <1>5, WritesAre
<1> HIDE DEF g
<1>8. /\ sub' \in [Pages -> SubType] /\ \A q \in Pages \ {p} : sub'[q] = sub[q]
      /\ sub'[p].free = f /\ sub'[p].chunks = d
      /\ SubHeaps(sub') = SubHeaps(sub) \cup {p} /\ ListFit'
  <2>1. Writes(p, g)
    BY <1>3 DEF g, Writes
  <2>2. DOMAIN g.chunks # {} /\ g.next # p
    BY <1>6, <1>7
  <2>3. Written(p, g)
    BY <1>7, <2>1, <2>2, SubWritten
  <2> QED
    BY <1>7, <2>3 DEF Written
<1>9. InUse(p, d, live')
  <2>1. u \in Int
    BY <1>6
  <2>2. InUse(p, d, live \cup {[page |-> p, at |-> u + 1, len |-> len]})
    BY <1>2, <2>1, UseMore
  <2> QED
    BY <1>3, <2>2
<1>10. \A q \in SubHeaps(sub) \ {p} : SubFit(sub'[q]) /\ InUse(q, sub'[q].chunks, live')
  <2> SUFFICES ASSUME NEW q \in SubHeaps(sub) \ {p}
               PROVE  SubFit(sub'[q]) /\ InUse(q, sub'[q].chunks, live')
    OBVIOUS
  <2>1. q \in Pages /\ sub'[q] = sub[q]
    BY <1>8 DEF SubHeaps
  <2>2. SubFit(sub[q]) /\ InUse(q, sub[q].chunks, live)
    BY DEF SubsFit
  <2>3. a.page # q
    OBVIOUS
  <2> HIDE DEF a
  <2>4. InUse(q, sub[q].chunks, live \cup {a})
    BY <2>2, <2>3, UseElsewhere
  <2> QED
    BY <1>3, <2>1, <2>2, <2>4
<1>11. SubFit(sub'[p]) /\ InUse(p, sub'[p].chunks, live')
  BY <1>2, <1>5, <1>8, <1>9 DEF SubFit
<1>12. SubsFit'
  <2>1. \A q \in SubHeaps(sub') : SubFit(sub'[q]) /\ InUse(q, sub'[q].chunks, live')
    BY <1>8, <1>10, <1>11
  <2> QED
    BY <2>1 DEF SubsFit
<1>13. a \in LiveType /\ a.page = p /\ a.at > 0
  <2>1. u + 1 \in 0 .. SubHeapSize /\ u + 1 > 0 /\ len \in Nat \ {0}
    BY <1>1, <1>2, <1>6
  <2> QED
    BY <2>1 DEF LiveType
<1> QED
  BY <1>3, <1>8, <1>12, <1>13

\* The walk of the list finds a sub-heap that serves, or goes wrong only where some sub-heap's
\* next has it for no prev.
LEMMA FindSubIs ==
  ASSUME ListFit, NEW n
  PROVE  /\ (FindSub(n) \in SubHeaps(sub) /\ Serves(FindSub(n), n)) \/ FindSub(n) \in {Null, NoEnd, Astray}
         /\ FindSub(n) \in {NoEnd, Astray} => \E p \in SubHeaps(sub) : PrevLeft(p)
<1> DEFINE H == SubHeaps(sub)
           next == [p \in H |-> IF Serves(p, n) THEN p ELSE sub[p].next]
           seen == Walk(head, next)
           ends == ({head} \cup {next[p] : p \in seen}) \ H
           found == FindSub(n)
<1>1. found = IF \E p \in seen : Serves(p, n) THEN CHOOSE p \in seen : Serves(p, n)
              ELSE IF ends = {} THEN NoEnd ELSE IF ends = {Null} THEN Null ELSE Astray
  BY DEF FindSub
<1>2. seen \subseteq H
  <2>1. seen \subseteq DOMAIN next
    BY WalkOn
  <2> QED
    BY <2>1
<1>3. H \subseteq Pages /\ Null \notin Pages /\ NoEnd \notin Pages /\ Astray \notin Pages /\ Null # NoEnd /\ Null # Astray
  BY DEF SubHeaps, Pages, Null, NoEnd, Astray
<1>4. \A p \in H : next[p] = IF Serves(p, n) THEN p ELSE sub[p].next
  OBVIOUS
<1> HIDE DEF found, seen, next
<1>5. (found \in H /\ Serves(found, n)) \/ found \in {Null, NoEnd, Astray}
  <2>1. CASE \E p \in seen : Serves(p, n)
    <3>1. found = CHOOSE p \in seen : Serves(p, n)
      BY <1>1, <2>1
    <3>2. found \in seen /\ Serves(found, n)
      BY <2>1, <3>1
    <3> QED
      BY <1>2, <3>2
  <2>2. CASE ~ \E p \in seen : Serves(p, n)
    BY <1>1, <2>2
  <2> QED
    BY <2>1, <2>2
<1>6. ASSUME \A p \in H : ~ PrevLeft(p)
      PROVE  found \notin {NoEnd, Astray}
  <2>1. ASSUME NEW p \in H
        PROVE  sub[p].next = Null
    <3>1. ~ PrevLeft(p)
      BY <1>6
    <3>2. sub[p].next \in H => sub[sub[p].next].prev = Null /\ Null # p
      BY <1>3 DEF ListFit
    <3> QED
      BY <3>1, <3>2 DEF PrevLeft
  <2>2. CASE \E p \in seen : Serves(p, n)
    <3>1. found \in seen
      <4>1. found = CHOOSE p \in seen : Serves(p, n)
        BY <1>1, <2>2
      <4> QED
        BY <2>2, <4>1
    <3> QED
      BY <1>2, <1>3, <3>1
  <2>3. CASE ~ \E p \in seen : Serves(p, n)
    <3>1. \A p \in seen : next[p] = Null
      BY <1>2, <1>4, <2>1, <2>3
    <3>2. ends \subseteq {Null}
      BY <3>1 DEF ListFit
    <3>3. ends # {}
      <4>1. CASE head = Null
        BY <1>3, <4>1
      <4>2. CASE head \in H
        <5>1. head \in seen
          <6>1. head \in DOMAIN next
            BY <4>2 DEF next
          <6> QED
            BY <6>1, WalkOn DEF seen
        <5> QED
          BY <1>3, <3>1, <5>1
      <4> QED
        BY <4>1, <4>2 DEF ListFit
    <3>4. found = Null
      BY <1>1, <2>3, <3>2, <3>3
    <3> QED
      BY <1>3, <3>4
  <2> QED
    BY <2>2, <2>3
<1> QED
  BY <1>5, <1>6 DEF found

-----------------------------------------------------------------------------
(* The steps. *)

\* Freeing a block changes nothing else.
LEMMA FreedBlockIs ==
  ASSUME BigFit(block), NEW p \in UsedBig(block)
  PROVE  LET bl == FreedBlock(p)
         IN  /\ BigFit(bl) /\ Starts(bl) = Starts(block) /\ UsedBig(bl) = UsedBig(block) \ {p}
             /\ \A q \in UsedBig(bl) : bl[q] = block[q]
             /\ p \in Starts(bl)
<1> DEFINE bl == FreedBlock(p)
           S == Starts(block)
           N == NumHeapPages
<1>1. N \in Nat \ {0} /\ block \in [Pages -> Pieces(N)] /\ Tiling(block, S, N) /\ S \subseteq Pages /\ Pages = 0 .. N - 1
  BY CrashHeapAssumption DEF BigFit, Tiling, Pages
<1>2. p \in S /\ p \in Pages /\ ~ block[p].free
  BY <1>1 DEF UsedBig
<1>3. PICK l, f : block[p] = [len |-> l, free |-> f] /\ l \in 0 .. N
  <2>1. block[p] \in Pieces(N)
    BY <1>1, <1>2
  <2> QED
    BY <2>1 DEF Pieces
<1>4. bl = [block EXCEPT ![p] = [len |-> l, free |-> TRUE]]
  <2>1. bl = [block EXCEPT ![p].free = TRUE]
    BY DEF FreedBlock
  <2>2. [block[p] EXCEPT !.free = TRUE] = [len |-> l, free |-> TRUE]
    <3> PICK r : r = block[p]
      OBVIOUS
    <3>1. r = [len |-> l, free |-> f]
      BY <1>3
    <3>2. PICK yes : yes = TRUE
      OBVIOUS
    <3>3. [r EXCEPT !.free = yes] = [len |-> l, free |-> yes]
      BY <3>1
    <3> QED
      BY <3>2, <3>3
  <2> QED
    BY <2>1, <2>2
<1>5. [len |-> l, free |-> TRUE] \in Pieces(N)
  BY <1>3 DEF Pieces
<1> HIDE DEF bl, S
<1>6. /\ bl \in [Pages -> Pieces(N)] /\ DOMAIN bl = Pages
      /\ bl[p] = [len |-> l, free |-> TRUE] /\ \A q \in Pages \ {p} : bl[q] = block[q]
  BY <1>1, <1>2, <1>4, <1>5
<1>7. bl[p].free = TRUE /\ bl[p].len = block[p].len
  BY <1>3, <1>6
<1>8. \A q \in Pages : End(bl, q) = End(block, q) /\ bl[q].len = block[q].len
  BY <1>6, <1>7 DEF End
<1>9. Tiling(bl, S, N)
  <2>1. \A q \in S : bl[q].free \in BOOLEAN
    <3>1. \A q \in S : block[q].free \in BOOLEAN
      BY <1>1 DEF Tiling
    <3> QED
      BY <1>1, <1>6, <1>7, <3>1
  <2>2. \A q \in S : End(bl, q) = End(block, q) /\ bl[q].len = block[q].len
    BY <1>1, <1>8
  <2>3. S \subseteq DOMAIN bl
    BY <1>1, <1>6
  <2> HIDE DEF N
  <2> QED
    BY <1>1, <2>1, <2>2, <2>3 DEF Tiling
<1>10. Starts(bl) = S
  BY <1>1, <1>6, <1>9, StartsOf
<1>11. BigFit(bl)
  BY <1>6, <1>9, <1>10 DEF BigFit
<1>12. UsedBig(bl) = UsedBig(block) \ {p}
  <2>1. UsedBig(bl) = {q \in S : ~ bl[q].free} /\ UsedBig(block) = {q \in S : ~ block[q].free}
    BY <1>10 DEF UsedBig, S
  <2> QED
    BY <1>1, <1>6, <1>7, <2>1
<1>13. \A q \in UsedBig(bl) : bl[q] = block[q]
  BY <1>1, <1>6, <1>12 DEF UsedBig, S
<1> QED
  BY <1>2, <1>10, <1>11, <1>12, <1>13 DEF bl, S

\* The codes of the walks are no pages and no each other's.
LEMMA CodesApart ==
  /\ \A p \in Pages : p >= 0 /\ p \in Nat
  /\ ~ (Null >= 0) /\ ~ (NoEnd >= 0) /\ ~ (Astray >= 0)
  /\ Null # NoEnd /\ Null # Astray /\ NoEnd # Astray
  /\ \A p \in Pages : p # Null /\ p # NoEnd /\ p # Astray
BY DEF Null, NoEnd, Astray, Pages

\* __AllocBig.
LEMMA AllocateBigStep ==
  ASSUME HeapInv, NEW n \in BigSizes, AllocateBig(n)
  PROVE  HeapInv'
<1>1. /\ fault = "none" /\ n \in Nat \ {0} /\ BigFit(block) /\ cursor \in Starts(block)
      /\ UNCHANGED <<head, sub>>
  BY CrashHeapAssumption DEF HeapInv, AllocateBig, Fine, BlocksFit, CursorFit
<1>2. PICK p, bl : /\ p = AllocBig(n).page /\ bl = AllocBig(n).blocks
  OBVIOUS
<1>3. BigDone(p, bl, n)
  BY <1>1, <1>2, AllocBigDone
<1>4. /\ block' = bl /\ cursor' = CursorAfter(p, n)
      /\ live' = IF p >= 0 THEN live \cup {[page |-> p, at |-> 0, len |-> n]} ELSE live
      /\ fault' = Faulty(p)
  BY <1>2 DEF AllocateBig
<1>5. BigFit(bl) /\ \A q \in UsedBig(block) : bl[q] = block[q]
  BY <1>3 DEF BigDone
<1>6. /\ sub' = sub /\ head' = head /\ sub \in [Pages -> SubType] /\ head \in Pages \cup {Null}
      /\ cursor \in Pages /\ live \subseteq LiveType /\ SubHeaps(sub') = SubHeaps(sub) /\ SubHeaps(sub) \subseteq Pages
  BY <1>1, TypeIs DEF HeapInv, SubHeaps
<1>7. ListFit'
  BY <1>6 DEF HeapInv, ListFit
<1>8. bl \in [Pages -> Pieces(NumHeapPages)] /\ Starts(bl) \subseteq Pages
  BY <1>5 DEF BigFit, Tiling, Pages
<1>9. /\ \A a \in live : a.at > 0 <=> a.page \in SubHeaps(sub)
      /\ \A a \in live : a.at = 0 => a.page \in UsedBig(block) /\ block[a.page].len = a.len
      /\ \A q \in SubHeaps(sub) : q \in UsedBig(block) /\ block[q].len = 1
      /\ \A q \in UsedBig(block) : q \in SubHeaps(sub) \/ [page |-> q, at |-> 0, len |-> block[q].len] \in live
  BY DEF HeapInv, BlocksFit
<1>10. CASE p \in Pages
  <2> PICK a : a = [page |-> p, at |-> 0, len |-> n]
    OBVIOUS
  <2>1. a.page = p /\ a.at = 0 /\ a.len = n
    OBVIOUS
  <2>2. p >= 0 /\ p # Null /\ p # NoEnd /\ p # Astray
    BY <1>10, CodesApart
  <2>3. /\ p \notin UsedBig(block) /\ UsedBig(bl) = UsedBig(block) \cup {p}
        /\ bl[p] = [len |-> n, free |-> FALSE] /\ (p + n) % NumHeapPages \in Starts(bl)
    BY <1>3, <2>2 DEF BigDone
  <2>4. bl[p].len = n
    BY <2>3
  <2>5. live' = live \cup {a} /\ cursor' \in Starts(bl) /\ fault' = "none"
    BY <1>4, <2>2, <2>3 DEF CursorAfter, Faulty
  <2>6. a \in LiveType
    <3>1. 0 \in 0 .. SubHeapSize
      BY CrashHeapAssumption
    <3> QED
      BY <1>1, <1>10, <3>1 DEF LiveType
  <2>7. TypeOK'
    BY <1>4, <1>6, <1>8, <2>5, <2>6, TypeIs DEF TypeOK, SubType, LiveType
  <2>8. CursorFit' /\ FaultsNamed'
    BY <1>4, <2>5 DEF CursorFit, FaultsNamed
  <2>9. p \notin SubHeaps(sub)
    BY <1>9, <2>3
  <2>10. BlocksFit'
    <3>1. \A b \in live' : b.at > 0 <=> b.page \in SubHeaps(sub')
      BY <1>6, <1>9, <2>1, <2>5, <2>9
    <3>2. \A b \in live' : b.at = 0 => b.page \in UsedBig(bl) /\ bl[b.page].len = b.len
      BY <1>5, <1>9, <2>1, <2>3, <2>4, <2>5
    <3>3. \A q \in SubHeaps(sub') : q \in UsedBig(bl) /\ bl[q].len = 1
      BY <1>5, <1>6, <1>9, <2>3
    <3>4. \A q \in UsedBig(bl) : q \in SubHeaps(sub') \/ [page |-> q, at |-> 0, len |-> bl[q].len] \in live'
      <4> SUFFICES ASSUME NEW q \in UsedBig(bl), q \notin SubHeaps(sub')
                   PROVE  [page |-> q, at |-> 0, len |-> bl[q].len] \in live'
        OBVIOUS
      <4>1. CASE q = p
        BY <2>4, <2>5, <4>1
      <4>2. CASE q # p
        <5>1. q \in UsedBig(block) /\ bl[q] = block[q]
          BY <1>5, <2>3, <4>2
        <5> QED
          BY <1>6, <1>9, <2>5, <5>1
      <4> QED
        BY <4>1, <4>2
    <3> QED
      BY <1>4, <1>5, <3>1, <3>2, <3>3, <3>4 DEF BlocksFit
  <2>11. SubsFit'
    <3> SUFFICES ASSUME NEW q \in SubHeaps(sub)
                 PROVE  SubFit(sub[q]) /\ InUse(q, sub[q].chunks, live \cup {a})
      BY <1>6, <2>5 DEF SubsFit
    <3>1. SubFit(sub[q]) /\ InUse(q, sub[q].chunks, live)
      BY DEF HeapInv, SubsFit
    <3>2. a.page # q
      BY <2>1, <2>9
    <3> QED
      BY <3>1, <3>2, UseElsewhere
  <2> QED
    BY <1>7, <2>7, <2>8, <2>10, <2>11 DEF HeapInv
<1>11. CASE p \notin Pages
  <2>1. /\ UsedBig(bl) = UsedBig(block)
        /\ \/ p = Null /\ cursor \in Starts(bl)
           \/ p = NoEnd /\ cursor \notin Starts(bl)
    BY <1>3, <1>11 DEF BigDone
  <2>2. live' = live /\ cursor' = cursor
    BY <1>4, <2>1, CodesApart DEF CursorAfter
  <2>3. \/ fault' = "none" /\ cursor' \in Starts(block')
        \/ fault' = "endless" /\ cursor' \notin Starts(block')
    BY <1>4, <2>1, <2>2, CodesApart DEF Faulty
  <2>4. TypeOK'
    BY <1>4, <1>6, <1>8, <2>2, <2>3, TypeIs DEF TypeOK, SubType, LiveType
  <2>5. CursorFit' /\ FaultsNamed'
    BY <2>3 DEF CursorFit, FaultsNamed
  <2>6. BlocksFit'
    <3>1. \A q \in UsedBig(bl) : bl[q].len = block[q].len
      BY <1>5, <2>1
    <3> QED
      BY <1>4, <1>5, <1>6, <1>9, <2>1, <2>2, <3>1 DEF BlocksFit
  <2>7. SubsFit'
    BY <1>6, <2>2 DEF HeapInv, SubsFit
  <2> QED
    BY <1>7, <2>4, <2>5, <2>6, <2>7 DEF HeapInv
<1> QED
  BY <1>10, <1>11

\* __FreeBig.
LEMMA FreeBigStep ==
  ASSUME HeapInv, NEW a \in live, FreeBig(a)
  PROVE  HeapInv'
<1> PICK p, bl : p = a.page /\ bl = FreedBlock(p)
  OBVIOUS
<1>1. /\ fault = "none" /\ a.at = 0 /\ block' = bl /\ cursor' = p /\ live' = live \ {a}
      /\ sub' = sub /\ head' = head /\ fault' = "none"
  BY DEF FreeBig, Fine
<1>2. /\ \A b \in live : b.at > 0 <=> b.page \in SubHeaps(sub)
      /\ \A b \in live : b.at = 0 => b.page \in UsedBig(block) /\ block[b.page].len = b.len
      /\ \A q \in SubHeaps(sub) : q \in UsedBig(block) /\ block[q].len = 1
      /\ \A q \in UsedBig(block) : q \in SubHeaps(sub) \/ [page |-> q, at |-> 0, len |-> block[q].len] \in live
      /\ BigFit(block)
  BY DEF HeapInv, BlocksFit
<1>3. p \in UsedBig(block) /\ p \notin SubHeaps(sub)
  BY <1>1, <1>2
<1>4. /\ BigFit(bl) /\ Starts(bl) = Starts(block) /\ UsedBig(bl) = UsedBig(block) \ {p}
      /\ \A q \in UsedBig(bl) : bl[q] = block[q]
      /\ p \in Starts(bl)
  BY <1>2, <1>3, FreedBlockIs
<1>5. sub \in [Pages -> SubType] /\ head \in Pages \cup {Null} /\ live \subseteq LiveType
  BY TypeIs DEF HeapInv
<1>6. bl \in [Pages -> Pieces(NumHeapPages)] /\ Starts(bl) \subseteq Pages
  BY <1>4 DEF BigFit, Tiling, Pages
<1>7. TypeOK'
  <2>1. cursor' \in Pages /\ live' \subseteq LiveType
    BY <1>1, <1>4, <1>5, <1>6
  <2> QED
    BY <1>1, <1>5, <1>6, <2>1 DEF TypeOK, SubType, LiveType
<1>8. ListFit'
  BY <1>1 DEF HeapInv, ListFit
<1>9. CursorFit' /\ FaultsNamed'
  BY <1>1, <1>4 DEF CursorFit, FaultsNamed
<1>10. \A b \in live : b = [page |-> b.page, at |-> b.at, len |-> b.len]
  BY <1>5 DEF LiveType
<1>11. BlocksFit'
  <2>1. \A b \in live' : b.at > 0 <=> b.page \in SubHeaps(sub')
    BY <1>1, <1>2
  <2>2. ASSUME NEW b \in live', b.at = 0
        PROVE  b.page \in UsedBig(bl) /\ bl[b.page].len = b.len
    <3>1. b \in live /\ b # a /\ b.page \in UsedBig(block) /\ block[b.page].len = b.len
      BY <1>1, <1>2, <2>2
    <3>2. b.page # p
      <4> SUFFICES ASSUME b.page = p
                   PROVE  FALSE
        OBVIOUS
      <4>1. b.len = a.len /\ b.at = a.at
        BY <1>1, <1>2, <2>2, <3>1
      <4>2. b = [page |-> b.page, at |-> b.at, len |-> b.len] /\ a = [page |-> a.page, at |-> a.at, len |-> a.len]
        BY <1>10, <3>1
      <4> QED
        BY <3>1, <4>1, <4>2
    <3> QED
      BY <1>4, <3>1, <3>2
  <2>3. \A q \in SubHeaps(sub') : q \in UsedBig(bl) /\ bl[q].len = 1
    BY <1>1, <1>2, <1>3, <1>4
  <2>4. ASSUME NEW q \in UsedBig(bl), q \notin SubHeaps(sub')
        PROVE  [page |-> q, at |-> 0, len |-> bl[q].len] \in live'
    <3>1. q \in UsedBig(block) /\ q # p /\ bl[q] = block[q]
      BY <1>4
    <3> PICK b : b = [page |-> q, at |-> 0, len |-> bl[q].len]
      OBVIOUS
    <3>2. b \in live /\ b.page = q
      BY <1>1, <1>2, <2>4, <3>1
    <3>3. b # a
      BY <3>1, <3>2
    <3> QED
      BY <1>1, <3>2, <3>3
  <2> QED
    BY <1>1, <1>4, <2>1, <2>2, <2>3, <2>4 DEF BlocksFit
<1>12. SubsFit'
  <2> SUFFICES ASSUME NEW q \in SubHeaps(sub)
               PROVE  SubFit(sub[q]) /\ InUse(q, sub[q].chunks, live \ {a})
    BY <1>1 DEF SubsFit
  <2>1. SubFit(sub[q]) /\ InUse(q, sub[q].chunks, live)
    BY DEF HeapInv, SubsFit
  <2>2. a.page # q
    BY <1>3
  <2>3. PICK L, b : L = live /\ b = a
    OBVIOUS
  <2> QED
    BY <2>1, <2>2, UseElsewhere
<1> QED
  BY <1>7, <1>8, <1>9, <1>11, <1>12 DEF HeapInv

\* The walk went wrong: nothing changed.
LEMMA FaultStep ==
  ASSUME HeapInv, UNCHANGED <<heapVars, live>>, fault' \in {"endless", "astray"},
         \E p \in SubHeaps(sub) : PrevLeft(p)
  PROVE  HeapInv'
<1>1. block' = block /\ cursor' = cursor /\ head' = head /\ sub' = sub /\ live' = live
  BY DEF heapVars
<1>2. TypeOK'
  BY <1>1 DEF HeapInv, TypeOK
<1>3. ListFit' /\ BlocksFit' /\ SubsFit'
  BY <1>1 DEF HeapInv, ListFit, BlocksFit, SubsFit
<1>4. CursorFit'
  BY DEF CursorFit
<1>5. FaultsNamed'
  BY <1>1 DEF FaultsNamed, PrevLeft
<1> QED
  BY <1>2, <1>3, <1>4, <1>5 DEF HeapInv

\* What is linked to astray has a next that has it for no prev.
LEMMA AstrayIs ==
  ASSUME ListFit, NEW p \in SubHeaps(sub), WritesAstray(sub, p)
  PROVE  PrevLeft(p)
<1>1. sub[p].prev = Null /\ sub[p].next # Null /\ sub[p].next \notin SubHeaps(sub)
  BY DEF ListFit, WritesAstray, SubHeaps
<1> QED
  BY <1>1 DEF PrevLeft

\* __AllocSmall.
LEMMA AllocateSmallStep ==
  ASSUME HeapInv, NEW n \in SmallSizes, AllocateSmall(n)
  PROVE  HeapInv'
<1> PICK p, q, bl : p = FindSub(n) /\ q = AllocBig(1).page /\ bl = AllocBig(1).blocks
  OBVIOUS
<1>1. /\ fault = "none"
      /\ \/ /\ p \in Pages
            /\ \/ fault' = "astray" /\ UNCHANGED <<head, sub, live>> /\ WritesAstray(sub, p)
               \/ Serve(p, sub[p], n) /\ UNCHANGED fault
            /\ UNCHANGED <<block, cursor>>
         \/ /\ p = Null /\ block' = bl /\ cursor' = CursorAfter(q, 1) /\ fault' = Faulty(q)
            /\ \/ q >= 0 /\ Serve(q, NewSubHeap, n)
               \/ ~ (q >= 0) /\ UNCHANGED <<head, sub, live>>
         \/ p \in {NoEnd, Astray} /\ fault' = Faulty(p) /\ Kept
  BY DEF AllocateSmall, Fine
<1>2. /\ TypeOK /\ ListFit /\ SubsFit /\ BigFit(block) /\ cursor \in Starts(block)
      /\ \A b \in live : b.at > 0 <=> b.page \in SubHeaps(sub)
      /\ \A b \in live : b.at = 0 => b.page \in UsedBig(block) /\ block[b.page].len = b.len
      /\ \A r \in SubHeaps(sub) : r \in UsedBig(block) /\ block[r].len = 1
      /\ \A r \in UsedBig(block) : r \in SubHeaps(sub) \/ [page |-> r, at |-> 0, len |-> block[r].len] \in live
  BY <1>1 DEF HeapInv, BlocksFit, CursorFit
<1>3. /\ sub \in [Pages -> SubType] /\ head \in Pages \cup {Null} /\ live \subseteq LiveType /\ cursor \in Pages
      /\ block \in [Pages -> Pieces(NumHeapPages)] /\ SubHeaps(sub) \subseteq Pages
  BY <1>2, TypeIs DEF SubHeaps
<1>4. /\ (p \in SubHeaps(sub) /\ Serves(p, n)) \/ p \in {Null, NoEnd, Astray}
      /\ p \in {NoEnd, Astray} => \E r \in SubHeaps(sub) : PrevLeft(r)
  BY <1>2, FindSubIs
<1>5. SubHeapSize \in Nat \ {0}
  BY CrashHeapAssumption
<1>6. CASE p \in Pages /\ fault' = "astray" /\ UNCHANGED <<head, sub, live, block, cursor>> /\ WritesAstray(sub, p)
  <2>1. p \in SubHeaps(sub)
    BY <1>4, <1>6, CodesApart
  <2>2. PrevLeft(p)
    BY <1>2, <1>6, <2>1, AstrayIs
  <2>3. UNCHANGED <<heapVars, live>>
    BY <1>6 DEF heapVars
  <2> QED
    BY <1>6, <2>1, <2>2, <2>3, FaultStep
<1>7. CASE p \in Pages /\ Serve(p, sub[p], n) /\ UNCHANGED <<block, cursor, fault>>
  <2>1. p \in SubHeaps(sub) /\ Serves(p, n)
    BY <1>4, <1>7, CodesApart
  <2> PICK h : h = sub[p]
    OBVIOUS
  <2>2. /\ h \in SubType /\ h.prev = Null /\ h.next # p /\ SubFit(h) /\ InUse(p, h.chunks, live)
        /\ Fitting(h.chunks, n) # {} /\ Serve(p, h, n)
    BY <1>2, <1>3, <1>7, <2>1 DEF ListFit, SubsFit, Serves
  <2>3. /\ sub' \in [Pages -> SubType] /\ SubHeaps(sub') = SubHeaps(sub) \cup {p} /\ ListFit' /\ SubsFit'
        /\ \E a \in LiveType : a.page = p /\ a.at > 0 /\ live' = live \cup {a}
    BY <1>2, <1>7, <2>2, ServeStep
  <2>4. PICK a \in LiveType : a.page = p /\ a.at > 0 /\ live' = live \cup {a}
    BY <2>3
  <2>5. SubHeaps(sub') = SubHeaps(sub)
    BY <2>1, <2>3
  <2>6. block' = block /\ cursor' = cursor /\ fault' = "none" /\ head' = p
    BY <1>1, <1>7 DEF Serve
  <2>7. TypeOK'
    <3>1. live' \subseteq LiveType
      BY <1>3, <2>4
    <3> QED
      BY <1>3, <1>7, <2>3, <2>6, <3>1 DEF TypeOK, SubType, LiveType
  <2>8. CursorFit' /\ FaultsNamed'
    BY <1>2, <2>6 DEF CursorFit, FaultsNamed
  <2>9. BlocksFit'
    <3>1. a.at # 0
      BY <1>5, <2>4 DEF LiveType
    <3>2. \A b \in live' : b.at > 0 <=> b.page \in SubHeaps(sub')
      BY <1>2, <2>1, <2>4, <2>5
    <3>3. \A b \in live' : b.at = 0 => b.page \in UsedBig(block) /\ block[b.page].len = b.len
      BY <1>2, <2>4, <3>1
    <3>4. live \subseteq live'
      BY <2>4
    <3> QED
      BY <1>2, <2>5, <2>6, <3>2, <3>3, <3>4 DEF BlocksFit
  <2> QED
    BY <2>3, <2>7, <2>8, <2>9 DEF HeapInv
<1>8. ASSUME p = Null, block' = bl, cursor' = CursorAfter(q, 1), fault' = Faulty(q)
      PROVE  /\ BigFit(bl) /\ \A r \in UsedBig(block) : bl[r] = block[r]
             /\ bl \in [Pages -> Pieces(NumHeapPages)] /\ Starts(bl) \subseteq Pages
             /\ \/ /\ q \in Pages /\ q >= 0 /\ q \notin UsedBig(block) /\ UsedBig(bl) = UsedBig(block) \cup {q}
                   /\ bl[q].len = 1 /\ cursor' \in Starts(bl) /\ fault' = "none"
                \/ /\ ~ (q >= 0) /\ UsedBig(bl) = UsedBig(block) /\ cursor' = cursor
                   /\ \/ fault' = "none" /\ cursor' \in Starts(bl)
                      \/ fault' = "endless" /\ cursor' \notin Starts(bl)
  <2>1. BigDone(q, bl, 1)
    <3>1. 1 \in Nat \ {0}
      OBVIOUS
    <3> QED
      BY <1>2, <3>1, AllocBigDone
  <2>2. BigFit(bl) /\ \A r \in UsedBig(block) : bl[r] = block[r]
    BY <2>1 DEF BigDone
  <2>3. bl \in [Pages -> Pieces(NumHeapPages)] /\ Starts(bl) \subseteq Pages
    BY <2>2 DEF BigFit, Tiling, Pages
  <2>4. CASE q \in Pages
    <3>1. q >= 0 /\ q # Null /\ q # NoEnd /\ q # Astray
      BY <2>4, CodesApart
    <3>2. /\ q \notin UsedBig(block) /\ UsedBig(bl) = UsedBig(block) \cup {q}
          /\ bl[q] = [len |-> 1, free |-> FALSE] /\ (q + 1) % NumHeapPages \in Starts(bl)
      BY <2>1, <3>1 DEF BigDone
    <3>3. bl[q].len = 1
      BY <3>2
    <3>4. cursor' \in Starts(bl) /\ fault' = "none"
      BY <1>8, <3>1, <3>2 DEF CursorAfter, Faulty
    <3> QED
      BY <2>2, <2>3, <2>4, <3>1, <3>2, <3>3, <3>4
  <2>5. CASE q \notin Pages
    <3>1. /\ UsedBig(bl) = UsedBig(block)
          /\ \/ q = Null /\ cursor \in Starts(bl)
             \/ q = NoEnd /\ cursor \notin Starts(bl)
      BY <2>1, <2>5 DEF BigDone
    <3>2. ~ (q >= 0) /\ cursor' = cursor
      BY <1>8, <3>1, CodesApart DEF CursorAfter
    <3>3. \/ fault' = "none" /\ cursor' \in Starts(bl)
          \/ fault' = "endless" /\ cursor' \notin Starts(bl)
      BY <1>8, <3>1, <3>2, CodesApart DEF Faulty
    <3> QED
      BY <2>2, <2>3, <3>1, <3>2, <3>3
  <2> QED
    BY <2>4, <2>5
<1>9. CASE /\ p = Null /\ block' = bl /\ cursor' = CursorAfter(q, 1) /\ fault' = Faulty(q)
           /\ q >= 0 /\ Serve(q, NewSubHeap, n)
  <2>1. /\ BigFit(bl) /\ \A r \in UsedBig(block) : bl[r] = block[r]
        /\ bl \in [Pages -> Pieces(NumHeapPages)] /\ Starts(bl) \subseteq Pages
        /\ q \in Pages /\ q \notin UsedBig(block) /\ UsedBig(bl) = UsedBig(block) \cup {q}
        /\ bl[q].len = 1 /\ cursor' \in Starts(bl) /\ fault' = "none"
    BY <1>8, <1>9
  <2>2. q \notin SubHeaps(sub)
    BY <1>2, <2>1
  <2> PICK h : h = NewSubHeap
    OBVIOUS
  <2>3. /\ ChunksOk(h.chunks) /\ UsedChunks(h.chunks) = {} /\ h.free = Cardinality(FreeUnits(h.chunks))
        /\ Fitting(h.chunks, n) # {}
        /\ h = [next |-> Null, prev |-> Null, free |-> SubHeapSize, chunks |-> h.chunks]
    BY NewOk
  <2>4. h.prev = Null /\ h.next = Null
    BY <2>3
  <2>5. h \in SubType
    <3>1. SubHeapSize \in 0 .. SubHeapSize /\ h.chunks \in Chunks
      BY <1>5, <2>3 DEF ChunksOk
    <3>2. [next |-> Null, prev |-> Null, free |-> SubHeapSize, chunks |-> h.chunks] \in SubType
      BY <3>1 DEF SubType
    <3> QED
      BY <2>3, <3>2
  <2>6. InUse(q, h.chunks, live)
    <3>1. \A b \in live : b.page # q
      <4> SUFFICES ASSUME NEW b \in live, b.page = q
                   PROVE  FALSE
        OBVIOUS
      <4>1. b.at \in 0 .. SubHeapSize
        BY <1>3 DEF LiveType
      <4>2. b.at = 0
        BY <1>2, <1>5, <2>2, <4>1
      <4> QED
        BY <1>2, <2>1, <4>2
    <3> QED
      BY <2>3, <3>1 DEF InUse
  <2>7. /\ sub' \in [Pages -> SubType] /\ SubHeaps(sub') = SubHeaps(sub) \cup {q} /\ ListFit' /\ SubsFit'
        /\ \E a \in LiveType : a.page = q /\ a.at > 0 /\ live' = live \cup {a}
    <3>1. h.next # q /\ SubFit(h) /\ Serve(q, h, n)
      BY <1>9, <2>1, <2>3, <2>4, CodesApart DEF SubFit
    <3> QED
      BY <1>2, <2>1, <2>3, <2>4, <2>5, <2>6, <3>1, ServeStep
  <2>8. PICK a \in LiveType : a.page = q /\ a.at > 0 /\ live' = live \cup {a}
    BY <2>7
  <2>9. block' = bl /\ head' = q
    BY <1>9 DEF Serve
  <2>10. TypeOK'
    <3>1. live' \subseteq LiveType /\ cursor' \in Pages
      BY <1>3, <2>1, <2>8
    <3> QED
      BY <2>1, <2>7, <2>9, <3>1 DEF TypeOK, SubType, LiveType
  <2>11. CursorFit' /\ FaultsNamed'
    BY <2>1, <2>9 DEF CursorFit, FaultsNamed
  <2>12. BlocksFit'
    <3>1. a.at # 0
      BY <1>5, <2>8 DEF LiveType
    <3>2. ASSUME NEW b \in live'
          PROVE  b.at > 0 <=> b.page \in SubHeaps(sub')
      <4>1. CASE b = a
        BY <2>7, <2>8, <4>1
      <4>2. CASE b # a
        <5>1. b \in live /\ (b.at > 0 <=> b.page \in SubHeaps(sub))
          BY <1>2, <2>8, <4>2
        <5>2. b.page # q
          <6>1. b.at \in 0 .. SubHeapSize
            BY <1>3, <5>1 DEF LiveType
          <6> QED
            BY <1>2, <1>5, <2>1, <2>2, <5>1, <6>1
        <5> QED
          BY <2>7, <5>1, <5>2
      <4> QED
        BY <4>1, <4>2
    <3>3. \A b \in live' : b.at = 0 => b.page \in UsedBig(bl) /\ bl[b.page].len = b.len
      BY <1>2, <2>1, <2>8, <3>1
    <3>4. \A r \in SubHeaps(sub') : r \in UsedBig(bl) /\ bl[r].len = 1
      BY <1>2, <2>1, <2>7
    <3>5. ASSUME NEW r \in UsedBig(bl)
          PROVE  r \in SubHeaps(sub') \/ [page |-> r, at |-> 0, len |-> bl[r].len] \in live'
      <4>1. CASE r = q
        BY <2>7, <4>1
      <4>2. CASE r # q
        <5>1. r \in UsedBig(block) /\ bl[r] = block[r]
          BY <2>1, <4>2
        <5> QED
          BY <1>2, <2>7, <2>8, <5>1
      <4> QED
        BY <4>1, <4>2
    <3> QED
      BY <2>1, <2>9, <3>2, <3>3, <3>4, <3>5 DEF BlocksFit
  <2> QED
    BY <2>7, <2>10, <2>11, <2>12 DEF HeapInv
<1>10. CASE /\ p = Null /\ block' = bl /\ cursor' = CursorAfter(q, 1) /\ fault' = Faulty(q)
            /\ ~ (q >= 0) /\ UNCHANGED <<head, sub, live>>
  <2>1. /\ BigFit(bl) /\ \A r \in UsedBig(block) : bl[r] = block[r]
        /\ bl \in [Pages -> Pieces(NumHeapPages)] /\ UsedBig(bl) = UsedBig(block) /\ cursor' = cursor
        /\ \/ fault' = "none" /\ cursor' \in Starts(bl)
           \/ fault' = "endless" /\ cursor' \notin Starts(bl)
    BY <1>8, <1>10
  <2>2. block' = bl /\ head' = head /\ sub' = sub /\ live' = live
    BY <1>10
  <2>3. TypeOK'
    BY <1>3, <2>1, <2>2 DEF TypeOK, SubType, LiveType
  <2>4. ListFit' /\ SubsFit'
    BY <1>2, <2>2 DEF ListFit, SubsFit
  <2>5. CursorFit' /\ FaultsNamed'
    BY <2>1, <2>2 DEF CursorFit, FaultsNamed
  <2>6. BlocksFit'
    <3>1. \A r \in UsedBig(bl) : bl[r].len = block[r].len
      BY <2>1
    <3> QED
      BY <1>2, <2>1, <2>2, <3>1 DEF BlocksFit
  <2> QED
    BY <2>3, <2>4, <2>5, <2>6 DEF HeapInv
<1>11. CASE p \in {NoEnd, Astray} /\ fault' = Faulty(p) /\ Kept
  <2>1. fault' \in {"endless", "astray"}
    BY <1>11, CodesApart DEF Faulty
  <2>2. UNCHANGED <<heapVars, live>>
    BY <1>11 DEF Kept
  <2> QED
    BY <1>4, <1>11, <2>1, <2>2, FaultStep
<1> QED
  BY <1>1, <1>6, <1>7, <1>9, <1>10, <1>11

\* A page that is no sub-heap.
LEMMA NoSubIs ==
  NoSub \in SubType /\ NoSub.prev = Null /\ NoSub.next = Null /\ DOMAIN NoSub.chunks = {}
<1> DEFINE none == <<>>
<1>1. none \in Chunks /\ DOMAIN none = {}
  <2>1. none \in [{} -> Pieces(SubHeapSize)]
    OBVIOUS
  <2> QED
    BY <2>1 DEF Chunks
<1> HIDE DEF none
<1>2. NoSub = [next |-> Null, prev |-> Null, free |-> 0, chunks |-> none]
  BY DEF NoSub, none
<1>3. 0 \in 0 .. SubHeapSize
  BY CrashHeapAssumption
<1>4. [next |-> Null, prev |-> Null, free |-> 0, chunks |-> none] \in SubType
  BY <1>1, <1>3 DEF SubType
<1> QED
  BY <1>1, <1>2, <1>4

\* __FreeSmall.
LEMMA FreeSmallStep ==
  ASSUME HeapInv, NEW a \in live, FreeSmall(a)
  PROVE  HeapInv'
<1> PICK p, h, u : p = a.page /\ h = sub[p] /\ u = a.at - 1
  OBVIOUS
<1> PICK c, f : c = h.chunks /\ f = h.free + c[u].len
  OBVIOUS
<1>1. /\ fault = "none" /\ a.at > 0
      /\ \/ /\ WritesAstray(sub, p) /\ fault' = "astray" /\ Kept
         \/ /\ live' = live \ {a} /\ fault' = fault
            /\ \/ /\ f = SubHeapSize /\ ~ WritesAstray(sub, p)
                  /\ sub' = [Unlinked(sub, p) EXCEPT ![p] = NoSub]
                  /\ head' = IF p = head THEN h.next ELSE head
                  /\ block' = FreedBlock(p) /\ cursor' = p
               \/ /\ sub' = ToHead([sub EXCEPT ![p].free = f, ![p].chunks = Joined(c, u)], p)
                  /\ head' = p
                  /\ UNCHANGED <<block, cursor>>
  BY DEF FreeSmall, Fine
<1>2. /\ TypeOK /\ ListFit /\ SubsFit /\ BigFit(block) /\ cursor \in Starts(block)
      /\ \A b \in live : b.at > 0 <=> b.page \in SubHeaps(sub)
      /\ \A b \in live : b.at = 0 => b.page \in UsedBig(block) /\ block[b.page].len = b.len
      /\ \A r \in SubHeaps(sub) : r \in UsedBig(block) /\ block[r].len = 1
      /\ \A r \in UsedBig(block) : r \in SubHeaps(sub) \/ [page |-> r, at |-> 0, len |-> block[r].len] \in live
  BY <1>1 DEF HeapInv, BlocksFit, CursorFit
<1>3. /\ sub \in [Pages -> SubType] /\ head \in Pages \cup {Null} /\ live \subseteq LiveType /\ cursor \in Pages
      /\ block \in [Pages -> Pieces(NumHeapPages)] /\ SubHeaps(sub) \subseteq Pages
  BY <1>2, TypeIs DEF SubHeaps
<1>4. p \in SubHeaps(sub) /\ p \in Pages /\ h \in SubType /\ p \in UsedBig(block)
  BY <1>1, <1>2, <1>3
<1>5. SubFit(h) /\ InUse(p, c, live) /\ ChunksOk(c) /\ h.free = Cardinality(FreeUnits(c))
  BY <1>2, <1>4 DEF SubsFit, SubFit
<1>6. u \in UsedChunks(c) /\ c[u].len = a.len
  BY <1>5 DEF InUse
<1>7. \A b \in live : b = [page |-> b.page, at |-> b.at, len |-> b.len] /\ b.at \in Int
  <2> SUFFICES ASSUME NEW b \in live
               PROVE  b = [page |-> b.page, at |-> b.at, len |-> b.len] /\ b.at \in Int
    OBVIOUS
  <2>1. b \in [page : Pages, at : 0 .. SubHeapSize, len : Nat \ {0}]
    BY <1>3 DEF LiveType
  <2> QED
    BY <2>1
<1>8. \A q \in Pages : sub[q].prev = Null /\ sub[q].next # q
  BY <1>2 DEF ListFit
<1>9. \A q \in SubHeaps(sub) \ {p} : SubFit(sub[q]) /\ InUse(q, sub[q].chunks, live \ {a})
  <2> SUFFICES ASSUME NEW q \in SubHeaps(sub) \ {p}
               PROVE  SubFit(sub[q]) /\ InUse(q, sub[q].chunks, live \ {a})
    OBVIOUS
  <2>1. SubFit(sub[q]) /\ InUse(q, sub[q].chunks, live)
    BY <1>2 DEF SubsFit
  <2>2. a.page # q
    OBVIOUS
  <2> QED
    BY <2>1, <2>2, UseElsewhere
<1>10. CASE WritesAstray(sub, p) /\ fault' = "astray" /\ Kept
  <2>1. PrevLeft(p)
    BY <1>2, <1>4, <1>10, AstrayIs
  <2>2. UNCHANGED <<heapVars, live>>
    BY <1>10 DEF Kept
  <2> QED
    BY <1>4, <1>10, <2>1, <2>2, FaultStep
<1>11. CASE /\ live' = live \ {a} /\ fault' = fault
            /\ f = SubHeapSize /\ ~ WritesAstray(sub, p)
            /\ sub' = [Unlinked(sub, p) EXCEPT ![p] = NoSub]
            /\ head' = IF p = head THEN h.next ELSE head
            /\ block' = FreedBlock(p) /\ cursor' = p
  <2> PICK bl : bl = FreedBlock(p)
    OBVIOUS
  <2>1. /\ BigFit(bl) /\ UsedBig(bl) = UsedBig(block) \ {p} /\ \A q \in UsedBig(bl) : bl[q] = block[q]
        /\ p \in Starts(bl)
    BY <1>2, <1>4, FreedBlockIs
  <2>2. UsedChunks(c) = {u}
    BY <1>5, <1>6, <1>11, EmptyOk
  <2>3. \A b \in live \ {a} : b.page # p
    <3> SUFFICES ASSUME NEW b \in live \ {a}, b.page = p
                 PROVE  FALSE
      OBVIOUS
    <3>1. b.at - 1 = u /\ c[u].len = b.len
      BY <1>5, <2>2 DEF InUse
    <3>2. b.at = a.at /\ b.len = a.len
      BY <1>6, <1>7, <3>1
    <3>3. b = [page |-> b.page, at |-> b.at, len |-> b.len] /\ a = [page |-> a.page, at |-> a.at, len |-> a.len]
      BY <1>7
    <3> QED
      BY <3>2, <3>3
  <2>4. sub' \in [Pages -> SubType] /\ sub'[p] = NoSub /\ \A q \in Pages \ {p} : sub'[q] = sub[q]
    <3>1. sub' = [sub EXCEPT ![p] = NoSub]
      <4>1. Unlinked(sub, p) = sub
        <5> PICK sb : sb = sub
          OBVIOUS
        <5>1. sb \in [Pages -> SubType] /\ \A q \in Pages : sb[q].prev = Null
          BY <1>3, <1>8
        <5>2. Unlinked(sb, p) = sb
          BY <1>4, <5>1, UnlinkedIs
        <5> QED
          BY <5>2
      <4> QED
        BY <1>11, <4>1
    <3>2. NoSub \in SubType
      BY NoSubIs
    <3> QED
      BY <1>3, <1>4, <3>1, <3>2
  <2>5. SubHeaps(sub') = SubHeaps(sub) \ {p}
    BY <2>4, NoSubIs DEF SubHeaps
  <2>6. head' \in SubHeaps(sub') \cup {Null}
    <3>1. p = head => head' \in SubHeaps(sub) \cup {Null} /\ head' # p
      BY <1>4, <1>8, <1>11 DEF WritesAstray
    <3>2. p # head => head' = head
      BY <1>11
    <3> QED
      BY <1>2, <2>5, <3>1, <3>2 DEF ListFit
  <2>7. ListFit'
    <3>1. \A q \in Pages : sub'[q].prev = Null /\ sub'[q].next # q
      <4>1. NoSub.prev = Null /\ NoSub.next = Null /\ p # Null
        BY <1>4, NoSubIs, CodesApart
      <4> QED
        BY <1>8, <2>4, <4>1
    <3> QED
      BY <2>6, <3>1 DEF ListFit
  <2>8. block' = bl /\ cursor' = p /\ fault' = "none" /\ live' = live \ {a}
    BY <1>1, <1>11
  <2>9. TypeOK'
    <3>1. bl \in [Pages -> Pieces(NumHeapPages)]
      BY <2>1 DEF BigFit
    <3>2. head' \in Pages \cup {Null} /\ live' \subseteq LiveType
      BY <1>3, <2>5, <2>6, <2>8
    <3> QED
      BY <1>4, <2>4, <2>8, <3>1, <3>2 DEF TypeOK, SubType, LiveType
  <2>10. CursorFit' /\ FaultsNamed'
    BY <2>1, <2>8 DEF CursorFit, FaultsNamed
  <2>11. BlocksFit'
    <3>1. \A b \in live' : b.at > 0 <=> b.page \in SubHeaps(sub')
      BY <1>2, <2>3, <2>5, <2>8
    <3>2. \A b \in live' : b.at = 0 => b.page \in UsedBig(bl) /\ bl[b.page].len = b.len
      BY <1>2, <2>1, <2>3, <2>8
    <3>3. \A q \in SubHeaps(sub') : q \in UsedBig(bl) /\ bl[q].len = 1
      BY <1>2, <2>1, <2>5
    <3>4. ASSUME NEW q \in UsedBig(bl), q \notin SubHeaps(sub')
          PROVE  [page |-> q, at |-> 0, len |-> bl[q].len] \in live'
      <4>1. q \in UsedBig(block) /\ bl[q] = block[q] /\ q \notin SubHeaps(sub)
        BY <2>1, <2>5, <3>4
      <4> PICK b : b = [page |-> q, at |-> 0, len |-> bl[q].len]
        OBVIOUS
      <4>2. b \in live /\ b.at = 0
        BY <1>2, <4>1
      <4>3. b # a
        BY <1>1, <4>2
      <4> QED
        BY <2>8, <4>2, <4>3
    <3> QED
      BY <2>1, <2>8, <3>1, <3>2, <3>3, <3>4 DEF BlocksFit
  <2>12. SubsFit'
    <3>1. \A q \in SubHeaps(sub') : SubFit(sub'[q]) /\ InUse(q, sub'[q].chunks, live')
      <4> SUFFICES ASSUME NEW q \in SubHeaps(sub')
                   PROVE  SubFit(sub'[q]) /\ InUse(q, sub'[q].chunks, live')
        OBVIOUS
      <4>1. q \in SubHeaps(sub) \ {p} /\ sub'[q] = sub[q]
        BY <1>3, <2>4, <2>5
      <4> QED
        BY <1>9, <2>8, <4>1
    <3> QED
      BY <3>1 DEF SubsFit
  <2> QED
    BY <2>7, <2>9, <2>10, <2>11, <2>12 DEF HeapInv
<1>12. CASE /\ live' = live \ {a} /\ fault' = fault
            /\ sub' = ToHead([sub EXCEPT ![p].free = f, ![p].chunks = Joined(c, u)], p)
            /\ head' = p
            /\ UNCHANGED <<block, cursor>>
  <2> PICK d : d = Joined(c, u)
    OBVIOUS
  <2>1. /\ ChunksOk(d) /\ UsedChunks(d) = UsedChunks(c) \ {u}
        /\ \A w \in UsedChunks(d) : d[w] = c[w]
        /\ Cardinality(FreeUnits(d)) = Cardinality(FreeUnits(c)) + c[u].len
        /\ DOMAIN d # {}
    BY <1>5, <1>6, JoinedOk
  <2>2. f = Cardinality(FreeUnits(d)) /\ f \in 0 .. SubHeapSize /\ d \in Chunks
    <3>1. Cardinality(FreeUnits(d)) \in 0 .. SubHeapSize /\ d \in Chunks
      BY <2>1, FreeUnitsAre DEF ChunksOk
    <3>2. f = Cardinality(FreeUnits(d))
      BY <1>5, <2>1
    <3> QED
      BY <3>1, <3>2
  <2> PICK g : g = Filled(h, f, d)
    OBVIOUS
  <2>3. g \in SubType /\ g.free = f /\ g.chunks = d /\ g.prev = h.prev /\ g.next = h.next
    <3>1. /\ Filled(h, f, d) \in SubType /\ Filled(h, f, d).free = f /\ Filled(h, f, d).chunks = d
          /\ Filled(h, f, d).prev = h.prev /\ Filled(h, f, d).next = h.next
      <4>1. \A x \in 0 .. SubHeapSize, y \in Chunks :
              /\ Filled(h, x, y) \in SubType /\ Filled(h, x, y).free = x /\ Filled(h, x, y).chunks = y
              /\ Filled(h, x, y).prev = h.prev /\ Filled(h, x, y).next = h.next
        BY <1>4, WritesAre, ZenonT(60)
      <4> QED
        BY <2>2, <4>1
    <3> QED
      BY <3>1
  <2>4. sub' = ToHead([sub EXCEPT ![p] = g], p)
    <3>1. [sub EXCEPT ![p].free = f, ![p].chunks = d] = [sub EXCEPT ![p] = g]
      <4>1. [sub EXCEPT ![p].free = f, ![p].chunks = d] = [sub EXCEPT ![p] = [sub[p] EXCEPT !.free = f, !.chunks = d]]
        OBVIOUS
      <4>2. g = [sub[p] EXCEPT !.free = f, !.chunks = d]
        BY DEF Filled
      <4> QED
        BY <4>1, <4>2
    <3> QED
      BY <1>12, <3>1
  <2>5. g.prev = Null /\ g.next # p /\ DOMAIN g.chunks # {} /\ head' = p
    <3>1. h.prev = Null /\ h.next # p
      BY <1>4, <1>8
    <3>2. head' = p
      BY <1>12
    <3> QED
      BY <2>1, <2>3, <3>1, <3>2
  <2>6. /\ sub' \in [Pages -> SubType] /\ \A q \in Pages \ {p} : sub'[q] = sub[q]
        /\ sub'[p].free = f /\ sub'[p].chunks = d
        /\ SubHeaps(sub') = SubHeaps(sub) /\ ListFit'
    <3>1. /\ sub' \in [Pages -> SubType] /\ \A q \in Pages \ {p} : sub'[q] = sub[q]
          /\ sub'[p].free = g.free /\ sub'[p].chunks = g.chunks
          /\ SubHeaps(sub') = SubHeaps(sub) \cup {p} /\ ListFit'
      <4>1. Writes(p, g)
        BY <2>4, <2>5 DEF Writes
      <4>2. Written(p, g)
        BY <1>2, <1>4, <2>3, <2>5, <4>1, SubWritten
      <4> QED
        BY <4>2 DEF Written
    <3> QED
      BY <1>4, <2>3, <3>1
  <2>7. block' = block /\ cursor' = cursor /\ fault' = "none" /\ live' = live \ {a}
    BY <1>1, <1>12
  <2>8. TypeOK'
    <3>1. live' \subseteq LiveType
      BY <1>3, <2>7
    <3> QED
      BY <1>3, <1>4, <2>5, <2>6, <2>7, <3>1 DEF TypeOK, SubType, LiveType
  <2>9. CursorFit' /\ FaultsNamed'
    BY <1>2, <2>7 DEF CursorFit, FaultsNamed
  <2>10. BlocksFit'
    <3>1. ASSUME NEW r \in UsedBig(block), r \notin SubHeaps(sub)
          PROVE  [page |-> r, at |-> 0, len |-> block[r].len] \in live'
      <4> PICK b : b = [page |-> r, at |-> 0, len |-> block[r].len]
        OBVIOUS
      <4>1. b \in live /\ b.at = 0
        BY <1>2, <3>1
      <4>2. b # a
        BY <1>1, <4>1
      <4> QED
        BY <2>7, <4>1, <4>2
    <3>2. live' \subseteq live
      BY <2>7
    <3> QED
      BY <1>2, <2>6, <2>7, <3>1, <3>2 DEF BlocksFit
  <2>11. InUse(p, d, live \ {a})
    <3> PICK L : L = live
      OBVIOUS
    <3>1. L \in SUBSET LiveType /\ InUse(p, c, L) /\ a \in L /\ a.page = p
      BY <1>3, <1>5
    <3>2. UsedChunks(c) \subseteq Nat
      <4>1. \A w \in DOMAIN c : w \in Nat
        BY <1>5, ChunkIs DEF ChunksOk
      <4> QED
        BY <4>1 DEF UsedChunks
    <3>3. UsedChunks(d) = UsedChunks(c) \ {a.at - 1}
      BY <2>1
    <3>4. InUse(p, d, L \ {a})
      BY <2>1, <3>1, <3>2, <3>3, UseLess
    <3> QED
      BY <3>4
  <2>12. SubsFit'
    <3>1. \A q \in SubHeaps(sub') : SubFit(sub'[q]) /\ InUse(q, sub'[q].chunks, live')
      <4> SUFFICES ASSUME NEW q \in SubHeaps(sub')
                   PROVE  SubFit(sub'[q]) /\ InUse(q, sub'[q].chunks, live')
        OBVIOUS
      <4>1. CASE q = p
        BY <2>1, <2>2, <2>6, <2>7, <2>11, <4>1 DEF SubFit
      <4>2. CASE q # p
        <5>1. q \in SubHeaps(sub) \ {p} /\ sub'[q] = sub[q]
          BY <1>3, <2>6, <4>2
        <5> QED
          BY <1>9, <2>7, <5>1
      <4> QED
        BY <4>1, <4>2
    <3> QED
      BY <3>1 DEF SubsFit
  <2> QED
    BY <2>6, <2>8, <2>9, <2>10, <2>12 DEF HeapInv
<1> QED
  BY <1>1, <1>10, <1>11, <1>12

\* At the start the heap is one free block.
LEMMA HeapStart ==
  Init => HeapInv
<1> SUFFICES ASSUME Init
             PROVE  HeapInv
  OBVIOUS
<1> DEFINE N == NumHeapPages
<1>1. N \in Nat \ {0} /\ Pages = 0 .. N - 1
  BY CrashHeapAssumption DEF Pages
<1>2. /\ block = [p \in Pages |-> IF p = 0 THEN Whole(N) ELSE [len |-> 0, free |-> FALSE]]
      /\ cursor = 0 /\ head = Null /\ sub = [p \in Pages |-> NoSub] /\ live = {} /\ fault = "none"
  BY DEF Init
<1>3. Whole(N) \in Pieces(N) /\ [len |-> 0, free |-> FALSE] \in Pieces(N)
  <2>1. N \in 0 .. N /\ 0 \in 0 .. N
    BY <1>1
  <2> QED
    BY <2>1 DEF Pieces, Whole
<1>4. block \in [Pages -> Pieces(N)] /\ block[0] = Whole(N) /\ DOMAIN block = Pages
  BY <1>1, <1>2, <1>3
<1>5. block[0].len = N /\ block[0].free = TRUE /\ End(block, 0) = N
  BY <1>1, <1>4 DEF Whole, End
<1>6. Tiling(block, {0}, N)
  <2>1. {0} \in SUBSET (0 .. N - 1) /\ N \in 1 .. N /\ {0} \subseteq DOMAIN block
    BY <1>1, <1>4
  <2>2. \A u \in {0} : block[u].len \in 1 .. N /\ block[u].free \in BOOLEAN /\ End(block, u) \in {0} \cup {N}
    BY <1>5, <2>1
  <2>3. \A v \in {0} \cup {N} : v # 0 => \E u \in {0} : End(block, u) = v
    BY <1>5
  <2>4. \A u, v \in {0} : ~ (u < v)
    BY <1>1
  <2> QED
    BY <2>1, <2>2, <2>3, <2>4 DEF Tiling
<1>7. Starts(block) = {0}
  BY <1>1, <1>4, <1>6, StartsOf
<1>8. BigFit(block) /\ UsedBig(block) = {}
  BY <1>4, <1>5, <1>6, <1>7 DEF BigFit, UsedBig
<1>9. sub \in [Pages -> SubType] /\ SubHeaps(sub) = {} /\ \A p \in Pages : sub[p] = NoSub
  <2>1. \A p \in Pages : sub[p] = NoSub
    BY <1>2
  <2>2. NoSub \in SubType
    BY NoSubIs
  <2>3. sub \in [Pages -> SubType]
    BY <1>2, <2>2
  <2>4. SubHeaps(sub) = {}
    BY <2>1, NoSubIs DEF SubHeaps
  <2> QED
    BY <2>1, <2>3, <2>4
<1>10. TypeOK
  <2>1. cursor \in Pages
    BY <1>1, <1>2
  <2> QED
    BY <1>2, <1>4, <1>9, <2>1, TypeIs
<1>11. ListFit
  BY <1>2, <1>9, NoSubIs, CodesApart DEF ListFit
<1>12. CursorFit /\ BlocksFit /\ SubsFit /\ FaultsNamed
  BY <1>2, <1>7, <1>8, <1>9 DEF CursorFit, BlocksFit, SubsFit, FaultsNamed
<1> QED
  BY <1>10, <1>11, <1>12 DEF HeapInv

\* Every step keeps the invariant.
LEMMA HeapStep ==
  HeapInv /\ [Next]_vars => HeapInv'
<1> SUFFICES ASSUME HeapInv, [Next]_vars
             PROVE  HeapInv'
  OBVIOUS
<1>1. ASSUME NEW n \in BigSizes, AllocateBig(n)
      PROVE  HeapInv'
  BY <1>1, AllocateBigStep
<1>2. ASSUME NEW n \in SmallSizes, AllocateSmall(n)
      PROVE  HeapInv'
  BY <1>2, AllocateSmallStep
<1>3. ASSUME NEW a \in live, FreeBig(a)
      PROVE  HeapInv'
  BY <1>3, FreeBigStep
<1>4. ASSUME NEW a \in live, FreeSmall(a)
      PROVE  HeapInv'
  BY <1>4, FreeSmallStep
<1>5. CASE UNCHANGED vars
  <2>1. block' = block /\ cursor' = cursor /\ head' = head /\ sub' = sub /\ live' = live /\ fault' = fault
    BY <1>5 DEF vars, heapVars
  <2>2. TypeOK'
    BY <2>1 DEF HeapInv, TypeOK
  <2>3. ListFit' /\ CursorFit' /\ BlocksFit' /\ SubsFit'
    BY <2>1 DEF HeapInv, ListFit, CursorFit, BlocksFit, SubsFit
  <2>4. FaultsNamed'
    BY <2>1 DEF HeapInv, FaultsNamed, PrevLeft
  <2> QED
    BY <2>2, <2>3, <2>4 DEF HeapInv
<1> QED
  BY <1>1, <1>2, <1>3, <1>4, <1>5 DEF Next

\* The blocks cover the heap, and those in use are the allocations and the sub-heaps.
LEMMA BlocksAre ==
  HeapInv => BlocksTile
<1> SUFFICES ASSUME HeapInv
             PROVE  BlocksTile
  OBVIOUS
<1>1. /\ BigFit(block)
      /\ \A a \in live : a.at > 0 <=> a.page \in SubHeaps(sub)
      /\ \A a \in live : a.at = 0 => a.page \in UsedBig(block) /\ block[a.page].len = a.len
      /\ \A p \in SubHeaps(sub) : p \in UsedBig(block) /\ block[p].len = 1
      /\ \A p \in UsedBig(block) : p \in SubHeaps(sub) \/ [page |-> p, at |-> 0, len |-> block[p].len] \in live
  BY DEF HeapInv, BlocksFit
<1>2. Tile(block, NumHeapPages)
  <2>1. Tiling(block, Starts(block), NumHeapPages)
    BY <1>1 DEF BigFit
  <2>2. \A p \in Starts(block) : block[p].len \in 1 .. NumHeapPages /\ p + block[p].len \in Starts(block) \cup {NumHeapPages}
    BY <2>1 DEF Tiling, End
  <2>3. NumHeapPages \in Nat \ {0}
    BY CrashHeapAssumption
  <2>4. \A p \in Starts(block) : block[p].len > 0
    BY <2>2, <2>3
  <2> QED
    BY <2>2, <2>4 DEF Tile
<1> DEFINE U == {q \in Starts(block) : ~ block[q].free}
           A == {b \in live : b.at = 0}
<1>3. U = UsedBig(block)
  BY DEF UsedBig
<1> DEFINE Left == {<<p, block[p].len>> : p \in U}
           Right == {<<a.page, a.len>> : a \in A} \cup {<<p, 1>> : p \in SubHeaps(sub)}
<1>4. ASSUME NEW p \in U
      PROVE  <<p, block[p].len>> \in Right
  <2>1. CASE p \in SubHeaps(sub)
    BY <1>1, <2>1
  <2>2. CASE p \notin SubHeaps(sub)
    <3>1. PICK a : a = [page |-> p, at |-> 0, len |-> block[p].len]
      OBVIOUS
    <3>2. a \in A /\ a.page = p /\ a.len = block[p].len
      BY <1>1, <1>3, <2>2, <3>1
    <3> QED
      BY <3>2
  <2> QED
    BY <2>1, <2>2
<1>5. ASSUME NEW a \in A
      PROVE  <<a.page, a.len>> \in Left
  BY <1>1, <1>3
<1>6. ASSUME NEW p \in SubHeaps(sub)
      PROVE  <<p, 1>> \in Left
  <2>1. p \in U /\ block[p].len = 1
    BY <1>1, <1>3
  <2> QED
    BY <2>1
<1>7. Left = Right
  BY <1>4, <1>5, <1>6
<1> QED
  BY <1>1, <1>2, <1>7 DEF BlocksTile

\* The chunks cover their sub-heaps, and those in use are the allocations there.
LEMMA ChunksAre ==
  HeapInv => ChunksTile
<1> SUFFICES ASSUME HeapInv, NEW p \in SubHeaps(sub)
             PROVE  LET chunks == sub[p].chunks
                    IN  /\ Tile(chunks, SubHeapSize) /\ DOMAIN chunks = Starts(chunks)
                        /\ \A u, v \in DOMAIN chunks : ~ (chunks[u].free /\ chunks[v].free /\ u + chunks[u].len = v)
                        /\ sub[p].free = Cardinality(FreeUnits(chunks))
                        /\ {<<u + 1, chunks[u].len>> : u \in {v \in DOMAIN chunks : ~ chunks[v].free}}
                             = {<<a.at, a.len>> : a \in {b \in live : b.page = p}}
  BY DEF ChunksTile
<1> DEFINE c == sub[p].chunks
<1>1. ChunksOk(c) /\ sub[p].free = Cardinality(FreeUnits(c)) /\ InUse(p, c, live)
  BY DEF HeapInv, SubsFit, SubFit
<1>2. \A a \in live : a.at \in Nat
  <2> SUFFICES ASSUME NEW a \in live
               PROVE  a.at \in Nat
    OBVIOUS
  <2>1. a \in [page : Pages, at : 0 .. SubHeapSize, len : Nat \ {0}]
    BY TypeIs DEF HeapInv, LiveType
  <2>2. a.at \in 0 .. SubHeapSize /\ SubHeapSize \in Nat
    BY <2>1, CrashHeapAssumption
  <2> QED
    BY <2>2
<1> HIDE DEF c
<1>3. c \in Chunks /\ Tiling(c, DOMAIN c, SubHeapSize) /\ ChunksApart(c)
  BY <1>1 DEF ChunksOk
<1>4. \A u \in DOMAIN c : /\ u \in Nat /\ c[u].len \in Nat \ {0} /\ u + c[u].len \in DOMAIN c \cup {SubHeapSize}
                          /\ SubHeapSize \in Nat \ {0} /\ DOMAIN c \subseteq 0 .. SubHeapSize - 1
  BY <1>3, ChunkIs DEF End
<1>5. DOMAIN c = Starts(c)
  <2>1. SubHeapSize \in Nat \ {0} /\ DOMAIN c \subseteq 0 .. SubHeapSize - 1
    BY <1>3, CrashHeapAssumption DEF Tiling
  <2> DEFINE S == DOMAIN c
  <2>2. DOMAIN c \subseteq 0 .. SubHeapSize - 1 /\ Tiling(c, S, SubHeapSize)
    BY <1>3, <2>1
  <2> HIDE DEF S
  <2>3. Starts(c) = S
    BY <2>1, <2>2, StartsOf
  <2> QED
    BY <2>3 DEF S
<1>6. Tile(c, SubHeapSize)
  <2>1. \A u \in DOMAIN c : c[u].len > 0
    BY <1>4
  <2> QED
    BY <1>4, <1>5, <2>1 DEF Tile
<1>7. \A u, v \in DOMAIN c : ~ (c[u].free /\ c[v].free /\ u + c[u].len = v)
  BY <1>3 DEF ChunksApart, End
<1> DEFINE U == {v \in DOMAIN c : ~ c[v].free}
           A == {b \in live : b.page = p}
           Left == {<<u + 1, c[u].len>> : u \in U}
           Right == {<<a.at, a.len>> : a \in A}
<1>8. U = UsedChunks(c)
  BY DEF UsedChunks
<1>9. ASSUME NEW u \in U
      PROVE  <<u + 1, c[u].len>> \in Right
  <2>1. PICK a : a = [page |-> p, at |-> u + 1, len |-> c[u].len]
    OBVIOUS
  <2>2. a \in A /\ a.at = u + 1 /\ a.len = c[u].len
    BY <1>1, <1>8, <2>1 DEF InUse
  <2> QED
    BY <2>2
<1>10. ASSUME NEW a \in A
       PROVE  <<a.at, a.len>> \in Left
  <2>1. PICK u \in U : u = a.at - 1 /\ c[u].len = a.len
    BY <1>1, <1>8 DEF InUse
  <2>2. u + 1 = a.at
    BY <1>2, <2>1
  <2> QED
    BY <2>1, <2>2
<1>11. Left = Right
  BY <1>9, <1>10
<1> QED
  BY <1>1, <1>5, <1>6, <1>7, <1>11 DEF c

\* The invariant of the crash-dump heap, of which the sanity of the heap is a part.
THEOREM HeapHolds == Spec => []HeapInv
BY HeapStart, HeapStep, PTL DEF Spec

\* No two allocations overlap, big or small, none is lost or left over, through every split,
\* compaction and join, and the walks of the two lists fail only in the two ways the code leaves
\* open (austere.c:79-332).
THEOREM HeapIsSound == Spec => []HeapSound
<1>1. HeapInv => HeapSound
  BY BlocksAre, ChunksAre DEF HeapSound, HeapInv
<1> QED
  BY <1>1, HeapHolds, PTL
=============================================================================
