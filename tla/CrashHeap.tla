----------------------------- MODULE CrashHeap ------------------------------
(***************************************************************************)
(* The heap of the crash-dump driver (src/xencrsh/austere.c): a first-fit  *)
(* heap of pages with a roving cursor, and sub-heaps of one page each, cut *)
(* into chunks.  One thread uses it, an operation is one step.             *)
(*                                                                         *)
(* Both lists of pieces are walked by lengths, the sub-heaps by pointers.   *)
(* A page that is not a sub-heap was given back: it holds its old header   *)
(* until it is another's, and serving from it gives memory out twice.  A   *)
(* walk of the list of sub-heaps that gets there ends the behaviour with   *)
(* fault "astray", and a walk that never ends with fault "endless".        *)
(***************************************************************************)
EXTENDS Integers, FiniteSets

CONSTANTS
  NumHeapPages,  \* AustereHeap.NumHeapPages
  SubHeapSize,   \* SUBHEAP_SIZE, in units
  Slack,         \* what a chunk may be larger than asked for (64), in units
  SmallSizes,    \* chunks that are asked for, with their two headers
  BigSizes,      \* page counts that are asked for
  MaxLive        \* bound: allocations at a time

ASSUME CrashHeapAssumption ==
  /\ {NumHeapPages, SubHeapSize} \subseteq Nat \ {0} /\ Slack \in Nat /\ MaxLive \in Nat
  /\ SmallSizes \subseteq 1 .. SubHeapSize
  /\ BigSizes \subseteq 1 .. 8

VARIABLES
  block,   \* HeapBlockSizes: length and FREE_CHUNK, or what an old block left there
  cursor,  \* BigHeapCursor
  head,    \* HeadSubHeap, a page, or Null
  sub,     \* the sub-heaps: next, prev, Free, and the chunks by their first unit
  live,    \* the allocations the driver holds: page, first unit (0 if big), length
  fault

heapVars == <<block, cursor, head, sub>>
vars == <<heapVars, live, fault>>

Pages == 0 .. NumHeapPages - 1
Null == -1
Whole(n) == [len |-> n, free |-> TRUE]
NoSub == [next |-> Null, prev |-> Null, free |-> 0, chunks |-> <<>>]
SubHeaps(sb) == {p \in Pages : DOMAIN sb[p].chunks # {}}
Least(S) == CHOOSE x \in S : \A y \in S : x <= y

\* Where a walk comes that starts at a, and goes from x to next[x] while it is in DOMAIN next.
Walk(a, next) ==
  LET Within(S) == \A x \in {a} \cup {next[y] : y \in S} : x \in DOMAIN next => x \in S
  IN  {x \in DOMAIN next : \A S \in SUBSET DOMAIN next : Within(S) => x \in S}

\* AustereInitialize.
Init ==
  /\ block = [p \in Pages |-> IF p = 0 THEN Whole(NumHeapPages) ELSE [len |-> 0, free |-> FALSE]]
  /\ cursor = 0 /\ head = Null
  /\ sub = [p \in Pages |-> NoSub]
  /\ live = {} /\ fault = "none"
-----------------------------------------------------------------------------
(* The heap of pages. *)

FitsBig(bl, p, n) == bl[p].free /\ bl[p].len >= n

\* The page __AllocBig finds from the cursor on, Null when it is back there, or NoEnd.
NoEnd == -2
FindBig(bl, n) ==
  LET next == [p \in Pages |-> IF FitsBig(bl, p, n) THEN Null ELSE (p + bl[p].len) % NumHeapPages]
      seen == Walk(cursor, next)
  IN  IF \E p \in seen : next[p] = Null THEN CHOOSE p \in seen : next[p] = Null
      ELSE IF \E p \in seen : next[p] = cursor THEN Null ELSE NoEnd

\* The first pages of the blocks, or units of the chunks, one after the other.
Starts(bl) == Walk(0, [p \in DOMAIN bl |-> p + bl[p].len])
\* __CompactBigHeap: a free block takes in the free ones that follow it.
NextUsed(bl, p) == Least({q \in Starts(bl) : q > p /\ ~ bl[q].free} \cup {NumHeapPages})
AfterFree(bl, p) == \E q \in Starts(bl) : q + bl[q].len = p /\ bl[q].free
Compacted(bl) == [p \in Pages |-> IF p \in Starts(bl) /\ bl[p].free /\ ~ AfterFree(bl, p)
                                  THEN [len |-> NextUsed(bl, p) - p, free |-> TRUE] ELSE bl[p]]

(* __AllocBig: the page, or why there is none, and the blocks; it compacts once, for    *)
(* more than a page, and looks again from the same cursor.                              *)
Cut(bl, p, n) ==
  LET rest == bl[p].len - n
  IN  [q \in DOMAIN bl \cup (IF rest > 0 THEN {p + n} ELSE {}) |->
         IF q = p THEN [len |-> n, free |-> FALSE] ELSE IF q = p + n /\ rest > 0 THEN Whole(rest) ELSE bl[q]]
Placed(bl, n) == LET p == FindBig(bl, n)
                 IN  [page |-> p, blocks |-> IF p >= 0 THEN Cut(bl, p, n) ELSE bl]
AllocBig(n) == LET x == Placed(block, n)
               IN  IF x.page = Null /\ n > 1 /\ Compacted(block) # block THEN Placed(Compacted(block), n) ELSE x

CursorAfter(p, n) == IF p >= 0 THEN (p + n) % NumHeapPages ELSE cursor
-----------------------------------------------------------------------------
(* The chunks of a sub-heap. *)

Fitting(chunks, n) == {u \in DOMAIN chunks : chunks[u].free /\ chunks[u].len >= n}

\* __TrySmall takes the first that fits, and its end when that is too much.
FirstFit(chunks, n) == Least(Fitting(chunks, n))
Taken(chunks, n) == LET len == chunks[FirstFit(chunks, n)].len IN IF len > n + Slack THEN n ELSE len

\* __FreeSmall joins the chunk to a free one behind it (a mutant of Joined: only to that),
\* then to a free one before it.
Merged(c, u, v) ==
  [w \in DOMAIN c \ {v} |-> IF w = u THEN Whole(c[u].len + c[v].len) ELSE c[w]]
JoinedRight(chunks, u) ==
  LET c == [chunks EXCEPT ![u].free = TRUE]
      v == u + c[u].len
  IN  IF v \in DOMAIN c /\ c[v].free THEN Merged(c, u, v) ELSE c
Joined(chunks, u) ==
  LET c == JoinedRight(chunks, u)
      left == {w \in DOMAIN c : w + c[w].len = u /\ c[w].free}
  IN  IF left = {} THEN c ELSE Merged(c, Least(left), u)
-----------------------------------------------------------------------------
(* The list of sub-heaps. *)

\* __AllocSmall's walk: the sub-heap that serves n, Null at the end, NoEnd, or astray.
Astray == -3
Serves(p, n) == sub[p].free > n /\ Fitting(sub[p].chunks, n) # {}
FindSub(n) ==
  LET next == [p \in SubHeaps(sub) |-> IF Serves(p, n) THEN p ELSE sub[p].next]
      seen == Walk(head, next)
      ends == ({head} \cup {next[p] : p \in seen}) \ SubHeaps(sub)
  IN  IF \E p \in seen : Serves(p, n) THEN CHOOSE p \in seen : Serves(p, n)
      ELSE IF ends = {} THEN NoEnd ELSE IF ends = {Null} THEN Null ELSE Astray

\* The neighbours of p let go of it; what p.next is, it writes to.
Unlinked(sb, p) ==
  [q \in Pages |-> IF q = sb[p].prev THEN [sb[q] EXCEPT !.next = sb[p].next]
                   ELSE IF q = sb[p].next THEN [sb[q] EXCEPT !.prev = sb[p].prev] ELSE sb[q]]
WritesAstray(sb, p) == ~ {sb[p].next, sb[p].prev} \subseteq SubHeaps(sb) \cup {Null}

\* p becomes the head, as __AllocSmall and __FreeSmall do it: the old head's prev stays.
ToHead(sb, p) == IF p = head THEN sb ELSE [Unlinked(sb, p) EXCEPT ![p].prev = Null, ![p].next = head]
-----------------------------------------------------------------------------
Fine == fault = "none"
Room == Cardinality(live) < MaxLive
Kept == UNCHANGED <<heapVars, live>>
Faulty(p) == IF p = NoEnd THEN "endless" ELSE IF p = Astray THEN "astray" ELSE "none"

AllocateBig(n) ==
  /\ Fine /\ Room
  /\ LET x == AllocBig(n)
     IN  /\ block' = x.blocks /\ cursor' = CursorAfter(x.page, n)
         /\ live' = IF x.page >= 0 THEN live \cup {[page |-> x.page, at |-> 0, len |-> n]} ELSE live
         /\ fault' = Faulty(x.page)
  /\ UNCHANGED <<head, sub>>

\* A chunk of the sub-heap at page p, given as h.
Serve(p, h, n) ==
  LET u == FirstFit(h.chunks, n)
      len == Taken(h.chunks, n)
      served == [h EXCEPT !.free = @ - len, !.chunks = Cut(h.chunks, u, len)]
  IN  /\ sub' = ToHead([sub EXCEPT ![p] = served], p)
      /\ head' = p
      /\ live' = live \cup {[page |-> p, at |-> u + 1, len |-> len]}
NewSubHeap == [NoSub EXCEPT !.free = SubHeapSize, !.chunks = [u \in {0} |-> Whole(SubHeapSize)]]

AllocateSmall(n) ==
  /\ Fine /\ Room
  /\ LET p == FindSub(n)
         x == AllocBig(1)
     IN  \/ /\ p \in Pages
            /\ IF p # head /\ WritesAstray(sub, p) THEN fault' = "astray" /\ UNCHANGED <<head, sub, live>>
                                                   ELSE Serve(p, sub[p], n) /\ UNCHANGED fault
            /\ UNCHANGED <<block, cursor>>
         \/ /\ p = Null                        \* __NewSubHeap
            /\ block' = x.blocks /\ cursor' = CursorAfter(x.page, 1)
            /\ fault' = Faulty(x.page)
            /\ IF x.page >= 0 THEN Serve(x.page, NewSubHeap, n)
                              ELSE UNCHANGED <<head, sub, live>>
         \/ p \in {NoEnd, Astray} /\ fault' = Faulty(p) /\ Kept

\* __FreeBig.
FreedBlock(p) == [block EXCEPT ![p].free = TRUE]

FreeBig(a) ==
  /\ Fine /\ a \in live /\ a.at = 0
  /\ block' = FreedBlock(a.page) /\ cursor' = a.page
  /\ live' = live \ {a}
  /\ UNCHANGED <<head, sub, fault>>

\* __FreeSmall: a sub-heap that is all free goes back to the heap of pages.
FreeSmall(a) ==
  /\ Fine /\ a \in live /\ a.at > 0
  /\ LET p == a.page
         chunks == sub[p].chunks
         u == a.at - 1
         free == sub[p].free + chunks[u].len
         empty == free = SubHeapSize
     IN  IF (empty \/ p # head) /\ WritesAstray(sub, p)
         THEN fault' = "astray" /\ Kept
         ELSE /\ live' = live \ {a} /\ UNCHANGED fault
              /\ \/ /\ empty
                    /\ sub' = [Unlinked(sub, p) EXCEPT ![p] = NoSub]
                    /\ head' = IF p = head THEN sub[p].next ELSE head
                    /\ block' = FreedBlock(p) /\ cursor' = p
                 \/ /\ ~ empty
                    /\ sub' = ToHead([sub EXCEPT ![p].free = free, ![p].chunks = Joined(chunks, u)], p)
                    /\ head' = p
                    /\ UNCHANGED <<block, cursor>>

Next ==
  \/ \E n \in BigSizes : AllocateBig(n)
  \/ \E n \in SmallSizes : AllocateSmall(n)
  \/ \E a \in live : FreeBig(a) \/ FreeSmall(a)

Spec == Init /\ [][Next]_vars
-----------------------------------------------------------------------------
\* The blocks and chunks, and the types of the variables.
Pieces(n) == [len : 0 .. n, free : BOOLEAN]
Chunks == UNION {[S -> Pieces(SubHeapSize)] : S \in SUBSET (0 .. SubHeapSize - 1)}
TypeOK ==
  /\ block \in [Pages -> Pieces(NumHeapPages)] /\ cursor \in Pages /\ head \in Pages \cup {Null}
  /\ sub \in [Pages -> [next : Pages \cup {Null}, prev : Pages \cup {Null}, free : 0 .. SubHeapSize,
                         chunks : Chunks]]
  /\ live \subseteq [page : Pages, at : 0 .. SubHeapSize, len : Nat \ {0}]
  /\ fault \in {"none", "endless", "astray"}

\* The pieces cover n pages or units, from the first to the last.
Tile(bl, n) == \A p \in Starts(bl) : bl[p].len > 0 /\ p + bl[p].len \in Starts(bl) \cup {n}

(* The blocks cover the heap without gap or overlap, through every split, compaction    *)
(* and move of the cursor, and those in use are the big allocations and the sub-heaps,  *)
(* which hold the small ones and nothing else (austere.c:79-155).                       *)
BlocksTile ==
  /\ Tile(block, NumHeapPages)
  /\ \A a \in live : a.at > 0 <=> a.page \in SubHeaps(sub)
  /\ {<<p, block[p].len>> : p \in {q \in Starts(block) : ~ block[q].free}}
       = {<<a.page, a.len>> : a \in {b \in live : b.at = 0}} \cup {<<p, 1>> : p \in SubHeaps(sub)}

(* The chunks cover their sub-heap, no two free ones side by side, Free is what they    *)
(* have, and those in use are its allocations: none overlaps another and none is        *)
(* forgotten (austere.c:156-332).                                                       *)
FreeUnits(chunks) == UNION {u .. u + chunks[u].len - 1 : u \in {v \in DOMAIN chunks : chunks[v].free}}
ChunksTile ==
  \A p \in SubHeaps(sub) :
    LET chunks == sub[p].chunks
    IN  /\ Tile(chunks, SubHeapSize) /\ DOMAIN chunks = Starts(chunks)
        /\ \A u, v \in DOMAIN chunks : ~ (chunks[u].free /\ chunks[v].free /\ u + chunks[u].len = v)
        /\ sub[p].free = Cardinality(FreeUnits(chunks))
        /\ {<<u + 1, chunks[u].len>> : u \in {v \in DOMAIN chunks : ~ chunks[v].free}}
             = {<<a.at, a.len>> : a \in {b \in live : b.page = p}}

(* A walk goes astray or on for ever only in the two ways the code leaves open: the     *)
(* list's head does not get the prev that __FreeSmall unlinks by (austere.c:261-266),   *)
(* or __CompactBigHeap has merged away the block the cursor is at (austere.c:115-129).  *)
PrevLeft(p) == sub[p].next # Null /\ (sub[p].next \notin SubHeaps(sub) \/ sub[sub[p].next].prev # p)
FaultsNamed ==
  fault # "none" => (\E p \in SubHeaps(sub) : PrevLeft(p)) \/ cursor \notin Starts(block)

(* No two allocations overlap, big or small, none is lost or left over, and no other    *)
(* fault of the lists than the two named.                                               *)
HeapSound == TypeOK /\ BlocksTile /\ ChunksTile /\ FaultsNamed

(* Every allocation and every free of memory that was allocated ends: the list of       *)
(* sub-heaps has an end, and leads through sub-heaps only.  It does not hold (README).  *)
ListSound == fault = "none"
=============================================================================
