------------------------------ MODULE Prepare -------------------------------
(***************************************************************************)
(* How a READ or WRITE is cut into blkif requests and what its segments    *)
(* hold until they are answered (src/xenvbd/pdo.c 705-1135, buffer.c).     *)
(*                                                                         *)
(* A page of the SRB's scatter-gather list that holds whole sectors is     *)
(* granted as it is; of the others, a page's worth in one or two pieces is *)
(* mapped, bounced through a page of __Buffer, and that page is granted.   *)
(* The processors prepare and complete SRBs, a thread frees the buffers    *)
(* that are too many, and DriverUnload ends them all.  Data is followed    *)
(* unit by unit, a few units making a sector and a few sectors a page.     *)
(*                                                                         *)
(* SrbPath says how the SRBs get here and go: here an SRB that is prepared *)
(* is with the backend, and each has a memory and sectors of its own.      *)
(***************************************************************************)
EXTENDS Naturals, FiniteSets, SequencesExt

CONSTANTS
  Cpus,            \* the processors, any of which may prepare an SRB
  Reads, Writes,   \* the SRBs
  Lists,           \* for each SRB, the scatter-gather lists it may come with
  SectorSize,      \* PdoSectorSize, in units
  PageSize,        \* PAGE_SIZE, in units
  NumPages,        \* the pages of an SRB's memory
  MaxSegments,     \* BLKIF_MAX_SEGMENTS_PER_REQUEST
  MinBuffers,      \* BUFFER_MIN_COUNT
  Buffers,         \* the pages __AllocPages may give
  MaxFailures      \* bound: failures of an allocation, a mapping or a grant

Srbs == Reads \cup Writes

ASSUME PrepareAssumption ==
  /\ Reads \cap Writes = {} /\ "none" \notin Cpus /\ "none" \notin Srbs /\ "none" \notin Buffers
  /\ {SectorSize, PageSize} \subseteq Nat \ {0} /\ PageSize % SectorSize = 0
  /\ Lists \in [Srbs -> SUBSET Seq([addr : 0 .. NumPages * PageSize - 1, len : Nat \ {0}])]
  /\ IsFiniteSet(Buffers)
  /\ {MaxSegments, MaxFailures} \subseteq Nat /\ MaxSegments > 0
  /\ MinBuffers \in 0 .. Cardinality(Buffers)

VARIABLES
  list,      \* the scatter-gather list of each SRB
  memory,    \* what the SRB's pages hold
  disk,      \* what the backend has written of the sectors of each SRB
  status,    \* "fresh", "preparing", "prepared", then "good" or "error"
  requests,  \* SrbExt->RequestList
  used,      \* RequestListUsed
  empty,     \* RequestListEmpty is set
  cpu,       \* each processor's program counter and the variables of the code it is in
  ringLock,  \* the processor in FrontendNotifyResponses, which holds RingLock, or "none"
  free,      \* __Buffer.FreeList
  usedList,  \* __Buffer.UsedList
  content,   \* what the buffers hold
  reaper,    \* the reaper thread: "none", "waiting", "awake", "exited"
  unload,    \* how far BufferTerminate is
  bug,       \* the ASSERT that failed, or "none"
  failures

srbVars == <<memory, disk, status, requests>>
poolVars == <<free, usedList, content>>
vars == <<list, srbVars, used, empty, cpu, ringLock, poolVars, reaper, unload, bug, failures>>
-----------------------------------------------------------------------------
(* The scatter-gather list. *)

\* The addresses of the list's units, in the order of the transfer.
Units(l) == FlattenSeq([k \in DOMAIN l |-> [n \in 1 .. l[k].len |-> l[k].addr + n - 1]])
NumSectors(s) == Len(Units(list[s])) \div SectorSize
SectorsPerPage == PageSize \div SectorSize
Least(a, b) == IF a <= b THEN a ELSE b
Whole(n) == n % SectorSize = 0

(* The list is that of a buffer that is virtually contiguous, of whole sectors: its      *)
(* elements begin and end with pages, but for where the buffer does.                    *)
Contiguous(l) ==
  /\ l # <<>> /\ Whole(Len(Units(l)))
  /\ \A k \in DOMAIN l : /\ k > 1 => l[k].addr % PageSize = 0
                         /\ k < Len(l) => (l[k].addr + l[k].len) % PageSize = 0
ASSUME ListAssumption == \A s \in Srbs : \A l \in Lists[s] : Contiguous(l)

Start == [elem |-> 1, off |-> 0]
PieceAt(l, at, max) ==
  LET addr == l[at.elem].addr + at.off
      len == Least(max, l[at.elem].len - at.off)
  IN  [addr |-> addr, len |-> len,
       next |-> IF at.off + len >= l[at.elem].len THEN [elem |-> at.elem + 1, off |-> 0]
                                                  ELSE [at EXCEPT !.off = @ + len]]
RestOfPage(l, at) == PageSize - ((l[at.elem].addr + at.off) % PageSize)
\* A mutant: LastLength does not count.
GetPhysAddrWhole(l, at, last) == PieceAt(l, at, RestOfPage(l, at))
\* __GetPhysAddr from SGIndex at [elem, off], with LastLength = last.
GetPhysAddr(l, at, last) == PieceAt(l, at, RestOfPage(l, at) - last)
Addresses(p) == [n \in 1 .. p.len |-> p.addr + n - 1]

(* A segment: the page it grants or the pieces it bounces, its sectors in that page,    *)
(* what it holds, where the list goes on; "ok" is the ASSERTs, which take it for        *)
(* granted that the list has what is missing to whole sectors.                          *)
NoSegment == [src |-> <<>>, page |-> 0, first |-> 0, last |-> 0, bounced |-> FALSE,
              mapped |-> FALSE, buf |-> "none", granted |-> FALSE]
Direct(p, left) ==
  LET first == ((p.addr % PageSize) + SectorSize - 1) \div SectorSize
      now == Least(left, SectorsPerPage - first)
  IN  [seg |-> [NoSegment EXCEPT !.src = Addresses(p), !.page = p.addr \div PageSize,
                                 !.first = first, !.last = first + now - 1],
       now |-> now, next |-> p.next, ok |-> p.len \div SectorSize = now]
Bounce(l, p, left) ==
  LET now == Least(left, SectorsPerPage)
      two == p.len < now * SectorSize
      more == two /\ p.next.elem <= Len(l)
      q == IF more THEN GetPhysAddr(l, p.next, p.len) ELSE p
      src == Addresses(p) \o (IF more THEN Addresses(q) ELSE <<>>)
  IN  [seg |-> [NoSegment EXCEPT !.src = src, !.last = now - 1, !.bounced = TRUE],
       now |-> now, next |-> q.next,
       ok |-> two = more /\ Whole(Len(src)) /\ Len(src) <= PageSize /\ Len(src) \div SectorSize = now]
Cut(l, at, left) ==
  LET p == GetPhysAddr(l, at, 0)
  IN  IF Whole(p.addr) /\ Whole(p.len) THEN Direct(p, left) ELSE Bounce(l, p, left)
-----------------------------------------------------------------------------
Blank == <<"blank", 0>>
Idle == [pc |-> "idle", s |-> "none", r |-> 0, k |-> 0, done |-> 0, at |-> Start, failing |-> FALSE]

\* BufferInitialize; the pages of a WRITE hold what it is to write.
Init ==
  /\ list \in [Srbs -> UNION {Lists[s] : s \in Srbs}] /\ \A s \in Srbs : list[s] \in Lists[s]
  /\ memory = [s \in Srbs |-> [a \in 0 .. NumPages * PageSize - 1 |->
                 IF s \in Writes /\ a \in ToSet(Units(list[s]))
                 THEN <<s, CHOOSE n \in DOMAIN Units(list[s]) : Units(list[s])[n] = a>> ELSE Blank]]
  /\ disk = [s \in Srbs |-> [n \in DOMAIN Units(list[s]) |-> Blank]]
  /\ status = [s \in Srbs |-> "fresh"]
  /\ requests = [s \in Srbs |-> <<>>]
  /\ used = 0 /\ empty = TRUE
  /\ cpu = [c \in Cpus |-> Idle]
  /\ ringLock = "none"
  /\ \E B \in SUBSET Buffers : Cardinality(B) = MinBuffers /\ free = SetToSeq(B)
  /\ usedList = {}
  /\ content = [b \in Buffers |-> [n \in 1 .. PageSize |-> Blank]]
  /\ reaper \in {"none", "waiting"} /\ unload = "loaded"
  /\ bug = "none" /\ failures = 0

Goto(c, l) == cpu' = [cpu EXCEPT ![c].pc = l]
Mine(c) == cpu[c].s
Request(c) == requests[Mine(c)][cpu[c].r]
Fails(c) == failures < MaxFailures /\ failures' = failures + 1
Fine == UNCHANGED failures

\* A mutant: only the request that is being made is cleaned up.
FailingLast(c) == cpu' = [cpu EXCEPT ![c].pc = "cleanup", ![c].failing = TRUE]
\* PrepareReadWrite fails: __CleanupSrb takes the requests from the first.
Failing(c) == cpu' = [cpu EXCEPT ![c].pc = "cleanup", ![c].failing = TRUE, ![c].r = 1]

\* The last segment of the request that is being made, and its change.
LastOf(c) == Request(c).segs[Len(Request(c).segs)]
WithLast(c, seg) == [requests EXCEPT ![Mine(c)][cpu[c].r].segs =
                       [@ EXCEPT ![Len(@)] = seg]]
-----------------------------------------------------------------------------
(* PrepareReadWrite. *)

Take(c, s) ==
  /\ cpu[c].pc = "idle" /\ status[s] = "fresh" /\ unload = "loaded"
  /\ status' = [status EXCEPT ![s] = "preparing"]
  /\ cpu' = [cpu EXCEPT ![c] = [Idle EXCEPT !.pc = "alloc", !.s = s]]
  /\ UNCHANGED <<list, memory, disk, requests, used, empty, ringLock, poolVars, reaper, unload, bug, failures>>

\* __AllocRequest up to KeClearEvent.  With nothing to clean __CleanupSrb is done.
AllocRequest(c) ==
  /\ cpu[c].pc = "alloc"
  /\ \/ /\ Fine
        /\ requests' = [requests EXCEPT ![Mine(c)] =
                          Append(@, [first |-> cpu[c].done, segs |-> <<>>, answer |-> "none"])]
        /\ used' = used + 1
        /\ cpu' = [cpu EXCEPT ![c].pc = "clear", ![c].r = @ + 1]
     \/ Fails(c) /\ Failing(c) /\ UNCHANGED <<requests, used>>
  /\ UNCHANGED <<list, memory, disk, status, empty, ringLock, poolVars, reaper, unload, bug>>

ClearEvent(c) ==
  /\ cpu[c].pc = "clear"
  /\ empty' = FALSE
  /\ Goto(c, "cut")
  /\ UNCHANGED <<list, srbVars, used, ringLock, poolVars, reaper, unload, bug, failures>>

\* A segment, mapped by MmMapLockedPagesSpecifyCache when it is to bounce.
CutSegment(c) ==
  /\ cpu[c].pc = "cut"
  /\ LET s == Mine(c)
         x == Cut(list[s], cpu[c].at, NumSectors(s) - cpu[c].done)
         add(seg) == requests' = [requests EXCEPT ![s][cpu[c].r].segs = Append(@, seg)]
     IN  /\ bug' = IF x.ok THEN bug ELSE "ASSERT"
         /\ \/ /\ Fine
               /\ add([x.seg EXCEPT !.mapped = x.seg.bounced])
               /\ cpu' = [cpu EXCEPT ![c].pc = IF x.seg.bounced THEN "get" ELSE "grant",
                                     ![c].at = x.next, ![c].done = @ + x.now]
            \/ x.seg.bounced /\ Fails(c) /\ add(x.seg) /\ Failing(c)
  /\ UNCHANGED <<list, memory, disk, status, used, empty, ringLock, poolVars, reaper, unload>>

\* The lists of __Buffer: the free ones are a stack, of the used ones only who is there matters.
PushFreeList(f, b) == <<b>> \o f
PopFreeList(f) == Tail(f)
PushUsedList(u, b) == u \cup {b}
RemoveUsedList(u, b) == u \ {b}

\* __BufferAlloc gives one of these, or fails.
Unallocated == Buffers \ (ToSet(free) \cup usedList)

\* BufferGet, under __Buffer.Lock: a free buffer, or a new one.
BufferGet(c) ==
  /\ cpu[c].pc = "get"
  /\ LET give(b) == /\ usedList' = PushUsedList(usedList, b)
                    /\ requests' = WithLast(c, [LastOf(c) EXCEPT !.buf = b])
                    /\ Goto(c, IF Mine(c) \in Writes THEN "copyIn" ELSE "grant")
     IN  \/ free # <<>> /\ give(Head(free)) /\ free' = PopFreeList(free) /\ Fine
         \/ free = <<>> /\ Unallocated # {} /\ give(CHOOSE b \in Unallocated : TRUE) /\ UNCHANGED free /\ Fine
         \/ free = <<>> /\ ((Unallocated = {} /\ Fine) \/ Fails(c)) /\ Failing(c)
            /\ UNCHANGED <<requests, free, usedList>>
  /\ UNCHANGED <<list, memory, disk, status, used, empty, ringLock, content, reaper, unload, bug>>

\* RtlCopyMemory between the pieces and the buffer.
Filled(b, m, seg) == [content EXCEPT ![b] =
                        [n \in 1 .. PageSize |-> IF n <= Len(seg.src) THEN m[seg.src[n]] ELSE @[n]]]
\* A mutant: only the first of the two pieces is copied out.
EmptiedFirst(m, x, seg) == [a \in DOMAIN m |-> IF \E n \in DOMAIN seg.src : seg.src[n] = a /\ n <= PageSize - (seg.src[1] % PageSize)
                                               THEN x[CHOOSE n \in DOMAIN seg.src : seg.src[n] = a] ELSE m[a]]
Emptied(m, x, seg) == [a \in DOMAIN m |-> IF \E n \in DOMAIN seg.src : seg.src[n] = a
                                          THEN x[CHOOSE n \in DOMAIN seg.src : seg.src[n] = a] ELSE m[a]]

BufferCopyIn(c) ==
  /\ cpu[c].pc = "copyIn"
  /\ content' = Filled(LastOf(c).buf, memory[Mine(c)], LastOf(c))
  /\ Goto(c, "grant")
  /\ UNCHANGED <<list, srbVars, used, empty, ringLock, free, usedList, reaper, unload, bug, failures>>

(* FrontendGnttabGet.  When all the sectors have a segment the SRB is queued, and goes  *)
(* to the backend.                                                                      *)
Grant(c) ==
  /\ cpu[c].pc = "grant"
  /\ \/ /\ Fine
        /\ requests' = WithLast(c, [LastOf(c) EXCEPT !.granted = TRUE])
        /\ IF cpu[c].done >= NumSectors(Mine(c))
           THEN /\ status' = [status EXCEPT ![Mine(c)] = "prepared"]
                /\ bug' = IF cpu[c].done = NumSectors(Mine(c)) THEN bug ELSE "ASSERT"
                /\ cpu' = [cpu EXCEPT ![c] = Idle]
           ELSE /\ Goto(c, IF Len(Request(c).segs) = MaxSegments THEN "alloc" ELSE "cut")
                /\ UNCHANGED <<status, bug>>
     \/ Fails(c) /\ Failing(c) /\ UNCHANGED <<requests, status, bug>>
  /\ UNCHANGED <<list, memory, disk, used, empty, ringLock, poolVars, reaper, unload>>
-----------------------------------------------------------------------------
(* The backend. *)

(* The k-th unit of a request: the segment's page, or its buffer, from its first sector *)
(* on, and the unit of the SRB's sectors it is.                                         *)
Extent(seg) == 1 .. (seg.last - seg.first + 1) * SectorSize
Before(q, k) == FoldLeft(LAMBDA n, seg : n + Cardinality(Extent(seg)), 0, SubSeq(q.segs, 1, k - 1))
UnitOf(q, k, n) == q.first * SectorSize + Before(q, k) + n
InPage(seg, n) == seg.page * PageSize + seg.first * SectorSize + n - 1
Places(q) == UNION {{<<k, n>> : n \in Extent(q.segs[k])} : k \in DOMAIN q.segs}

Transfer(s, q) ==
  LET value(x) == LET seg == q.segs[x[1]]
                  IN  IF seg.bounced THEN content[seg.buf][x[2]] ELSE memory[s][InPage(seg, x[2])]
      to(a) == {x \in Places(q) : ~ q.segs[x[1]].bounced /\ InPage(q.segs[x[1]], x[2]) = a}
      into(b, n) == {x \in Places(q) : q.segs[x[1]].buf = b /\ x[2] = n}
      of(x) == <<s, UnitOf(q, x[1], x[2])>>
      at(u) == {x \in Places(q) : UnitOf(q, x[1], x[2]) = u}
      One(S) == CHOOSE x \in S : TRUE
  IN  IF s \in Writes
      THEN /\ disk' = [disk EXCEPT ![s] = [u \in DOMAIN @ |-> IF at(u) # {} THEN value(One(at(u))) ELSE @[u]]]
           /\ UNCHANGED <<memory, content>>
      ELSE /\ memory' = [memory EXCEPT ![s] = [a \in DOMAIN @ |-> IF to(a) # {} THEN of(One(to(a))) ELSE @[a]]]
           /\ content' = [b \in Buffers |-> [n \in 1 .. PageSize |->
                            IF into(b, n) # {} THEN of(One(into(b, n))) ELSE content[b][n]]]
           /\ UNCHANGED disk

Answer(s, r) ==
  /\ status[s] = "prepared" /\ requests[s][r].answer = "none"
  /\ \/ /\ Transfer(s, requests[s][r])
        /\ requests' = [requests EXCEPT ![s][r].answer = "okay"]
     \/ requests' = [requests EXCEPT ![s][r].answer = "error"] /\ UNCHANGED <<memory, disk, content>>
  /\ UNCHANGED <<list, status, used, empty, cpu, ringLock, free, usedList, reaper, unload, bug, failures>>
-----------------------------------------------------------------------------
(* PdoCompleteSubmittedRequest for an answer, and __CleanupSrb for a failure:           *)
(* __CleanupRequest segment by segment, then __FreeRequest.                             *)

Respond(c, s, r) ==
  /\ cpu[c].pc = "idle" /\ ringLock = "none"
  /\ status[s] = "prepared" /\ requests[s][r].answer \in {"okay", "error"}
  /\ ringLock' = c
  /\ cpu' = [cpu EXCEPT ![c] = [Idle EXCEPT !.pc = "cleanup", !.s = s, !.r = r]]
  /\ UNCHANGED <<list, srbVars, used, empty, poolVars, reaper, unload, bug, failures>>

Holding(seg) == seg.granted \/ seg.mapped
\* The first segment of the request that still holds something.
Holders(q) == {k \in DOMAIN q.segs : Holding(q.segs[k])}
FirstHolder(q) == CHOOSE k \in Holders(q) : \A j \in Holders(q) : k <= j
SetSeg(c, k, seg) == requests' = [requests EXCEPT ![Mine(c)][cpu[c].r].segs[k] = seg]

\* FrontendGnttabPut, and BufferCopyOut but for __CleanupSrb.
Release(c) ==
  /\ cpu[c].pc = "cleanup" /\ cpu[c].r \in DOMAIN requests[Mine(c)] /\ Holders(Request(c)) # {}
  /\ LET k == FirstHolder(Request(c))
         seg == Request(c).segs[k]
     IN  /\ SetSeg(c, k, [seg EXCEPT !.granted = FALSE])
         /\ cpu' = [cpu EXCEPT ![c].pc = "put", ![c].k = k]
         /\ memory' = IF Mine(c) \in Reads /\ ~ cpu[c].failing /\ seg.buf # "none"
                      THEN [memory EXCEPT ![Mine(c)] = Emptied(@, content[seg.buf], seg)] ELSE memory
  /\ UNCHANGED <<list, disk, status, used, empty, ringLock, poolVars, reaper, unload, bug, failures>>

\* BufferPut, under __Buffer.Lock, and the unmapping.
BufferPut(c) ==
  /\ cpu[c].pc = "put"
  /\ LET b == Request(c).segs[cpu[c].k].buf
     IN  /\ SetSeg(c, cpu[c].k, [Request(c).segs[cpu[c].k] EXCEPT !.buf = "none", !.mapped = FALSE])
         /\ free' = IF b = "none" THEN free ELSE PushFreeList(free, b)
         /\ usedList' = RemoveUsedList(usedList, b)
         /\ bug' = IF b \in usedList \cup {"none"} THEN bug ELSE "ASSERT"
  /\ Goto(c, "cleanup")
  /\ UNCHANGED <<list, memory, disk, status, used, empty, ringLock, content, reaper, unload, failures>>

(* The request is off the list, and counted out; the one that counts to zero goes on to *)
(* set the event.                                                                       *)
FreeRequest(c) ==
  /\ cpu[c].pc = "cleanup" /\ cpu[c].r \in DOMAIN requests[Mine(c)] /\ Holders(Request(c)) = {}
  /\ requests' = [requests EXCEPT ![Mine(c)][cpu[c].r].answer =
                    IF @ = "error" THEN "failed" ELSE "freed"]
  /\ used' = used - 1
  /\ Goto(c, IF used = 1 THEN "set" ELSE "next")
  /\ UNCHANGED <<list, memory, disk, status, empty, ringLock, poolVars, reaper, unload, bug, failures>>

SetEvent(c) ==
  /\ cpu[c].pc = "set"
  /\ empty' = TRUE
  /\ Goto(c, "next")
  /\ UNCHANGED <<list, srbVars, used, ringLock, poolVars, reaper, unload, bug, failures>>

\* The next request of a failing SRB; FdoCompleteSrb for the last answer.
Continue(c) ==
  /\ cpu[c].pc = "next"
  /\ LET s == Mine(c)
         gone == \A q \in ToSet(requests[s]) : q.answer \in {"freed", "failed"}
     IN  IF cpu[c].failing
         THEN /\ cpu' = [cpu EXCEPT ![c].pc = "cleanup", ![c].r = @ + 1]
              /\ UNCHANGED <<status, requests, ringLock>>
         ELSE /\ status' = IF ~ gone THEN status
                           ELSE [status EXCEPT ![s] = IF \E q \in ToSet(requests[s]) : q.answer = "failed"
                                                      THEN "error" ELSE "good"]
              /\ cpu' = [cpu EXCEPT ![c] = Idle] /\ ringLock' = "none"
              /\ UNCHANGED requests
  /\ UNCHANGED <<list, memory, disk, used, empty, poolVars, reaper, unload, bug, failures>>

\* The SRB that failed goes back to the head of FreshSrbs (PdoPrepareFresh).
PutBack(c) ==
  /\ cpu[c].pc = "cleanup" /\ cpu[c].r \notin DOMAIN requests[Mine(c)]
  /\ requests' = [requests EXCEPT ![Mine(c)] = <<>>]
  /\ status' = [status EXCEPT ![Mine(c)] = "fresh"]
  /\ cpu' = [cpu EXCEPT ![c] = Idle]
  /\ UNCHANGED <<list, memory, disk, used, empty, ringLock, poolVars, reaper, unload, bug, failures>>
-----------------------------------------------------------------------------
(* __BufferReaperThread, and BufferTerminate from DriverUnload. *)

\* The wait ends by its timeout of a second, or by ThreadAlert's event.
Wake ==
  /\ reaper = "waiting"
  /\ reaper' = "awake"
  /\ UNCHANGED <<list, srbVars, used, empty, cpu, ringLock, poolVars, unload, bug, failures>>

Reap ==
  /\ reaper = "awake"
  /\ IF unload # "loaded" THEN reaper' = "exited" /\ UNCHANGED free
     ELSE /\ reaper' = "waiting"
          /\ free' = IF Len(free) <= MinBuffers THEN free
                     ELSE SubSeq(free, Len(free) - MinBuffers + 1, Len(free))
  /\ UNCHANGED <<list, srbVars, used, empty, cpu, ringLock, usedList, content, unload, bug, failures>>

\* The disks are gone: no SRB is with the driver, and none comes.
Drained == (\A c \in Cpus : cpu[c] = Idle) /\ \A s \in Srbs : status[s] \in {"fresh", "good", "error"}

\* ThreadAlert, when there is a thread.
Alert ==
  /\ Drained /\ unload = "loaded"
  /\ unload' = IF reaper = "none" THEN "freeing" ELSE "alerted"
  /\ UNCHANGED <<list, srbVars, used, empty, cpu, ringLock, poolVars, reaper, bug, failures>>

Join ==
  /\ unload = "alerted" /\ reaper = "exited"
  /\ unload' = "freeing"
  /\ UNCHANGED <<list, srbVars, used, empty, cpu, ringLock, poolVars, reaper, bug, failures>>

\* The used buffers are freed with the others, one by one, without the lock.
FreeAll ==
  /\ unload = "freeing"
  /\ IF usedList # {} THEN \E b \in usedList : free' = PushFreeList(free, b) /\ usedList' = RemoveUsedList(usedList, b) /\ UNCHANGED unload
     ELSE IF free # <<>> THEN free' = PopFreeList(free) /\ UNCHANGED <<usedList, unload>>
     ELSE unload' = "gone" /\ UNCHANGED <<free, usedList>>
  /\ UNCHANGED <<list, srbVars, used, empty, cpu, ringLock, content, reaper, bug, failures>>
-----------------------------------------------------------------------------
Step(c) ==
  \/ \E s \in Srbs : Take(c, s)
  \/ AllocRequest(c) \/ ClearEvent(c) \/ CutSegment(c) \/ BufferGet(c) \/ BufferCopyIn(c) \/ Grant(c)
  \/ \E s \in Srbs : \E r \in DOMAIN requests[s] : Respond(c, s, r)
  \/ Release(c) \/ BufferPut(c) \/ FreeRequest(c) \/ SetEvent(c) \/ Continue(c) \/ PutBack(c)

Next ==
  /\ bug = "none"
  /\ \/ \E c \in Cpus : Step(c)
     \/ \E s \in Srbs : \E r \in DOMAIN requests[s] : Answer(s, r)
     \/ Wake \/ Reap \/ Alert \/ Join \/ FreeAll

Spec == Init /\ [][Next]_vars
-----------------------------------------------------------------------------
TypeOK ==
  /\ status \in [Srbs -> {"fresh", "preparing", "prepared", "good", "error"}]
  /\ used \in Nat /\ empty \in BOOLEAN
  /\ ringLock \in Cpus \cup {"none"}
  /\ free \in Seq(Buffers) /\ usedList \subseteq Buffers

Listed(s) == FlattenSeq([r \in DOMAIN requests[s] |-> requests[s][r].segs])
SegmentUnits(seg) == IF seg.bounced THEN seg.src ELSE [n \in Extent(seg) |-> InPage(seg, n)]

(* The segments of an SRB that is prepared are, in their order, the units of its        *)
(* scatter-gather list, each once: none of another page, none left out, with as many    *)
(* sectors as they have data, from the sector their request says, and the ASSERTs hold  *)
(* whatever the pages of the list and its start (pdo.c:884-1128).                       *)
RequestsTile ==
  /\ bug = "none"
  /\ \A s \in Srbs : status[s] \in {"prepared", "good", "error"} =>
       /\ FlattenSeq([k \in DOMAIN Listed(s) |-> SegmentUnits(Listed(s)[k])]) = Units(list[s])
       /\ \A k \in DOMAIN Listed(s) : LET seg == Listed(s)[k]
                                     IN  seg.last < SectorsPerPage /\ Cardinality(Extent(seg)) = Len(seg.src)
       /\ \A r \in DOMAIN requests[s] :
            LET q == requests[s][r]
            IN  /\ Len(q.segs) \in 1 .. MaxSegments
                /\ q.first * SectorSize = Len(FlattenSeq([p \in 1 .. r - 1 |->
                                            FlattenSeq([k \in DOMAIN requests[s][p].segs |-> requests[s][p].segs[k].src])]))

(* An SRB that is completed without an error has moved its own data and no other: a     *)
(* READ's pages hold the sectors it asked for, and its other memory is as it was; the   *)
(* sectors of a WRITE hold what its pages held.  No buffer is taken for another SRB     *)
(* before its data is out of it (pdo.c:765-806, 1098-1100, buffer.c:294-375).           *)
Delivered ==
  \A s \in Srbs : status[s] = "good" =>
    LET units == Units(list[s])
    IN  IF s \in Writes THEN disk[s] = [n \in DOMAIN units |-> <<s, n>>]
        ELSE \A a \in DOMAIN memory[s] :
               memory[s][a] = IF \E n \in DOMAIN units : units[n] = a
                              THEN <<s, CHOOSE n \in DOMAIN units : units[n] = a>> ELSE Blank

Held == UNION {UNION {{<<s, r, k>> : k \in {i \in DOMAIN requests[s][r].segs : requests[s][r].segs[i].buf # "none"}}
                       : r \in DOMAIN requests[s]} : s \in Srbs}
BufferOf(h) == requests[h[1]][h[2]].segs[h[3]].buf

(* A buffer is on one list, once; it is used by one segment, of an SRB the driver has,  *)
(* and used for as long as the segment names it: no error of PrepareReadWrite, no       *)
(* completion and no reaping loses one or gives it away (pdo.c:1060-1128, buffer.c).    *)
BuffersOwned ==
  /\ Cardinality(ToSet(free)) = Len(free) /\ ToSet(free) \cap usedList = {}
  /\ usedList = {BufferOf(h) : h \in Held} /\ Cardinality(usedList) = Cardinality(Held)
  /\ \A h \in Held : status[h[1]] \in {"preparing", "prepared"}

(* With no SRB in the driver nothing is held for any, and RequestListEmpty is set:      *)
(* PdoDestroy, which waits for it, goes on (pdo.c:485-494, 728-764).  And the code is   *)
(* there for as long as the reaper runs (driver.c:594-595, buffer.c:274-281).           *)
NothingHeld ==
  /\ Drained => /\ used = 0 /\ empty /\ usedList = {}
                /\ \A s \in Srbs : \A r \in DOMAIN requests[s] : Holders(requests[s][r]) = {}
  /\ unload = "gone" => reaper \in {"none", "exited"} /\ free = <<>>

(* Whatever fails and whoever else runs, a buffer, a grant or a mapping has one owner,  *)
(* and none when its SRB is gone (pdo.c:765-827, buffer.c:271-338).                     *)
ResourcesOwned == TypeOK /\ BuffersOwned /\ NothingHeld
=============================================================================
