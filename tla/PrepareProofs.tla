---------------------------- MODULE PrepareProofs ----------------------------
(***************************************************************************)
(* What Prepare keeps, for any processors, SRBs, scatter-gather lists and  *)
(* buffers.  An SRB is worked on by one processor at a time: the one that  *)
(* took it, or the holder of RingLock once it is prepared.  What that one  *)
(* has yet to free is live and holds what it took, in the order in which   *)
(* it frees it; a request that is freed holds nothing; and the requests    *)
(* that are live are those RequestListUsed counts.                         *)
(*                                                                         *)
(* The first part, which ends in ResourcesAreOwned, leaves open where a    *)
(* segment's data lies: the lists, the positions in them and the sectors   *)
(* may be any.  The second follows the data: PrepareReadWrite is at a      *)
(* place of the list, and the segments before it have the units before it. *)
(***************************************************************************)
EXTENDS Prepare, FiniteSetTheorems, SequenceTheorems, TLAPS

Gone == {"freed", "failed"}
PreparePcs == {"alloc", "clear", "cut", "get", "copyIn", "grant"}
CleanPcs == {"cleanup", "put"}
FreedPcs == {"set", "next"}
Done == {"good", "error"}

\* The types, whatever the data: the set of the records that differ from this one in what
\* a page, a grant or an answer is about.
IsList(l) == Len(l) \in Nat /\ l = [k \in 1 .. Len(l) |-> l[k]]
IsSegment(x) ==
  /\ x \in [src : {x.src}, page : {x.page}, first : {x.first}, last : {x.last}, bounced : BOOLEAN,
            mapped : BOOLEAN, buf : Buffers \cup {"none"}, granted : BOOLEAN]
  /\ x.buf # "none" => x.mapped
AreSegments(l) == IsList(l) /\ \A k \in DOMAIN l : IsSegment(l[k])
IsRequest(q) ==
  /\ q \in [first : {q.first}, segs : {q.segs}, answer : {"none", "okay", "error"} \cup Gone]
  /\ AreSegments(q.segs)
AreOf(l) == IsList(l) /\ \A r \in DOMAIN l : IsRequest(l[r])
AreRequests(f) == f = [s \in Srbs |-> f[s]] /\ \A s \in Srbs : AreOf(f[s])
IsThread(x) ==
  x \in [pc : {"idle"} \cup PreparePcs \cup CleanPcs \cup FreedPcs, s : Srbs \cup {"none"}, r : Nat, k : Nat,
         done : {x.done}, at : {x.at}, failing : BOOLEAN]

Types ==
  /\ AreRequests(requests)
  /\ cpu = [c \in Cpus |-> cpu[c]] /\ \A c \in Cpus : IsThread(cpu[c])
  /\ status \in [Srbs -> {"fresh", "preparing", "prepared"} \cup Done]
  /\ used \in Nat /\ empty \in BOOLEAN
  /\ ringLock \in Cpus \cup {"none"}

(* The processors. *)

\* At "put" there is a segment to put.
PutFits(x, l) == x.pc = "put" => x.r \in DOMAIN l /\ x.k \in DOMAIN l[x.r].segs
\* What PrepareReadWrite has made, and while it cleans up, what it has yet to.
Making(x, l) ==
  /\ ~ x.failing /\ x.r = Len(l) /\ \A i \in DOMAIN l : l[i].answer = "none"
  /\ x.pc # "alloc" => x.r > 0
  /\ x.pc \in {"get", "copyIn", "grant"} => Len(l[x.r].segs) > 0
  /\ x.pc = "get" => l[x.r].segs[Len(l[x.r].segs)].buf = "none" /\ l[x.r].segs[Len(l[x.r].segs)].mapped
Undoing(x, l) ==
  /\ x.failing /\ x.r \in 1 .. Len(l) + 1
  /\ \A i \in DOMAIN l : (i < x.r => l[i].answer \in Gone) /\ (i > x.r => l[i].answer = "none")
  /\ x.r \in DOMAIN l => IF x.pc \in CleanPcs THEN l[x.r].answer = "none" ELSE l[x.r].answer \in Gone
  /\ x.pc \in FreedPcs => x.r \in DOMAIN l
Preparing(x, l) == IF x.pc \in PreparePcs THEN Making(x, l) ELSE Undoing(x, l)
\* FrontendNotifyResponses is at an answer of this SRB.
Completing(x, l) ==
  /\ ~ x.failing /\ x.pc \in CleanPcs \cup FreedPcs /\ x.r \in DOMAIN l
  /\ IF x.pc \in CleanPcs THEN l[x.r].answer \in {"okay", "error"} ELSE l[x.r].answer \in Gone

Works(x, l, state, locked) ==
  /\ x.s \in Srbs /\ PutFits(x, l)
  /\ IF locked THEN state = "prepared" /\ Completing(x, l) ELSE state = "preparing" /\ Preparing(x, l)
Fits(c) ==
  IF cpu[c].pc = "idle" THEN ringLock # c
  ELSE Works(cpu[c], requests[Mine(c)], status[Mine(c)], ringLock = c)
Busy(c) == cpu[c].pc # "idle"
Alone == \A c, d \in Cpus : Busy(c) /\ Busy(d) /\ Mine(c) = Mine(d) => c = d
CpusFit == (\A c \in Cpus : Fits(c)) /\ Alone

(* The SRBs. *)

AllGone(l) == \A r \in DOMAIN l : l[r].answer \in Gone
GoneHolds(l) == \A r \in DOMAIN l : l[r].answer \in Gone => Holders(l[r]) = {}
Stage(l, state) == /\ state = "fresh" => l = <<>>
                   /\ state \in Done => AllGone(l)
                   /\ GoneHolds(l)
SrbsFit == \A s \in Srbs : Stage(requests[s], status[s])

(* RequestListUsed and RequestListEmpty. *)

Live(l, r) == r \in DOMAIN l /\ l[r].answer \notin Gone
LiveIn(f) == {x \in Srbs \X Nat : Live(f[x[1]], x[2])}
Counts(n, L) == IsFiniteSet(L) /\ n = Cardinality(L)
Counted == Counts(used, LiveIn(requests))
EventFits == used = 0 /\ ~ empty => \E c \in Cpus : cpu[c].pc = "set"

(* __Buffer. *)

Names(l, r, k, b) == r \in DOMAIN l /\ k \in DOMAIN l[r].segs /\ l[r].segs[k].buf = b
UsersIn(f) == {h \in Srbs \X Nat \X Nat \X Buffers : Names(f[h[1]], h[2], h[3], h[4])}
Once(l) == \A i, j \in DOMAIN l : l[i] = l[j] => i = j
FreeFits(f, u) == f \in Seq(Buffers) /\ Once(f) /\ u \in SUBSET Buffers /\ \A i \in DOMAIN f : f[i] \notin u
Named(u, U) == /\ \A h \in U : h[4] \in u
               /\ \A b \in u : \E h \in U : h[4] = b
               /\ \A g, h \in U : g[4] = h[4] => g = h
PoolFits == FreeFits(free, usedList) /\ Named(usedList, UsersIn(requests))

(* DriverUnload. *)

Quiet == (\A c \in Cpus : cpu[c].pc = "idle") /\ \A s \in Srbs : status[s] \in {"fresh"} \cup Done
Unloading ==
  /\ unload # "loaded" => Quiet
  /\ unload \in {"freeing", "gone"} => reaper \in {"none", "exited"}
  /\ unload = "gone" => free = <<>>

PInv == Types /\ CpusFit /\ SrbsFit /\ Counted /\ EventFits /\ PoolFits /\ Unloading
-----------------------------------------------------------------------------
(* Lists, and what one change of one SRB's requests leaves as it was. *)

\* The positions of a list.
LEMMA ListIs ==
  ASSUME NEW l, IsList(l)
  PROVE  Len(l) \in Nat /\ DOMAIN l = 1 .. Len(l)
BY DEF IsList

\* A list is a sequence of whatever its elements are.
LEMMA ListIsSeq ==
  ASSUME NEW l, IsList(l), NEW S, \A k \in DOMAIN l : l[k] \in S
  PROVE  l \in Seq(S)
BY ListIs DEF IsList

\* A sequence is a list.
LEMMA SeqIsList ==
  ASSUME NEW S, NEW l \in Seq(S)
  PROVE  IsList(l)
BY LenProperties DEF IsList

Appended(m, l, e) ==
  /\ IsList(m) /\ Len(m) = Len(l) + 1 /\ DOMAIN m = 1 .. Len(l) + 1
  /\ m[Len(l) + 1] = e /\ \A i \in 1 .. Len(l) : m[i] = l[i]
Replaced(m, l, k, e) ==
  /\ IsList(m) /\ Len(m) = Len(l) /\ DOMAIN m = 1 .. Len(l)
  /\ m[k] = e /\ \A i \in 1 .. Len(l) : i # k => m[i] = l[i]

\* Append.
LEMMA AppendIs ==
  ASSUME NEW l, IsList(l), NEW e, NEW m, m = Append(l, e)
  PROVE  Appended(m, l, e)
<1>1. PICK S : S = ToSet(l) \cup {e}
  OBVIOUS
<1>2. l \in Seq(S) /\ e \in S
  BY <1>1, ListIsSeq DEF ToSet
<1>3. /\ m \in Seq(S) /\ Len(m) = Len(l) + 1 /\ m[Len(l) + 1] = e
      /\ \A i \in 1 .. Len(l) : m[i] = l[i]
  BY <1>2, AppendProperties
<1>4. IsList(m)
  BY <1>3, SeqIsList
<1> QED
  BY <1>3, <1>4, ListIs DEF Appended

\* A list with another element at a place.
LEMMA ReplaceIs ==
  ASSUME NEW l, IsList(l), NEW k \in DOMAIN l, NEW e, NEW m, m = [l EXCEPT ![k] = e]
  PROVE  Replaced(m, l, k, e)
<1>1. DOMAIN m = 1 .. Len(l) /\ m[k] = e /\ \A i \in 1 .. Len(l) : i # k => m[i] = l[i]
  BY ListIs
<1>2. PICK S : S = ToSet(l) \cup {e}
  OBVIOUS
<1>3. m \in [1 .. Len(l) -> S]
  BY <1>2, ListIs DEF ToSet, IsList
<1>4. m \in Seq(S) /\ Len(m) = Len(l)
  <2>1. PICK n \in Nat : n = Len(l)
    BY ListIs
  <2>2. m \in [1 .. n -> S]
    BY <1>3, <2>1
  <2>3. m \in Seq(S)
    BY <2>2, SeqDef
  <2>4. Len(m) \in Nat /\ 1 .. Len(m) = 1 .. n
    BY <2>2, <2>3, LenProperties
  <2>5. Len(m) = n
    <3>1. PICK j \in Nat : j = Len(m)
      BY <2>4
    <3>2. 1 .. j = 1 .. n
      BY <2>4, <3>1
    <3>3. CASE j > n
      <4>1. j \in 1 .. j /\ j \notin 1 .. n
        BY <3>3
      <4> QED
        BY <3>2, <4>1
    <3>4. CASE j < n
      <4>1. n \in 1 .. n /\ n \notin 1 .. j
        BY <3>4
      <4> QED
        BY <3>2, <4>1
    <3> QED
      BY <3>1, <3>3, <3>4
  <2> QED
    BY <2>1, <2>3, <2>5
<1> QED
  BY <1>1, <1>4, SeqIsList DEF Replaced

\* The list of one SRB is another.
Changed(g, f, s, l) == g = [z \in Srbs |-> g[z]] /\ g[s] = l /\ \A z \in Srbs : z # s => g[z] = f[z]

\* As an assignment makes it.
LEMMA ChangeIs ==
  ASSUME NEW f, f = [z \in Srbs |-> f[z]], NEW s \in Srbs, NEW l, NEW g, g = [f EXCEPT ![s] = l]
  PROVE  Changed(g, f, s, l)
BY DEF Changed

\* The other SRBs have the requests they had.
LEMMA ChangedFit ==
  ASSUME NEW f, AreRequests(f), NEW s \in Srbs, NEW l, AreOf(l), NEW g, Changed(g, f, s, l)
  PROVE  AreRequests(g)
BY DEF AreRequests, Changed

SameLive(m, l) == \A r \in Nat : Live(m, r) <=> Live(l, r)
MoreLive(m, l, n) == \A r \in Nat : Live(m, r) <=> Live(l, r) \/ r = n
LessLive(m, l, n) == \A r \in Nat : Live(m, r) <=> Live(l, r) /\ r # n

\* What is live.
LEMMA LiveKept ==
  ASSUME NEW f, NEW s \in Srbs, NEW l, NEW g, Changed(g, f, s, l), SameLive(l, f[s])
  PROVE  LiveIn(g) = LiveIn(f)
<1>1. \A z \in Srbs : \A r \in Nat : Live(g[z], r) <=> Live(f[z], r)
  BY DEF Changed, SameLive
<1> QED
  BY <1>1 DEF LiveIn

\* One more request is live.
LEMMA LiveMore ==
  ASSUME NEW f, NEW s \in Srbs, NEW l, NEW g, Changed(g, f, s, l), NEW n \in Nat, MoreLive(l, f[s], n)
  PROVE  LiveIn(g) = LiveIn(f) \cup {<<s, n>>}
<1>1. \A z \in Srbs : \A r \in Nat : Live(g[z], r) <=> Live(f[z], r) \/ (z = s /\ r = n)
  BY DEF Changed, MoreLive
<1> QED
  BY <1>1 DEF LiveIn

\* One less is.
LEMMA LiveLess ==
  ASSUME NEW f, NEW s \in Srbs, NEW l, NEW g, Changed(g, f, s, l), NEW n \in Nat, LessLive(l, f[s], n)
  PROVE  LiveIn(g) = LiveIn(f) \ {<<s, n>>}
<1>1. \A z \in Srbs : \A r \in Nat : Live(g[z], r) <=> Live(f[z], r) /\ ~ (z = s /\ r = n)
  BY DEF Changed, LessLive
<1> QED
  BY <1>1 DEF LiveIn

SameUse(m, l) == \A r, k \in Nat : \A b \in Buffers : Names(m, r, k, b) <=> Names(l, r, k, b)
MoreUse(m, l, n, j, a) ==
  \A r, k \in Nat : \A b \in Buffers : Names(m, r, k, b) <=> Names(l, r, k, b) \/ (r = n /\ k = j /\ b = a)
LessUse(m, l, n, j) ==
  \A r, k \in Nat : \A b \in Buffers : Names(m, r, k, b) <=> Names(l, r, k, b) /\ ~ (r = n /\ k = j)

\* What is used.
LEMMA UseKept ==
  ASSUME NEW f, NEW s \in Srbs, NEW l, NEW g, Changed(g, f, s, l), SameUse(l, f[s])
  PROVE  UsersIn(g) = UsersIn(f)
<1>1. \A z \in Srbs : \A r, k \in Nat : \A b \in Buffers : Names(g[z], r, k, b) <=> Names(f[z], r, k, b)
  BY DEF Changed, SameUse
<1> QED
  BY <1>1 DEF UsersIn

\* One more buffer is used.
LEMMA UseMore ==
  ASSUME NEW f, NEW s \in Srbs, NEW l, NEW g, Changed(g, f, s, l), NEW n \in Nat, NEW j \in Nat, NEW a \in Buffers,
         MoreUse(l, f[s], n, j, a), NEW u, Named(u, UsersIn(f)), a \notin u
  PROVE  Named(u \cup {a}, UsersIn(g))
<1>1. \A z \in Srbs : \A r, k \in Nat : \A b \in Buffers :
        Names(g[z], r, k, b) <=> Names(f[z], r, k, b) \/ (z = s /\ r = n /\ k = j /\ b = a)
  BY DEF Changed, MoreUse
<1>2. PICK h : h = <<s, n, j, a>>
  OBVIOUS
<1>3. UsersIn(g) = UsersIn(f) \cup {h}
  BY <1>1, <1>2 DEF UsersIn
<1>4. h[4] = a
  BY <1>2
<1> QED
  BY <1>3, <1>4 DEF Named

\* A segment no longer names the buffer it did.
LEMMA UseLess ==
  ASSUME NEW f, NEW s \in Srbs, NEW l, NEW g, Changed(g, f, s, l), NEW n \in Nat, NEW j \in Nat, NEW a \in Buffers,
         Names(f[s], n, j, a), LessUse(l, f[s], n, j), NEW u, Named(u, UsersIn(f))
  PROVE  a \in u /\ Named(u \ {a}, UsersIn(g))
<1>1. \A z \in Srbs : \A r, k \in Nat : \A b \in Buffers :
        Names(g[z], r, k, b) <=> Names(f[z], r, k, b) /\ ~ (z = s /\ r = n /\ k = j)
  BY DEF Changed, LessUse
<1>2. PICK h : h = <<s, n, j, a>>
  OBVIOUS
<1>3. h \in UsersIn(f) /\ h[4] = a
  BY <1>2 DEF UsersIn
<1>4. ASSUME NEW x \in UsersIn(f), x[1] = s, x[2] = n, x[3] = j
      PROVE  x = h
  <2>1. x \in Srbs \X Nat \X Nat \X Buffers /\ x[4] = f[s][n].segs[j].buf
    BY <1>4 DEF UsersIn, Names
  <2>2. x = <<x[1], x[2], x[3], x[4]>>
    BY <2>1
  <2>3. x[4] = a
    BY <2>1 DEF Names
  <2> QED
    BY <1>2, <1>4, <2>2, <2>3
<1>5. UsersIn(g) = UsersIn(f) \ {h}
  <2>1. \A x \in UsersIn(g) : x \in UsersIn(f) /\ x # h
    BY <1>1, <1>2 DEF UsersIn
  <2>2. \A x \in UsersIn(f) : x # h => x \in UsersIn(g)
    BY <1>1, <1>4 DEF UsersIn
  <2> QED
    BY <2>1, <2>2
<1> QED
  BY <1>3, <1>5 DEF Named

-----------------------------------------------------------------------------
(* One step of a processor. *)

States == {"fresh", "preparing", "prepared"} \cup Done
Answers == {"none", "okay", "error"} \cup Gone
HasThread(y, s, l, st, locked) ==
  IF y.pc = "idle" THEN ~ locked ELSE y.s = s /\ Works(y, l, st, locked)

\* The parts of the invariant.
LEMMA Parts ==
  ASSUME PInv
  PROVE  Types /\ CpusFit /\ SrbsFit /\ Counted /\ EventFits /\ PoolFits /\ Unloading
BY DEF PInv

\* What the requests of an SRB are.
LEMMA RequestsAre ==
  ASSUME PInv, NEW s \in Srbs
  PROVE  requests = [z \in Srbs |-> requests[z]] /\ AreOf(requests[s]) /\ status[s] \in States /\ Stage(requests[s], status[s])
BY Parts DEF Types, AreRequests, SrbsFit, States

\* A processor that is at work has an SRB of its own.
LEMMA AtWork ==
  ASSUME PInv, NEW c \in Cpus, cpu[c].pc # "idle"
  PROVE  /\ IsThread(cpu[c]) /\ Mine(c) \in Srbs /\ unload = "loaded"
         /\ Works(cpu[c], requests[Mine(c)], status[Mine(c)], ringLock = c)
         /\ \A d \in Cpus : d # c /\ Busy(d) => Mine(d) # Mine(c)
<1>1. IsThread(cpu[c]) /\ unload = "loaded"
  BY Parts DEF Types, Unloading, Quiet
<1>2. Works(cpu[c], requests[Mine(c)], status[Mine(c)], ringLock = c)
  BY Parts DEF CpusFit, Fits
<1>3. Mine(c) \in Srbs
  BY <1>2 DEF Works, Mine
<1>4. \A d \in Cpus : d # c /\ Busy(d) => Mine(d) # Mine(c)
  BY Parts DEF CpusFit, Alone, Busy
<1> QED
  BY <1>1, <1>2, <1>3, <1>4

\* An idle processor turns to an SRB, or one at work goes on with its own.
LEMMA StepKeeps ==
  ASSUME PInv, NEW c \in Cpus, NEW s \in Srbs, NEW y, IsThread(y), NEW l, AreOf(l), NEW st \in States,
         cpu' = [cpu EXCEPT ![c] = y], Changed(requests', requests, s, l), status' = [status EXCEPT ![s] = st],
         \A d \in Cpus : d # c /\ Busy(d) => Mine(d) # s,
         \A d \in Cpus : d # c => (ringLock' = d <=> ringLock = d),
         HasThread(y, s, l, st, ringLock' = c), Stage(l, st),
         unload = "loaded", unload' = unload,
         ringLock' \in Cpus \cup {"none"}, used' \in Nat, empty' \in BOOLEAN
  PROVE  Types' /\ CpusFit' /\ SrbsFit' /\ Unloading'
<1>1. /\ AreRequests(requests) /\ cpu = [d \in Cpus |-> cpu[d]] /\ \A d \in Cpus : IsThread(cpu[d])
      /\ status \in [Srbs -> States]
  BY Parts DEF Types, States
<1>2. AreRequests(requests')
  BY <1>1, ChangedFit
<1>3. cpu' = [d \in Cpus |-> cpu'[d]] /\ cpu'[c] = y /\ \A d \in Cpus : d # c => cpu'[d] = cpu[d]
  BY <1>1
<1>4. status' \in [Srbs -> States] /\ status'[s] = st /\ \A z \in Srbs : z # s => status'[z] = status[z]
  BY <1>1
<1>5. requests'[s] = l /\ \A z \in Srbs : z # s => requests'[z] = requests[z]
  BY DEF Changed
<1>6. Types'
  BY <1>1, <1>2, <1>3, <1>4 DEF Types, States
<1>7. ASSUME NEW d \in Cpus
      PROVE  Fits(d)'
  <2>1. CASE d = c
    BY <1>3, <1>4, <1>5, <2>1 DEF Fits, HasThread, Mine
  <2>2. CASE d # c /\ ~ Busy(d)
    BY <1>3, <2>2, Parts DEF Fits, Busy, CpusFit
  <2>3. CASE d # c /\ Busy(d)
    <3>1. Mine(d) # s /\ Mine(d) \in Srbs /\ Fits(d)
      BY <2>3, AtWork, Parts DEF Busy, CpusFit
    <3>2. requests'[Mine(d)] = requests[Mine(d)] /\ status'[Mine(d)] = status[Mine(d)] /\ cpu'[d] = cpu[d]
      BY <1>3, <1>4, <1>5, <2>3, <3>1
    <3>3. (ringLock' = d) = (ringLock = d)
      BY <2>3
    <3> QED
      BY <3>1, <3>2, <3>3, <2>3 DEF Fits, Busy, Mine
  <2> QED
    BY <2>1, <2>2, <2>3
<1>8. Alone'
  <2>1. \A d \in Cpus : d # c /\ Busy(d)' => Busy(d) /\ Mine(d)' # s
    BY <1>3 DEF Busy, Mine
  <2>2. Busy(c)' => Mine(c)' = s
    BY <1>3 DEF Busy, Mine, HasThread
  <2>3. \A d, e \in Cpus : d # c /\ e # c /\ Busy(d)' /\ Busy(e)' /\ Mine(d)' = Mine(e)' => d = e
    BY <1>3, Parts DEF Busy, Mine, CpusFit, Alone
  <2> QED
    BY <2>1, <2>2, <2>3 DEF Alone
<1>9. SrbsFit'
  BY <1>4, <1>5, Parts DEF SrbsFit
<1> QED
  BY <1>6, <1>7, <1>8, <1>9 DEF CpusFit, Unloading

\* The count, the event and the pool, when nothing is freed.
LEMMA RestKeeps ==
  ASSUME PInv, NEW c \in Cpus, NEW y, cpu[c].pc # "set", cpu' = [cpu EXCEPT ![c] = y],
         NEW s \in Srbs, NEW l, Changed(requests', requests, s, l)
  PROVE  /\ SameLive(l, requests[s]) /\ used' = used => Counted'
         /\ used' = used /\ empty' = empty => EventFits'
         /\ SameUse(l, requests[s]) /\ free' = free /\ usedList' = usedList => PoolFits'
<1>1. SameLive(l, requests[s]) /\ used' = used => Counted'
  <2>1. SameLive(l, requests[s]) => LiveIn(requests') = LiveIn(requests)
    BY LiveKept
  <2> QED
    BY <2>1, Parts DEF Counted
<1>2. used' = used /\ empty' = empty => EventFits'
  <2>1. \A d \in Cpus : cpu[d].pc = "set" => cpu'[d] = cpu[d]
    BY Parts DEF Types
  <2> QED
    BY <2>1, Parts DEF EventFits
<1>3. SameUse(l, requests[s]) /\ free' = free /\ usedList' = usedList => PoolFits'
  <2>1. SameUse(l, requests[s]) => UsersIn(requests') = UsersIn(requests)
    BY UseKept
  <2> QED
    BY <2>1, Parts DEF PoolFits
<1> QED
  BY <1>1, <1>2, <1>3

\* Nothing changes for a list that stays as it is.
LEMMA Unchanged ==
  ASSUME PInv, NEW s \in Srbs, requests' = requests
  PROVE  Changed(requests', requests, s, requests[s]) /\ SameLive(requests[s], requests[s]) /\ SameUse(requests[s], requests[s])
BY RequestsAre DEF Changed, SameLive, SameUse

\* A step that leaves the requests, the SRBs, the pool and RequestListUsed alone.
LEMMA MoveKeeps ==
  ASSUME PInv, NEW c \in Cpus, cpu[c].pc # "idle", cpu[c].pc # "set", NEW y, IsThread(y), cpu' = [cpu EXCEPT ![c] = y],
         y.pc # "idle", y.s = Mine(c), Works(y, requests[Mine(c)], status[Mine(c)], ringLock = c),
         requests' = requests, status' = status, ringLock' = ringLock, used' = used, empty' = empty,
         free' = free, usedList' = usedList, unload' = unload
  PROVE  PInv'
<1>1. Mine(c) \in Srbs /\ unload = "loaded" /\ \A d \in Cpus : d # c /\ Busy(d) => Mine(d) # Mine(c)
  BY AtWork
<1>2. PICK s \in Srbs : s = Mine(c)
  BY <1>1
<1>3. AreOf(requests[s]) /\ status[s] \in States /\ Stage(requests[s], status[s])
  BY RequestsAre
<1>4. Changed(requests', requests, s, requests[s]) /\ SameLive(requests[s], requests[s]) /\ SameUse(requests[s], requests[s])
  BY Unchanged
<1>5. status' = [status EXCEPT ![s] = status[s]]
  BY Parts DEF Types
<1>6. used' \in Nat /\ empty' \in BOOLEAN /\ ringLock' \in Cpus \cup {"none"}
  BY Parts DEF Types
<1>7. HasThread(y, s, requests[s], status[s], ringLock' = c)
  BY <1>2 DEF HasThread
<1>8. \A d \in Cpus : d # c => (ringLock' = d <=> ringLock = d)
  OBVIOUS
<1>9. Types' /\ CpusFit' /\ SrbsFit' /\ Unloading'
  BY <1>1, <1>2, <1>3, <1>4, <1>5, <1>6, <1>7, <1>8, StepKeeps
<1>10. Counted' /\ EventFits' /\ PoolFits'
  BY <1>4, RestKeeps
<1> QED
  BY <1>9, <1>10 DEF PInv

-----------------------------------------------------------------------------
(* What the steps do to a thread, a request and a segment. *)

\* A processor with nothing to do, and one that takes an SRB or an answer.
LEMMA IdleIs ==
  /\ IsThread(Idle)
  /\ \A s \in Srbs : IsThread([Idle EXCEPT !.pc = "alloc", !.s = s])
  /\ \A s \in Srbs, r \in Nat : IsThread([Idle EXCEPT !.pc = "cleanup", !.s = s, !.r = r])
BY DEF Idle, IsThread, CleanPcs, PreparePcs, FreedPcs

\* A request with other segments, and with another answer.
LEMMA RequestIs ==
  ASSUME NEW q, IsRequest(q)
  PROVE  /\ AreSegments(q.segs) /\ q.answer \in Answers
         /\ \A l : AreSegments(l) => /\ IsRequest([q EXCEPT !.segs = l])
                                     /\ [q EXCEPT !.segs = l].segs = l /\ [q EXCEPT !.segs = l].answer = q.answer
         /\ \A a \in Answers : /\ IsRequest([q EXCEPT !.answer = a])
                               /\ [q EXCEPT !.answer = a].segs = q.segs /\ [q EXCEPT !.answer = a].answer = a
BY DEF IsRequest, Answers, Gone

\* The request PrepareReadWrite begins with.
LEMMA NewRequestIs ==
  ASSUME NEW d, NEW q, q = [first |-> d, segs |-> <<>>, answer |-> "none"]
  PROVE  IsRequest(q) /\ q.answer = "none" /\ q.segs = <<>>
BY DEF IsRequest, AreSegments, IsList, Gone

\* Segments that have another last, or one more.
LEMMA SegmentsReplaced ==
  ASSUME NEW l, AreSegments(l), NEW k \in DOMAIN l, NEW seg, IsSegment(seg), NEW m, m = [l EXCEPT ![k] = seg]
  PROVE  AreSegments(m) /\ Replaced(m, l, k, seg)
<1>1. Replaced(m, l, k, seg)
  BY ReplaceIs DEF AreSegments
<1> QED
  BY <1>1, ListIs DEF AreSegments, Replaced

\* One more.
LEMMA SegmentsAppended ==
  ASSUME NEW l, AreSegments(l), NEW seg, IsSegment(seg), NEW m, m = Append(l, seg)
  PROVE  AreSegments(m) /\ Appended(m, l, seg)
<1>1. Appended(m, l, seg)
  BY AppendIs DEF AreSegments
<1> QED
  BY <1>1, ListIs DEF AreSegments, Appended

\* The requests of an SRB with another in a place, or one more.
LEMMA RequestReplaced ==
  ASSUME NEW l, AreOf(l), NEW r \in DOMAIN l, NEW q, IsRequest(q), NEW m, m = [l EXCEPT ![r] = q]
  PROVE  AreOf(m) /\ Replaced(m, l, r, q)
<1>1. Replaced(m, l, r, q)
  BY ReplaceIs DEF AreOf
<1> QED
  BY <1>1, ListIs DEF AreOf, Replaced

\* One more.
LEMMA RequestAppended ==
  ASSUME NEW l, AreOf(l), NEW q, IsRequest(q), NEW m, m = Append(l, q)
  PROVE  AreOf(m) /\ Appended(m, l, q)
<1>1. Appended(m, l, q)
  BY AppendIs DEF AreOf
<1> QED
  BY <1>1, ListIs DEF AreOf, Appended

\* A segment as Cut makes it, and with the fields the steps change.
LEMMA CutIs ==
  ASSUME NEW l, NEW at, NEW left, NEW seg, seg = Cut(l, at, left).seg
  PROVE  IsSegment(seg) /\ seg.buf = "none"
<1>2. ASSUME NEW src, NEW last, seg = [NoSegment EXCEPT !.src = src, !.last = last, !.bounced = TRUE]
      PROVE  IsSegment(seg) /\ seg.buf = "none" /\ ~ seg.mapped /\ ~ seg.granted /\ seg.bounced \in BOOLEAN
  BY <1>2 DEF NoSegment, IsSegment
<1>3. ASSUME NEW p, seg = Direct(p, left).seg
      PROVE  IsSegment(seg) /\ seg.buf = "none" /\ ~ seg.mapped /\ ~ seg.granted /\ seg.bounced \in BOOLEAN
  <2>1. PICK src, page, first, last :
          /\ src = Addresses(p) /\ page = p.addr \div PageSize
          /\ first = ((p.addr % PageSize) + SectorSize - 1) \div SectorSize
          /\ last = first + Least(left, SectorsPerPage - first) - 1
    OBVIOUS
  <2>2. seg = [NoSegment EXCEPT !.src = src, !.page = page, !.first = first, !.last = last]
    BY <1>3, <2>1 DEF Direct
  <2> QED
    BY <2>2 DEF NoSegment, IsSegment
<1>4. ASSUME NEW p, seg = Bounce(l, p, left).seg
      PROVE  IsSegment(seg) /\ seg.buf = "none" /\ ~ seg.mapped /\ ~ seg.granted /\ seg.bounced \in BOOLEAN
  <2>1. PICK now : now = Least(left, SectorsPerPage)
    OBVIOUS
  <2>2. PICK more : more = (p.len < now * SectorSize /\ p.next.elem <= Len(l))
    OBVIOUS
  <2>3. PICK q : q = IF more THEN GetPhysAddr(l, p.next, p.len) ELSE p
    OBVIOUS
  <2>4. PICK src, last : src = Addresses(p) \o (IF more THEN Addresses(q) ELSE <<>>) /\ last = now - 1
    OBVIOUS
  <2>5. seg = [NoSegment EXCEPT !.src = src, !.last = last, !.bounced = TRUE]
    BY <1>4, <2>1, <2>2, <2>3, <2>4 DEF Bounce
  <2> QED
    BY <1>2, <2>5
<1>5. IsSegment(seg) /\ seg.buf = "none" /\ ~ seg.mapped /\ ~ seg.granted /\ seg.bounced \in BOOLEAN
  <2>1. PICK p : p = GetPhysAddr(l, at, 0)
    OBVIOUS
  <2>2. seg = Direct(p, left).seg \/ seg = Bounce(l, p, left).seg
    BY <2>1 DEF Cut
  <2> QED
    BY <1>3, <1>4, <2>2
<1> QED
  BY <1>5

\* A segment that is changed.
LEMMA SegmentIs ==
  ASSUME NEW seg, IsSegment(seg)
  PROVE  /\ seg.buf \in Buffers \cup {"none"}
         /\ \A b \in Buffers : seg.mapped => IsSegment([seg EXCEPT !.buf = b]) /\ [seg EXCEPT !.buf = b].buf = b
         /\ \A g \in BOOLEAN : IsSegment([seg EXCEPT !.granted = g]) /\ [seg EXCEPT !.granted = g].buf = seg.buf
         /\ IsSegment([seg EXCEPT !.buf = "none", !.mapped = FALSE])
         /\ [seg EXCEPT !.buf = "none", !.mapped = FALSE].buf = "none"
BY DEF IsSegment

-----------------------------------------------------------------------------
(* PrepareReadWrite keeps the invariant. *)

\* What a processor in PrepareReadWrite knows.
LEMMA MakingNow ==
  ASSUME PInv, NEW c \in Cpus, cpu[c].pc \in PreparePcs, NEW x, x = cpu[c], NEW l, l = requests[Mine(c)]
  PROVE  /\ IsThread(x) /\ x.s = Mine(c) /\ x.s \in Srbs /\ AreOf(l) /\ Making(x, l)
         /\ status[Mine(c)] = "preparing" /\ ringLock # c
         /\ cpu[c].pc # "idle" /\ cpu[c].pc # "set" /\ unload = "loaded"
         /\ \A d \in Cpus : d # c /\ Busy(d) => Mine(d) # Mine(c)
<1>1. cpu[c].pc # "idle" /\ cpu[c].pc # "set" /\ cpu[c].pc \notin CleanPcs \cup FreedPcs
  BY DEF PreparePcs, CleanPcs, FreedPcs
<1>2. /\ IsThread(x) /\ x.s = Mine(c) /\ x.s \in Srbs /\ unload = "loaded"
      /\ Works(x, l, status[Mine(c)], ringLock = c)
      /\ \A d \in Cpus : d # c /\ Busy(d) => Mine(d) # Mine(c)
  BY <1>1, AtWork DEF Mine
<1>3. AreOf(l)
  BY <1>2, RequestsAre
<1>4. ringLock # c
  BY <1>1, <1>2 DEF Works, Completing
<1> QED
  BY <1>1, <1>2, <1>3, <1>4 DEF Works, Preparing

\* While the requests are made, no other is.
LEMMA MakingWorks ==
  ASSUME NEW y, y.pc \in PreparePcs, y.s \in Srbs, NEW l, Making(y, l), NEW locked \in BOOLEAN, ~ locked
  PROVE  Works(y, l, "preparing", locked)
BY DEF Works, Preparing, PutFits, PreparePcs

\* From an error on, the requests are undone from the first.
LEMMA FailingIs ==
  ASSUME NEW x, IsThread(x), x.s \in Srbs, NEW l, IsList(l), \A i \in DOMAIN l : l[i].answer = "none",
         NEW y, y = [x EXCEPT !.pc = "cleanup", !.failing = TRUE, !.r = 1], NEW locked \in BOOLEAN, ~ locked
  PROVE  IsThread(y) /\ y.s = x.s /\ y.pc = "cleanup" /\ Works(y, l, "preparing", locked)
<1>1. IsThread(y) /\ y.s = x.s /\ y.pc = "cleanup"
  BY DEF IsThread, CleanPcs
<1>2. y.failing /\ y.r = 1
  BY DEF IsThread
<1>3. y.pc \notin PreparePcs /\ y.pc \notin FreedPcs /\ y.pc \in CleanPcs
  BY <1>1 DEF PreparePcs, CleanPcs, FreedPcs
<1>4. Undoing(y, l)
  BY <1>2, <1>3, ListIs DEF Undoing
<1> QED
  BY <1>1, <1>3, <1>4 DEF Works, Preparing, PutFits

\* An error that changes nothing.
LEMMA FailingKeeps ==
  ASSUME PInv, NEW c \in Cpus, cpu[c].pc \in PreparePcs, Failing(c),
         requests' = requests, status' = status, ringLock' = ringLock, used' = used, empty' = empty,
         free' = free, usedList' = usedList, unload' = unload
  PROVE  PInv'
<1>1. PICK x, l : x = cpu[c] /\ l = requests[Mine(c)]
  OBVIOUS
<1>2. /\ IsThread(x) /\ x.s = Mine(c) /\ x.s \in Srbs /\ AreOf(l) /\ Making(x, l)
      /\ status[Mine(c)] = "preparing" /\ ringLock # c
      /\ cpu[c].pc # "idle" /\ cpu[c].pc # "set"
  BY <1>1, MakingNow
<1>3. PICK y : y = [x EXCEPT !.pc = "cleanup", !.failing = TRUE, !.r = 1]
  OBVIOUS
<1>4. cpu' = [cpu EXCEPT ![c] = y]
  BY <1>1, <1>3 DEF Failing
<1>5. IsThread(y) /\ y.s = x.s /\ y.pc = "cleanup" /\ Works(y, l, "preparing", ringLock = c)
  BY <1>2, <1>3, FailingIs DEF AreOf, Making
<1> QED
  BY <1>1, <1>2, <1>4, <1>5, MoveKeeps

\* A processor takes an SRB from FreshSrbs.
LEMMA TakeKeeps ==
  ASSUME PInv, NEW c \in Cpus, NEW s \in Srbs, Take(c, s)
  PROVE  PInv'
<1>1. PICK y : y = [Idle EXCEPT !.pc = "alloc", !.s = s]
  OBVIOUS
<1>2. cpu' = [cpu EXCEPT ![c] = y] /\ status' = [status EXCEPT ![s] = "preparing"] /\ status[s] = "fresh"
  BY <1>1 DEF Take
<1>3. IsThread(y) /\ y.pc = "alloc" /\ y.s = s /\ ~ y.failing /\ y.r = 0
  BY <1>1, IdleIs DEF Idle
<1>4. requests[s] = <<>> /\ AreOf(requests[s]) /\ GoneHolds(requests[s])
  BY <1>2, RequestsAre DEF Stage
<1>5. ringLock # c /\ cpu[c].pc = "idle"
  BY Parts DEF Take, CpusFit, Fits
<1>6. ASSUME NEW d \in Cpus, d # c, Busy(d)
      PROVE  Mine(d) # s
  <2>1. Works(cpu[d], requests[Mine(d)], status[Mine(d)], ringLock = d)
    BY <1>6, AtWork DEF Busy
  <2> QED
    BY <1>2, <2>1 DEF Works
<1>7. Making(y, requests[s])
  BY <1>3, <1>4 DEF Making
<1>8. HasThread(y, s, requests[s], "preparing", ringLock' = c)
  <2>1. ringLock' # c /\ y.pc \in PreparePcs /\ y.pc # "idle"
    BY <1>3, <1>5 DEF Take, PreparePcs
  <2>2. Works(y, requests[s], "preparing", ringLock' = c)
    BY <1>3, <1>7, <2>1, MakingWorks
  <2> QED
    BY <1>3, <2>1, <2>2 DEF HasThread
<1>9. Changed(requests', requests, s, requests[s]) /\ SameLive(requests[s], requests[s]) /\ SameUse(requests[s], requests[s])
  BY Unchanged DEF Take
<1>10. Stage(requests[s], "preparing")
  BY <1>4 DEF Stage, Done
<1>11. /\ ringLock' = ringLock /\ used' = used /\ empty' = empty /\ unload = "loaded" /\ unload' = unload
       /\ free' = free /\ usedList' = usedList
  BY DEF Take, poolVars
<1>12. ringLock' \in Cpus \cup {"none"} /\ used' \in Nat /\ empty' \in BOOLEAN
  BY <1>11, Parts DEF Types
<1>13. Types' /\ CpusFit' /\ SrbsFit' /\ Unloading'
  BY <1>2, <1>3, <1>4, <1>6, <1>8, <1>9, <1>10, <1>11, <1>12, StepKeeps DEF States
<1>14. Counted' /\ EventFits' /\ PoolFits'
  BY <1>2, <1>5, <1>9, <1>11, RestKeeps
<1> QED
  BY <1>13, <1>14 DEF PInv

\* RequestListEmpty is cleared, with a request of this processor's counted.
LEMMA ClearEventKeeps ==
  ASSUME PInv, NEW c \in Cpus, ClearEvent(c)
  PROVE  PInv'
<1>1. PICK x, l : x = cpu[c] /\ l = requests[Mine(c)]
  OBVIOUS
<1>2. cpu[c].pc \in PreparePcs /\ x.pc = "clear"
  BY <1>1 DEF ClearEvent, PreparePcs
<1>3. /\ IsThread(x) /\ x.s = Mine(c) /\ x.s \in Srbs /\ AreOf(l) /\ Making(x, l)
      /\ status[Mine(c)] = "preparing" /\ ringLock # c /\ unload = "loaded"
      /\ \A d \in Cpus : d # c /\ Busy(d) => Mine(d) # Mine(c)
  BY <1>1, <1>2, MakingNow
<1>4. PICK y : y = [x EXCEPT !.pc = "cut"]
  OBVIOUS
<1>5. cpu' = [cpu EXCEPT ![c] = y] /\ empty' = FALSE
  BY <1>1, <1>4 DEF ClearEvent, Goto
<1>6. IsThread(y) /\ y.s = x.s /\ y.pc = "cut" /\ y.pc # "idle"
  BY <1>3, <1>4 DEF IsThread, PreparePcs
<1>7. y.failing = x.failing /\ y.r = x.r
  BY <1>3, <1>4 DEF IsThread
<1>8. Making(y, l)
  BY <1>2, <1>3, <1>6, <1>7 DEF Making
<1>9. PICK s \in Srbs : s = Mine(c)
  BY <1>3
<1>10. HasThread(y, s, l, "preparing", ringLock' = c)
  <2>1. ringLock' # c /\ y.pc \in PreparePcs
    BY <1>3, <1>6 DEF ClearEvent, PreparePcs
  <2>2. Works(y, l, "preparing", ringLock' = c)
    BY <1>3, <1>6, <1>8, <2>1, MakingWorks
  <2> QED
    BY <1>6, <1>3, <1>9, <2>2 DEF HasThread
<1>11. /\ ringLock' = ringLock /\ used' = used /\ unload' = unload /\ requests' = requests /\ status' = status
       /\ free' = free /\ usedList' = usedList
  BY DEF ClearEvent, poolVars, srbVars
<1>12. Changed(requests', requests, s, l) /\ SameLive(l, requests[s]) /\ SameUse(l, requests[s])
  BY <1>1, <1>9, <1>11, Unchanged
<1>13. ringLock' \in Cpus \cup {"none"} /\ used' \in Nat /\ empty' \in BOOLEAN
  BY <1>5, <1>11, Parts DEF Types
<1>14. status' = [status EXCEPT ![s] = "preparing"] /\ "preparing" \in States
  BY <1>3, <1>9, <1>11, Parts DEF Types, States
<1>15. Stage(l, "preparing")
  BY <1>1, <1>3, <1>9, RequestsAre
<1>16. Types' /\ CpusFit' /\ SrbsFit' /\ Unloading'
  BY <1>3, <1>5, <1>6, <1>9, <1>10, <1>11, <1>12, <1>13, <1>14, <1>15, StepKeeps
<1>17. Counted' /\ PoolFits'
  BY <1>2, <1>1, <1>5, <1>9, <1>11, <1>12, RestKeeps
<1>18. used' # 0
  <2>1. x.r \in DOMAIN l /\ l[x.r].answer = "none" /\ x.r \in Nat
    BY <1>2, <1>3, ListIs DEF Making, AreOf, IsThread
  <2>2. <<s, x.r>> \in LiveIn(requests)
    BY <1>1, <1>9, <2>1 DEF LiveIn, Live, Gone
  <2>3. LiveIn(requests) # {} /\ Counts(used, LiveIn(requests))
    BY <2>2, Parts DEF Counted
  <2> QED
    BY <1>11, <2>3, FS_EmptySet DEF Counts
<1> QED
  BY <1>16, <1>17, <1>18 DEF PInv, EventFits

\* A processor at work changes the requests of its SRB.
LEMMA WorkKeeps ==
  ASSUME PInv, NEW c \in Cpus, cpu[c].pc # "idle", NEW s, s = Mine(c), NEW y, IsThread(y), NEW l, AreOf(l), NEW st \in States,
         cpu' = [cpu EXCEPT ![c] = y], Changed(requests', requests, s, l), status' = [status EXCEPT ![s] = st],
         HasThread(y, s, l, st, ringLock' = c), Stage(l, st),
         \A d \in Cpus : d # c => (ringLock' = d <=> ringLock = d),
         ringLock' \in Cpus \cup {"none"}, unload' = unload, used' \in Nat, empty' \in BOOLEAN
  PROVE  Types' /\ CpusFit' /\ SrbsFit' /\ Unloading'
<1>1. s \in Srbs /\ unload = "loaded" /\ \A d \in Cpus : d # c /\ Busy(d) => Mine(d) # s
  BY AtWork
<1> QED
  BY <1>1, StepKeeps

\* A request is begun.
LEMMA AllocRequestKeeps ==
  ASSUME PInv, NEW c \in Cpus, AllocRequest(c)
  PROVE  PInv'
<1>1. PICK x, l, s : x = cpu[c] /\ l = requests[Mine(c)] /\ s = Mine(c)
  OBVIOUS
<1>2. cpu[c].pc \in PreparePcs /\ x.pc = "alloc" /\ cpu[c].pc # "set" /\ cpu[c].pc # "idle"
  BY <1>1 DEF AllocRequest, PreparePcs
<1>3. /\ IsThread(x) /\ x.s = s /\ s \in Srbs /\ AreOf(l) /\ Making(x, l)
      /\ status[s] = "preparing" /\ ringLock # c
  BY <1>1, <1>2, MakingNow
<1>4. /\ ringLock' = ringLock /\ unload' = unload /\ status' = status /\ empty' = empty
      /\ free' = free /\ usedList' = usedList
  BY DEF AllocRequest, poolVars
<1>5. CASE Failing(c) /\ UNCHANGED <<requests, used>>
  BY <1>2, <1>4, <1>5, FailingKeeps
<1>6. CASE /\ requests' = [requests EXCEPT ![Mine(c)] = Append(@, [first |-> cpu[c].done, segs |-> <<>>, answer |-> "none"])]
           /\ used' = used + 1
           /\ cpu' = [cpu EXCEPT ![c].pc = "clear", ![c].r = @ + 1]
  <2>1. PICK n : n = x.r + 1
    OBVIOUS
  <2>2. PICK y : y = [x EXCEPT !.pc = "clear", !.r = n]
    OBVIOUS
  <2>3. cpu' = [cpu EXCEPT ![c] = y]
    BY <1>1, <1>6, <2>1, <2>2
  <2>4. n = Len(l) + 1 /\ n \in Nat /\ n > 0
    BY <1>3, <2>1, ListIs DEF Making, AreOf
  <2>5. IsThread(y) /\ y.pc = "clear" /\ y.s = s /\ y.r = n /\ ~ y.failing
    BY <1>3, <2>2, <2>4 DEF IsThread, PreparePcs, Making
  <2>6. PICK q : q = [first |-> cpu[c].done, segs |-> <<>>, answer |-> "none"]
    OBVIOUS
  <2>7. IsRequest(q) /\ q.answer = "none" /\ q.segs = <<>>
    BY <2>6, NewRequestIs
  <2>8. PICK m : m = Append(l, q)
    OBVIOUS
  <2>9. AreOf(m) /\ Appended(m, l, q)
    BY <1>3, <2>7, <2>8, RequestAppended
  <2>10. Changed(requests', requests, s, m)
    <3>1. requests' = [requests EXCEPT ![s] = m]
      BY <1>1, <1>6, <2>6, <2>8
    <3> QED
      BY <1>3, <3>1, RequestsAre, ChangeIs
  <2>11. DOMAIN m = 1 .. n /\ Len(m) = n /\ m[n] = q /\ \A i \in 1 .. n - 1 : m[i] = l[i]
    BY <1>3, <2>4, <2>9, ListIs DEF Appended, AreOf
  <2>12. DOMAIN l = 1 .. n - 1
    BY <1>3, <2>4, ListIs DEF AreOf
  <2>13. Making(y, m)
    <3>1. \A i \in DOMAIN m : m[i].answer = "none"
      BY <1>3, <2>4, <2>7, <2>11, <2>12 DEF Making
    <3> QED
      BY <2>4, <2>5, <2>11, <3>1 DEF Making
  <2>14. HasThread(y, s, m, "preparing", ringLock' = c)
    <3>1. ringLock' # c /\ y.pc \in PreparePcs
      BY <1>3, <1>4, <2>5 DEF PreparePcs
    <3>2. Works(y, m, "preparing", ringLock' = c)
      BY <1>3, <2>5, <2>13, <3>1, MakingWorks
    <3> QED
      BY <2>5, <3>2 DEF HasThread
  <2>15. Stage(m, "preparing")
    <3>1. GoneHolds(m)
      BY <2>13 DEF GoneHolds, Making, Gone
    <3> QED
      BY <3>1 DEF Stage, Done
  <2>16. used' \in Nat /\ empty' \in BOOLEAN /\ ringLock' \in Cpus \cup {"none"}
    BY <1>4, <1>6, Parts DEF Types
  <2>17. status' = [status EXCEPT ![s] = "preparing"] /\ "preparing" \in States
    BY <1>3, <1>4, Parts DEF Types, States
  <2>18. \A d \in Cpus : d # c => (ringLock' = d <=> ringLock = d)
    BY <1>4
  <2>19. Types' /\ CpusFit' /\ SrbsFit' /\ Unloading'
    BY <1>1, <1>2, <1>4, <2>3, <2>5, <2>9, <2>10, <2>14, <2>15, <2>16, <2>17, <2>18, WorkKeeps
  <2>20. Counted'
    <3>1. MoreLive(m, l, n)
      BY <2>4, <2>7, <2>11, <2>12 DEF MoreLive, Live, Gone
    <3>2. LiveIn(requests') = LiveIn(requests) \cup {<<s, n>>}
      BY <1>1, <1>3, <2>4, <2>10, <3>1, LiveMore
    <3>3. <<s, n>> \notin LiveIn(requests)
      BY <1>1, <2>4, <2>12 DEF LiveIn, Live
    <3>4. PICK L, x1 : L = LiveIn(requests) /\ x1 = <<s, n>>
      OBVIOUS
    <3>5. IsFiniteSet(L) /\ used = Cardinality(L)
      BY <3>4, Parts DEF Counted, Counts
    <3>6. IsFiniteSet(L \cup {x1}) /\ Cardinality(L \cup {x1}) = used + 1
      BY <3>3, <3>4, <3>5, FS_AddElement
    <3> QED
      BY <1>6, <3>2, <3>4, <3>6 DEF Counted, Counts
  <2>21. EventFits'
    <3>1. used \in Nat
      BY Parts DEF Types
    <3> QED
      BY <1>6, <3>1 DEF EventFits
  <2>22. PoolFits'
    <3>1. SameUse(m, l)
      BY <2>4, <2>7, <2>11, <2>12 DEF SameUse, Names
    <3> QED
      BY <1>1, <1>2, <1>3, <1>4, <2>3, <2>10, <3>1, RestKeeps
  <2> QED
    BY <2>19, <2>20, <2>21, <2>22 DEF PInv
<1> QED
  BY <1>5, <1>6 DEF AllocRequest

-----------------------------------------------------------------------------
(* The segments of one request change. *)

Made(m, l, r, segs) ==
  /\ AreOf(m) /\ Len(m) = Len(l) /\ DOMAIN m = DOMAIN l
  /\ m[r].first = l[r].first /\ m[r].segs = segs /\ m[r].answer = l[r].answer
  /\ \A i \in DOMAIN l : i # r => m[i] = l[i]
Has(l, k, b) == k \in DOMAIN l /\ l[k].buf = b
SameBufs(segs, old) == \A k \in Nat : \A b \in Buffers : Has(segs, k, b) <=> Has(old, k, b)
MoreBufs(segs, old, j, a) == \A k \in Nat : \A b \in Buffers : Has(segs, k, b) <=> Has(old, k, b) \/ (k = j /\ b = a)
LessBufs(segs, old, j) == \A k \in Nat : \A b \in Buffers : Has(segs, k, b) <=> Has(old, k, b) /\ k # j

\* The requests of the SRB, then.
LEMMA Makes ==
  ASSUME NEW l, AreOf(l), NEW r \in DOMAIN l, NEW segs, AreSegments(segs), NEW q, q = [l[r] EXCEPT !.segs = segs],
         NEW m, m = [l EXCEPT ![r] = q]
  PROVE  Made(m, l, r, segs)
<1>1. PICK p : p = l[r]
  OBVIOUS
<1>2. IsRequest(p)
  BY <1>1 DEF AreOf
<1>3. q = [p EXCEPT !.segs = segs]
  BY <1>1
<1>4. IsRequest(q) /\ q.first = p.first /\ q.segs = segs /\ q.answer = p.answer
  BY <1>2, <1>3 DEF IsRequest
<1>5. AreOf(m) /\ Replaced(m, l, r, q)
  BY <1>4, RequestReplaced
<1> QED
  BY <1>1, <1>4, <1>5, ListIs DEF Made, Replaced, AreOf

\* Nothing is answered or freed.
LEMMA MadeLive ==
  ASSUME NEW m, NEW l, NEW r, NEW segs, Made(m, l, r, segs), r \in DOMAIN l
  PROVE  SameLive(m, l)
BY DEF Made, SameLive, Live

\* The buffers that are named.
LEMMA MadeUse ==
  ASSUME NEW m, NEW l, NEW r \in DOMAIN l, NEW segs, Made(m, l, r, segs)
  PROVE  /\ SameBufs(segs, l[r].segs) => SameUse(m, l)
         /\ \A j \in Nat : \A a \in Buffers : MoreBufs(segs, l[r].segs, j, a) => MoreUse(m, l, r, j, a)
         /\ \A j \in Nat : LessBufs(segs, l[r].segs, j) => LessUse(m, l, r, j)
<1>1. \A i, k \in Nat : \A b \in Buffers : Names(m, i, k, b) <=> IF i = r THEN Has(segs, k, b) ELSE Names(l, i, k, b)
  BY DEF Made, Names, Has
<1>2. \A k \in Nat : \A b \in Buffers : Names(l, r, k, b) <=> Has(l[r].segs, k, b)
  BY DEF Names, Has
<1>3. SameBufs(segs, l[r].segs) => SameUse(m, l)
  BY <1>1, <1>2 DEF SameBufs, SameUse
<1>4. \A j \in Nat : \A a \in Buffers : MoreBufs(segs, l[r].segs, j, a) => MoreUse(m, l, r, j, a)
  BY <1>1, <1>2 DEF MoreBufs, MoreUse
<1>5. \A j \in Nat : LessBufs(segs, l[r].segs, j) => LessUse(m, l, r, j)
  BY <1>1, <1>2 DEF LessBufs, LessUse
<1> QED
  BY <1>3, <1>4, <1>5

\* A request that is made goes on being made.
LEMMA MadeMaking ==
  ASSUME NEW x, NEW l, Making(x, l), x.r \in DOMAIN l, NEW segs, NEW m, Made(m, l, x.r, segs), IsList(segs), Len(segs) > 0,
         NEW y, y.pc \in PreparePcs, ~ y.failing, y.r = x.r, x.r > 0,
         y.pc = "get" => segs[Len(segs)].buf = "none" /\ segs[Len(segs)].mapped
  PROVE  Making(y, m) /\ \A i \in DOMAIN m : m[i].answer = "none"
BY DEF Making, Made

SegmentPcs == {"cut", "get", "copyIn", "grant"}
InHand == {"preparing", "prepared"}
\* The thread of the processor, the requests of the SRB and its status are these now.
Turns(c, y, s, m, st) ==
  /\ cpu' = [cpu EXCEPT ![c] = y] /\ requests' = [requests EXCEPT ![s] = m] /\ status' = [status EXCEPT ![s] = st]

\* The steps that cut a segment and fill it.
LEMMA SegsKeep ==
  ASSUME PInv, NEW c \in Cpus, cpu[c].pc \in SegmentPcs, NEW x, x = cpu[c], NEW s, s = Mine(c),
         NEW l, l = requests[s], NEW segs, NEW m, Made(m, l, x.r, segs), NEW y, IsThread(y), NEW st \in InHand,
         Turns(c, y, s, m, st), HasThread(y, s, m, st, ringLock' = c),
         ringLock' = ringLock, unload' = unload, used' = used, empty' = empty
  PROVE  /\ Types' /\ CpusFit' /\ SrbsFit' /\ Unloading' /\ Counted' /\ EventFits'
         /\ s \in Srbs /\ Changed(requests', requests, s, m) /\ x.r \in DOMAIN l /\ x.r \in Nat
         /\ free' = free /\ usedList' = usedList /\ SameUse(m, l) => PoolFits'
<1>1. cpu[c].pc \in PreparePcs /\ cpu[c].pc # "idle" /\ cpu[c].pc # "set" /\ cpu[c].pc # "alloc"
  BY DEF PreparePcs, SegmentPcs
<1>2. /\ IsThread(x) /\ x.s = s /\ s \in Srbs /\ AreOf(l) /\ Making(x, l)
  BY <1>1, MakingNow
<1>3. x.r \in DOMAIN l /\ x.r \in Nat
  BY <1>1, <1>2, ListIs DEF Making, AreOf
<1>4. Changed(requests', requests, s, m) /\ cpu' = [cpu EXCEPT ![c] = y] /\ status' = [status EXCEPT ![s] = st]
  BY <1>2, RequestsAre, ChangeIs DEF Turns
<1>5. Stage(m, st)
  <2>1. \A i \in DOMAIN m : m[i].answer = "none"
    BY <1>2, <1>3 DEF Made, Making
  <2> QED
    BY <2>1 DEF Stage, Done, GoneHolds, Gone, InHand
<1>6. used' \in Nat /\ empty' \in BOOLEAN /\ ringLock' \in Cpus \cup {"none"}
  BY Parts DEF Types
<1>7. AreOf(m) /\ st \in States
  BY DEF Made, States, InHand
<1>8. \A d \in Cpus : d # c => (ringLock' = d <=> ringLock = d)
  OBVIOUS
<1>9. Types' /\ CpusFit' /\ SrbsFit' /\ Unloading'
  BY <1>1, <1>4, <1>5, <1>6, <1>7, <1>8, WorkKeeps
<1>10. SameLive(m, l)
  BY <1>3, MadeLive
<1>11. Counted' /\ EventFits' /\ (free' = free /\ usedList' = usedList /\ SameUse(m, l) => PoolFits')
  BY <1>1, <1>2, <1>4, <1>10, RestKeeps
<1> QED
  BY <1>2, <1>3, <1>4, <1>9, <1>11

\* A segment is cut.
LEMMA CutSegmentKeeps ==
  ASSUME PInv, NEW c \in Cpus, CutSegment(c)
  PROVE  PInv'
<1>1. PICK x, l, s : x = cpu[c] /\ l = requests[Mine(c)] /\ s = Mine(c)
  OBVIOUS
<1>2. cpu[c].pc \in PreparePcs /\ x.pc = "cut"
  BY <1>1 DEF CutSegment, PreparePcs
<1>3. /\ IsThread(x) /\ x.s = s /\ s \in Srbs /\ AreOf(l) /\ Making(x, l)
      /\ status[s] = "preparing" /\ ringLock # c
  BY <1>1, <1>2, MakingNow
<1>4. /\ ringLock' = ringLock /\ unload' = unload /\ status' = status /\ empty' = empty /\ used' = used
      /\ free' = free /\ usedList' = usedList
  BY DEF CutSegment, poolVars
<1>5. PICK z : z = Cut(list[s], cpu[c].at, NumSectors(s) - cpu[c].done)
  OBVIOUS
<1>6. PICK seg, y :
        /\ IsSegment(seg) /\ seg.buf = "none"
        /\ requests' = [requests EXCEPT ![s][x.r].segs = Append(@, seg)]
        /\ cpu' = [cpu EXCEPT ![c] = y]
        /\ \/ y = [x EXCEPT !.pc = "grant", !.at = z.next, !.done = cpu[c].done + z.now]
           \/ y = [x EXCEPT !.pc = "get", !.at = z.next, !.done = cpu[c].done + z.now] /\ seg.mapped
           \/ y = [x EXCEPT !.pc = "cleanup", !.failing = TRUE, !.r = 1]
  <2>1. PICK seg : seg = z.seg
    OBVIOUS
  <2>2. /\ IsSegment(seg) /\ seg.buf = "none" /\ seg.bounced \in BOOLEAN
    <3>1. PICK ls, at, left : ls = list[s] /\ at = cpu[c].at /\ left = NumSectors(s) - cpu[c].done
      OBVIOUS
    <3>2. seg = Cut(ls, at, left).seg
      BY <1>5, <2>1, <3>1
    <3>3. IsSegment(seg) /\ seg.buf = "none"
      BY <3>2, CutIs
    <3> QED
      BY <3>3 DEF IsSegment
  <2>3. PICK new : new = [seg EXCEPT !.mapped = seg.bounced]
    OBVIOUS
  <2>4. IsSegment(new) /\ new.buf = "none" /\ new.mapped = seg.bounced
    BY <2>2, <2>3 DEF IsSegment
  <2>5. CASE /\ requests' = [requests EXCEPT ![s][x.r].segs = Append(@, new)]
             /\ cpu' = [cpu EXCEPT ![c].pc = IF seg.bounced THEN "get" ELSE "grant", ![c].at = z.next,
                                   ![c].done = @ + z.now]
    <3>1. PICK d : d = cpu[c].done + z.now
      OBVIOUS
    <3>2. CASE seg.bounced
      <4>1. cpu' = [cpu EXCEPT ![c] = [x EXCEPT !.pc = "get", !.at = z.next, !.done = d]]
        BY <1>1, <2>5, <3>1, <3>2
      <4> QED
        BY <2>4, <2>5, <3>1, <3>2, <4>1
    <3>3. CASE ~ seg.bounced
      <4>1. cpu' = [cpu EXCEPT ![c] = [x EXCEPT !.pc = "grant", !.at = z.next, !.done = d]]
        BY <1>1, <2>5, <3>1, <3>3
      <4> QED
        BY <2>4, <2>5, <3>1, <3>3, <4>1
    <3> QED
      BY <3>2, <3>3
  <2>6. CASE requests' = [requests EXCEPT ![s][x.r].segs = Append(@, seg)] /\ Failing(c)
    <3>1. cpu' = [cpu EXCEPT ![c] = [x EXCEPT !.pc = "cleanup", !.failing = TRUE, !.r = 1]]
      BY <1>1, <2>6 DEF Failing
    <3> QED
      BY <2>2, <2>6, <3>1
  <2> QED
    BY <1>1, <1>5, <2>1, <2>3, <2>5, <2>6 DEF CutSegment
<1>7. x.r \in DOMAIN l /\ x.r > 0
  BY <1>2, <1>3, ListIs DEF Making, AreOf
<1>8. PICK old, segs : old = l[x.r].segs /\ segs = Append(old, seg)
  OBVIOUS
<1>9. AreSegments(old)
  BY <1>3, <1>7, <1>8 DEF AreOf, IsRequest
<1>10. AreSegments(segs) /\ Appended(segs, old, seg)
  BY <1>6, <1>8, <1>9, SegmentsAppended
<1>11. PICK q : q = [l[x.r] EXCEPT !.segs = segs]
  OBVIOUS
<1>12. PICK m : m = [l EXCEPT ![x.r] = q]
  OBVIOUS
<1>13. Made(m, l, x.r, segs)
  BY <1>3, <1>7, <1>10, <1>11, <1>12, Makes
<1>14. requests' = [requests EXCEPT ![s] = m]
  BY <1>1, <1>6, <1>8, <1>11, <1>12
<1>15. IsList(segs) /\ Len(segs) > 0 /\ segs[Len(segs)] = seg
  BY <1>9, <1>10, ListIs DEF Appended, AreSegments
<1>16. IsThread(y) /\ HasThread(y, s, m, "preparing", ringLock' = c)
  <2>0. ringLock' # c /\ \A i \in DOMAIN m : m[i].answer = "none"
    BY <1>3, <1>4, <1>7, <1>13 DEF Making, Made
  <2>1. CASE y = [x EXCEPT !.pc = "cleanup", !.failing = TRUE, !.r = 1]
    <3>1. IsList(m)
      BY <1>13 DEF Made, AreOf
    <3>2. IsThread(y) /\ y.s = x.s /\ y.pc = "cleanup" /\ Works(y, m, "preparing", ringLock' = c)
      BY <1>3, <2>0, <2>1, <3>1, FailingIs
    <3> QED
      BY <1>3, <3>2 DEF HasThread
  <2>2. ASSUME NEW pc \in {"grant", "get"}, NEW d, y = [x EXCEPT !.pc = pc, !.at = z.next, !.done = d],
               pc = "get" => seg.mapped
        PROVE  IsThread(y) /\ HasThread(y, s, m, "preparing", ringLock' = c)
    <3>1. IsThread(y) /\ y.pc = pc /\ y.pc \in PreparePcs /\ y.s = s /\ y.r = x.r /\ y.failing = x.failing /\ y.pc # "idle"
      BY <1>3, <2>2 DEF IsThread, PreparePcs
    <3>2. ~ y.failing
      BY <1>3, <3>1 DEF Making
    <3>3. y.pc = "get" => segs[Len(segs)].buf = "none" /\ segs[Len(segs)].mapped
      BY <1>6, <1>15, <2>2, <3>1
    <3>4. Making(y, m)
      BY <1>3, <1>7, <1>13, <1>15, <3>1, <3>2, <3>3, MadeMaking
    <3>5. Works(y, m, "preparing", ringLock' = c)
      BY <1>3, <2>0, <3>1, <3>4, MakingWorks
    <3> QED
      BY <3>1, <3>5 DEF HasThread
  <2>3. CASE y = [x EXCEPT !.pc = "grant", !.at = z.next, !.done = cpu[c].done + z.now]
    <3>1. PICK pc, d : pc \in {"grant", "get"} /\ pc = "grant" /\ d = cpu[c].done + z.now
      OBVIOUS
    <3> QED
      BY <2>2, <2>3, <3>1
  <2>4. CASE y = [x EXCEPT !.pc = "get", !.at = z.next, !.done = cpu[c].done + z.now] /\ seg.mapped
    <3>1. PICK pc, d : pc \in {"grant", "get"} /\ pc = "get" /\ d = cpu[c].done + z.now
      OBVIOUS
    <3> QED
      BY <2>2, <2>4, <3>1
  <2> QED
    BY <1>6, <2>1, <2>3, <2>4
<1>17. status' = [status EXCEPT ![s] = "preparing"]
  BY <1>3, <1>4, Parts DEF Types
<1>18. SameUse(m, l)
  <2>1. "none" \notin Buffers
    BY PrepareAssumption
  <2>2. SameBufs(segs, old)
    BY <1>6, <1>9, <1>10, <2>1, ListIs DEF SameBufs, Has, Appended, AreSegments
  <2> QED
    BY <1>7, <1>8, <1>13, <2>2, MadeUse
<1>19. cpu[c].pc \in SegmentPcs /\ "preparing" \in InHand
  BY <1>1, <1>2 DEF SegmentPcs, InHand
<1>20. Types' /\ CpusFit' /\ SrbsFit' /\ Unloading' /\ Counted' /\ EventFits' /\ PoolFits'
  <2>1. s = Mine(c) /\ l = requests[s] /\ Turns(c, y, s, m, "preparing")
    BY <1>1, <1>6, <1>14, <1>17 DEF Turns
  <2> QED
    BY <1>1, <1>4, <1>13, <1>16, <1>18, <1>19, <2>1, SegsKeep
<1> QED
  BY <1>20 DEF PInv

\* The last segment of the request that is made, and it with a change.
LEMMA LastIs ==
  ASSUME PInv, NEW c \in Cpus, cpu[c].pc \in {"get", "copyIn", "grant"}, NEW x, x = cpu[c], NEW s, s = Mine(c),
         NEW l, l = requests[s], NEW old, old = l[x.r].segs, NEW n, n = Len(old)
  PROVE  /\ IsThread(x) /\ x.s = s /\ s \in Srbs /\ AreOf(l) /\ Making(x, l) /\ x.r \in DOMAIN l /\ x.r > 0
         /\ status[s] = "preparing" /\ ringLock # c /\ cpu[c].pc \in SegmentPcs
         /\ AreSegments(old) /\ n \in DOMAIN old /\ n \in Nat /\ n > 0 /\ LastOf(c) = old[n] /\ IsSegment(old[n])
         /\ x.r \in Nat
<1>1. cpu[c].pc \in PreparePcs /\ cpu[c].pc \in SegmentPcs /\ cpu[c].pc # "alloc"
  BY DEF PreparePcs, SegmentPcs
<1>2. /\ IsThread(x) /\ x.s = s /\ s \in Srbs /\ AreOf(l) /\ Making(x, l)
      /\ status[s] = "preparing" /\ ringLock # c
  BY <1>1, MakingNow
<1>3. x.r \in DOMAIN l /\ x.r > 0 /\ x.r \in Nat /\ Len(old) > 0
  BY <1>1, <1>2, ListIs DEF Making, AreOf
<1>4. AreSegments(old)
  BY <1>2, <1>3 DEF AreOf, IsRequest
<1>5. n \in Nat /\ n > 0 /\ n \in DOMAIN old
  BY <1>3, <1>4, ListIs DEF AreSegments
<1>6. LastOf(c) = old[n] /\ IsSegment(old[n])
  BY <1>4, <1>5 DEF LastOf, Request, Mine, AreSegments
<1> QED
  BY <1>1, <1>2, <1>3, <1>4, <1>5, <1>6

\* The requests with another last segment.
Relast(m, segs, c, s, l, old, n, seg) ==
  /\ WithLast(c, seg) = [requests EXCEPT ![s] = m]
  /\ Made(m, l, cpu[c].r, segs) /\ IsList(segs) /\ Len(segs) = n /\ Replaced(segs, old, n, seg)

\* There are such.
LEMMA RelastIs ==
  ASSUME PInv, NEW c \in Cpus, NEW s, s = Mine(c), NEW l, l = requests[s], AreOf(l), cpu[c].r \in DOMAIN l,
         NEW old, old = l[cpu[c].r].segs, NEW n, n = Len(old), n \in DOMAIN old, AreSegments(old), NEW seg, IsSegment(seg)
  PROVE  \E m : \E segs : Relast(m, segs, c, s, l, old, n, seg)
<1>1. PICK r, segs : r = cpu[c].r /\ segs = [old EXCEPT ![n] = seg]
  OBVIOUS
<1>2. AreSegments(segs) /\ Replaced(segs, old, n, seg)
  BY <1>1, SegmentsReplaced
<1>3. PICK q : q = [l[r] EXCEPT !.segs = segs]
  OBVIOUS
<1>4. PICK m : m = [l EXCEPT ![r] = q]
  OBVIOUS
<1>5. Made(m, l, r, segs)
  BY <1>1, <1>2, <1>3, <1>4, Makes
<1>6. WithLast(c, seg) = [requests EXCEPT ![s] = m]
  BY <1>1, <1>3, <1>4 DEF WithLast
<1>7. IsList(segs) /\ Len(segs) = n
  BY <1>2 DEF Replaced
<1> QED
  BY <1>1, <1>2, <1>5, <1>6, <1>7 DEF Relast

\* Head and Tail.
LEMMA PopFits ==
  ASSUME NEW f, NEW u, FreeFits(f, u), f # <<>>, NEW b, b = Head(f), NEW t, t = PopFreeList(f)
  PROVE  b \in Buffers /\ b \notin u /\ FreeFits(t, u \cup {b})
<1>1. /\ f \in Seq(Buffers) /\ Once(f) /\ u \in SUBSET Buffers /\ \A i \in DOMAIN f : f[i] \notin u
  BY DEF FreeFits
<1>2. Len(f) \in Nat /\ Len(f) > 0 /\ DOMAIN f = 1 .. Len(f)
  BY <1>1, LenProperties, EmptySeq
<1>3. b = f[1] /\ b \in Buffers
  BY <1>1, <1>2
<1>4. t \in Seq(Buffers) /\ Len(t) = Len(f) - 1 /\ \A i \in 1 .. Len(t) : t[i] = f[i + 1]
  BY <1>1, HeadTailProperties DEF PopFreeList
<1>5. DOMAIN t = 1 .. Len(f) - 1 /\ \A i \in DOMAIN t : i + 1 \in DOMAIN f /\ i \in Nat /\ t[i] = f[i + 1]
  BY <1>2, <1>4, LenProperties
<1>6. b \notin u
  BY <1>1, <1>2, <1>3
<1>7. Once(t)
  BY <1>1, <1>5 DEF Once
<1>8. \A i \in DOMAIN t : t[i] \notin u \cup {b}
  BY <1>1, <1>2, <1>3, <1>5 DEF Once
<1> QED
  BY <1>1, <1>3, <1>4, <1>6, <1>7, <1>8 DEF FreeFits

\* A segment is given a buffer.
LEMMA GiveKeeps ==
  ASSUME PInv, NEW c \in Cpus, cpu[c].pc = "get", NEW b \in Buffers, b \notin usedList, usedList' = usedList \cup {b},
         requests' = WithLast(c, [LastOf(c) EXCEPT !.buf = b]), NEW pc \in {"copyIn", "grant"}, Goto(c, pc),
         FreeFits(free', usedList'),
         ringLock' = ringLock, unload' = unload, used' = used, empty' = empty, status' = status
  PROVE  PInv'
<1>1. PICK x, s : x = cpu[c] /\ s = Mine(c)
  OBVIOUS
<1>2. PICK l, old, n : l = requests[s] /\ old = l[x.r].segs /\ n = Len(old)
  OBVIOUS
<1>3. /\ IsThread(x) /\ x.s = s /\ s \in Srbs /\ AreOf(l) /\ Making(x, l) /\ x.r \in DOMAIN l /\ x.r > 0
      /\ status[s] = "preparing" /\ ringLock # c /\ cpu[c].pc \in SegmentPcs
      /\ AreSegments(old) /\ n \in DOMAIN old /\ n \in Nat /\ n > 0 /\ LastOf(c) = old[n] /\ IsSegment(old[n])
      /\ x.r \in Nat
  BY <1>1, <1>2, LastIs
<1>4. old[n].buf = "none" /\ old[n].mapped
  BY <1>1, <1>2, <1>3 DEF Making, PreparePcs
<1>5. PICK seg : seg = [old[n] EXCEPT !.buf = b]
  OBVIOUS
<1>6. IsSegment(seg) /\ seg.buf = b
  BY <1>3, <1>4, <1>5 DEF IsSegment
<1>7. PICK m, segs : Relast(m, segs, c, s, l, old, n, seg)
  BY <1>1, <1>2, <1>3, <1>6, RelastIs
<1>8. requests' = [requests EXCEPT ![s] = m] /\ Made(m, l, x.r, segs) /\ IsList(segs) /\ Len(segs) = n /\ Replaced(segs, old, n, seg)
  BY <1>1, <1>3, <1>5, <1>7 DEF Relast
<1>9. PICK y : y = [x EXCEPT !.pc = pc]
  OBVIOUS
<1>10. cpu' = [cpu EXCEPT ![c] = y]
  BY <1>1, <1>9 DEF Goto
<1>11. IsThread(y) /\ y.pc = pc /\ y.pc \in PreparePcs /\ y.pc # "get" /\ y.pc # "idle" /\ y.s = s /\ y.r = x.r /\ y.failing = x.failing
  BY <1>3, <1>9 DEF IsThread, PreparePcs
<1>12. Making(y, m)
  <2>1. ~ y.failing
    BY <1>3, <1>11 DEF Making
  <2> QED
    BY <1>3, <1>8, <1>11, <2>1, MadeMaking
<1>13. HasThread(y, s, m, "preparing", ringLock' = c)
  <2>1. ringLock' # c
    BY <1>3
  <2>2. Works(y, m, "preparing", ringLock' = c)
    BY <1>3, <1>11, <1>12, <2>1, MakingWorks
  <2> QED
    BY <1>11, <2>2 DEF HasThread
<1>14. Turns(c, y, s, m, "preparing") /\ "preparing" \in InHand
  BY <1>3, <1>8, <1>10, Parts DEF Turns, Types, InHand
<1>15. /\ Types' /\ CpusFit' /\ SrbsFit' /\ Unloading' /\ Counted' /\ EventFits'
       /\ Changed(requests', requests, s, m)
  BY <1>1, <1>2, <1>3, <1>8, <1>11, <1>13, <1>14, SegsKeep
<1>16. PoolFits'
  <2>1. MoreBufs(segs, old, n, b)
    <3>1. DOMAIN segs = DOMAIN old
      BY <1>3, <1>8, ListIs DEF Replaced, AreSegments
    <3>2. segs[n] = seg /\ \A k \in DOMAIN old : k # n => segs[k] = old[k]
      BY <1>3, <1>8, ListIs DEF Replaced, AreSegments
    <3>3. "none" \notin Buffers
      BY PrepareAssumption
    <3> QED
      BY <1>3, <1>4, <1>6, <3>1, <3>2, <3>3 DEF MoreBufs, Has
  <2>2. MoreUse(m, l, x.r, n, b)
    BY <1>2, <1>3, <1>8, <2>1, MadeUse
  <2>3. Named(usedList, UsersIn(requests))
    BY Parts DEF PoolFits
  <2>4. Named(usedList \cup {b}, UsersIn(requests'))
    BY <1>2, <1>3, <1>15, <2>2, <2>3, UseMore
  <2> QED
    BY <2>4 DEF PoolFits
<1> QED
  BY <1>15, <1>16 DEF PInv

\* BufferGet.
LEMMA BufferGetKeeps ==
  ASSUME PInv, NEW c \in Cpus, BufferGet(c)
  PROVE  PInv'
<1>1. cpu[c].pc = "get" /\ cpu[c].pc \in PreparePcs
  BY DEF BufferGet, PreparePcs
<1>2. /\ ringLock' = ringLock /\ unload' = unload /\ status' = status /\ empty' = empty /\ used' = used
  BY DEF BufferGet
<1>3. FreeFits(free, usedList)
  BY Parts DEF PoolFits
<1>4. PICK pc \in {"copyIn", "grant"} : pc = IF Mine(c) \in Writes THEN "copyIn" ELSE "grant"
  OBVIOUS
<1>5. ASSUME NEW b, /\ usedList' = PushUsedList(usedList, b)
                    /\ requests' = WithLast(c, [LastOf(c) EXCEPT !.buf = b])
                    /\ Goto(c, IF Mine(c) \in Writes THEN "copyIn" ELSE "grant"),
             b \in Buffers, b \notin usedList, FreeFits(free', usedList \cup {b})
      PROVE  PInv'
  <2>1. usedList' = usedList \cup {b} /\ Goto(c, pc) /\ requests' = WithLast(c, [LastOf(c) EXCEPT !.buf = b])
    BY <1>4, <1>5 DEF PushUsedList
  <2>2. FreeFits(free', usedList')
    BY <1>5, <2>1
  <2> QED
    BY <1>1, <1>2, <1>5, <2>1, <2>2, GiveKeeps
<1>6. CASE /\ free # <<>> /\ usedList' = PushUsedList(usedList, Head(free))
           /\ requests' = WithLast(c, [LastOf(c) EXCEPT !.buf = Head(free)])
           /\ Goto(c, IF Mine(c) \in Writes THEN "copyIn" ELSE "grant")
           /\ free' = PopFreeList(free)
  <2>1. PICK b : b = Head(free)
    OBVIOUS
  <2>2. b \in Buffers /\ b \notin usedList /\ FreeFits(free', usedList \cup {b})
    BY <1>3, <1>6, <2>1, PopFits
  <2> QED
    BY <1>5, <1>6, <2>1, <2>2
<1>7. CASE /\ free = <<>> /\ Unallocated # {} /\ usedList' = PushUsedList(usedList, CHOOSE b \in Unallocated : TRUE)
           /\ requests' = WithLast(c, [LastOf(c) EXCEPT !.buf = CHOOSE b \in Unallocated : TRUE])
           /\ Goto(c, IF Mine(c) \in Writes THEN "copyIn" ELSE "grant")
           /\ free' = free
  <2>1. PICK b : b = CHOOSE a \in Unallocated : TRUE
    OBVIOUS
  <2>2. b \in Unallocated
    BY <1>7, <2>1
  <2>3. b \in Buffers /\ b \notin usedList /\ FreeFits(free', usedList \cup {b})
    <3>1. b \in Buffers /\ b \notin usedList /\ b \notin ToSet(free)
      BY <2>2 DEF Unallocated
    <3> QED
      BY <1>3, <1>7, <3>1 DEF FreeFits, ToSet
  <2> QED
    BY <1>5, <1>7, <2>1, <2>3
<1>8. CASE Failing(c) /\ UNCHANGED <<requests, free, usedList>>
  BY <1>1, <1>2, <1>8, FailingKeeps
<1> QED
  BY <1>6, <1>7, <1>8 DEF BufferGet

\* The data of a WRITE is copied to the buffer.
LEMMA BufferCopyInKeeps ==
  ASSUME PInv, NEW c \in Cpus, BufferCopyIn(c)
  PROVE  PInv'
<1>1. PICK x, l : x = cpu[c] /\ l = requests[Mine(c)]
  OBVIOUS
<1>2. x.pc = "copyIn" /\ cpu[c].pc \in PreparePcs /\ cpu[c].pc # "idle" /\ cpu[c].pc # "set"
  BY <1>1 DEF BufferCopyIn, PreparePcs
<1>3. /\ IsThread(x) /\ x.s = Mine(c) /\ x.s \in Srbs /\ AreOf(l) /\ Making(x, l)
      /\ status[Mine(c)] = "preparing" /\ ringLock # c
  BY <1>1, <1>2, MakingNow
<1>4. PICK y : y = [x EXCEPT !.pc = "grant"]
  OBVIOUS
<1>5. cpu' = [cpu EXCEPT ![c] = y]
  BY <1>1, <1>4 DEF BufferCopyIn, Goto
<1>6. IsThread(y) /\ y.s = x.s /\ y.pc = "grant" /\ y.pc # "idle" /\ y.failing = x.failing /\ y.r = x.r
  BY <1>3, <1>4 DEF IsThread, PreparePcs
<1>7. Making(y, l)
  BY <1>2, <1>3, <1>6 DEF Making
<1>8. Works(y, l, "preparing", ringLock = c)
  <2>1. y.pc \in PreparePcs
    BY <1>6 DEF PreparePcs
  <2> QED
    BY <1>3, <1>6, <1>7, <2>1, MakingWorks
<1>9. /\ ringLock' = ringLock /\ unload' = unload /\ status' = status /\ empty' = empty /\ used' = used
      /\ free' = free /\ usedList' = usedList /\ requests' = requests
  BY DEF BufferCopyIn, srbVars
<1> QED
  BY <1>1, <1>2, <1>3, <1>5, <1>6, <1>8, <1>9, MoveKeeps

\* The segment is granted; with the last the SRB is prepared.
LEMMA GrantKeeps ==
  ASSUME PInv, NEW c \in Cpus, Grant(c)
  PROVE  PInv'
<1>1. PICK x, s : x = cpu[c] /\ s = Mine(c)
  OBVIOUS
<1>2. PICK l, old, n : l = requests[s] /\ old = l[x.r].segs /\ n = Len(old)
  OBVIOUS
<1>3. cpu[c].pc = "grant" /\ cpu[c].pc \in PreparePcs
  BY DEF Grant, PreparePcs
<1>4. /\ IsThread(x) /\ x.s = s /\ s \in Srbs /\ AreOf(l) /\ Making(x, l) /\ x.r \in DOMAIN l /\ x.r > 0
      /\ status[s] = "preparing" /\ ringLock # c /\ cpu[c].pc \in SegmentPcs
      /\ AreSegments(old) /\ n \in DOMAIN old /\ n \in Nat /\ n > 0 /\ LastOf(c) = old[n] /\ IsSegment(old[n])
  BY <1>1, <1>2, <1>3, LastIs
<1>5. /\ ringLock' = ringLock /\ unload' = unload /\ empty' = empty /\ used' = used
      /\ free' = free /\ usedList' = usedList
  BY DEF Grant, poolVars
<1>6. CASE Failing(c) /\ UNCHANGED <<requests, status, bug>>
  BY <1>3, <1>5, <1>6, FailingKeeps
<1>7. ASSUME requests' = WithLast(c, [LastOf(c) EXCEPT !.granted = TRUE]),
             NEW y, cpu' = [cpu EXCEPT ![c] = y], NEW st \in InHand, status' = [status EXCEPT ![s] = st],
             \/ y = Idle /\ st = "prepared"
             \/ st = "preparing" /\ \E pc : pc \in {"alloc", "cut"} /\ y = [x EXCEPT !.pc = pc]
      PROVE  PInv'
  <2>1. PICK seg : seg = [old[n] EXCEPT !.granted = TRUE]
    OBVIOUS
  <2>2. IsSegment(seg) /\ seg.buf = old[n].buf
    BY <1>4, <2>1 DEF IsSegment
  <2>3. PICK m, segs : Relast(m, segs, c, s, l, old, n, seg)
    BY <1>1, <1>2, <1>4, <2>2, RelastIs
  <2>4. /\ requests' = [requests EXCEPT ![s] = m] /\ Made(m, l, x.r, segs) /\ IsList(segs) /\ Len(segs) = n
        /\ Replaced(segs, old, n, seg)
    BY <1>1, <1>4, <1>7, <2>1, <2>3 DEF Relast
  <2>5. IsThread(y) /\ HasThread(y, s, m, st, ringLock' = c)
    <3>1. CASE y = Idle /\ st = "prepared"
      BY <1>4, <1>5, <3>1, IdleIs DEF HasThread, Idle
    <3>2. ASSUME NEW pc, pc \in {"alloc", "cut"}, y = [x EXCEPT !.pc = pc], st = "preparing"
          PROVE  IsThread(y) /\ HasThread(y, s, m, st, ringLock' = c)
      <4>1. IsThread(y) /\ y.pc = pc /\ y.pc \in PreparePcs /\ y.pc # "idle" /\ y.pc # "get" /\ y.s = s /\ y.r = x.r /\ y.failing = x.failing
        BY <1>4, <3>2 DEF IsThread, PreparePcs
      <4>2. ~ y.failing
        BY <1>4, <4>1 DEF Making
      <4>3. Making(y, m)
        BY <1>4, <2>4, <4>1, <4>2, MadeMaking
      <4>4. Works(y, m, "preparing", ringLock' = c)
        BY <1>4, <1>5, <4>1, <4>3, MakingWorks
      <4> QED
        BY <3>2, <4>1, <4>4 DEF HasThread
    <3> QED
      BY <1>7, <3>1, <3>2
  <2>6. Turns(c, y, s, m, st)
    BY <1>7, <2>4 DEF Turns
  <2>7. SameUse(m, l)
    <3>1. DOMAIN segs = DOMAIN old /\ segs[n] = seg /\ \A k \in DOMAIN old : k # n => segs[k] = old[k]
      BY <1>4, <2>4, ListIs DEF Replaced, AreSegments
    <3>2. SameBufs(segs, old)
      BY <1>4, <2>2, <3>1 DEF SameBufs, Has
    <3> QED
      BY <1>2, <1>4, <2>4, <3>2, MadeUse
  <2>8. Types' /\ CpusFit' /\ SrbsFit' /\ Unloading' /\ Counted' /\ EventFits' /\ PoolFits'
    BY <1>1, <1>2, <1>4, <1>5, <2>4, <2>5, <2>6, <2>7, SegsKeep
  <2> QED
    BY <2>8 DEF PInv
<1>8. CASE /\ requests' = WithLast(c, [LastOf(c) EXCEPT !.granted = TRUE])
           /\ status' = [status EXCEPT ![s] = "prepared"] /\ cpu' = [cpu EXCEPT ![c] = Idle]
  <2>1. PICK y, st : y = Idle /\ st = "prepared" /\ st \in InHand
    BY DEF InHand
  <2> QED
    BY <1>7, <1>8, <2>1
<1>9. ASSUME requests' = WithLast(c, [LastOf(c) EXCEPT !.granted = TRUE]), status' = status,
             NEW pc, pc \in {"alloc", "cut"}, Goto(c, pc)
      PROVE  PInv'
  <2>1. PICK y, st : y = [x EXCEPT !.pc = pc] /\ st = "preparing" /\ st \in InHand
    BY DEF InHand
  <2>2. cpu' = [cpu EXCEPT ![c] = y]
    BY <1>1, <1>9, <2>1 DEF Goto
  <2>3. status' = [status EXCEPT ![s] = st]
    BY <1>4, <1>9, <2>1, Parts DEF Types
  <2> QED
    BY <1>7, <1>9, <2>1, <2>2, <2>3
<1>10. CASE /\ requests' = WithLast(c, [LastOf(c) EXCEPT !.granted = TRUE])
            /\ Goto(c, IF Len(Request(c).segs) = MaxSegments THEN "alloc" ELSE "cut")
            /\ UNCHANGED <<status, bug>>
  <2>1. PICK pc : pc = IF Len(Request(c).segs) = MaxSegments THEN "alloc" ELSE "cut"
    OBVIOUS
  <2>2. pc \in {"alloc", "cut"} /\ Goto(c, pc)
    BY <1>10, <2>1
  <2> QED
    BY <1>9, <1>10, <2>2
<1> QED
  BY <1>1, <1>6, <1>8, <1>10 DEF Grant

-----------------------------------------------------------------------------
(* The answers, and what they give back. *)

\* What a processor that cleans a request up knows.
LEMMA CleaningNow ==
  ASSUME PInv, NEW c \in Cpus, cpu[c].pc \in CleanPcs, NEW x, x = cpu[c], NEW s, s = Mine(c), NEW l, l = requests[s],
         x.r \in DOMAIN l
  PROVE  /\ IsThread(x) /\ x.s = s /\ s \in Srbs /\ AreOf(l) /\ Works(x, l, status[s], ringLock = c)
         /\ status[s] \in InHand /\ l[x.r].answer \in Answers /\ l[x.r].answer \notin Gone /\ x.r \in Nat
         /\ cpu[c].pc # "idle" /\ cpu[c].pc # "set"
<1>1. x.pc \notin PreparePcs /\ x.pc \notin FreedPcs /\ cpu[c].pc # "idle" /\ cpu[c].pc # "set"
  BY DEF PreparePcs, FreedPcs, CleanPcs
<1>2. IsThread(x) /\ x.s = s /\ s \in Srbs /\ Works(x, l, status[s], ringLock = c)
  BY <1>1, AtWork DEF Mine
<1>3. AreOf(l)
  BY <1>2, RequestsAre
<1>4. l[x.r].answer \in Answers /\ x.r \in Nat
  BY <1>3, ListIs DEF AreOf, IsRequest, Answers
<1>5. CASE ringLock = c
  BY <1>1, <1>2, <1>3, <1>4, <1>5 DEF Works, Completing, InHand, Gone
<1>6. CASE ringLock # c
  BY <1>1, <1>2, <1>3, <1>4, <1>6 DEF Works, Preparing, Undoing, InHand, Gone
<1> QED
  BY <1>5, <1>6

\* Cleaning up goes on, whatever segments the request has.
LEMMA CleanWorks ==
  ASSUME NEW x, NEW l, NEW st, NEW locked \in BOOLEAN, Works(x, l, st, locked), x.pc \in CleanPcs, x.r \in DOMAIN l,
         NEW segs, NEW m, Made(m, l, x.r, segs),
         NEW y, y.pc \in CleanPcs, y.s = x.s, y.r = x.r, y.failing = x.failing, PutFits(y, m)
  PROVE  Works(y, m, st, locked)
<1>1. x.pc \notin PreparePcs /\ x.pc \notin FreedPcs /\ y.pc \notin PreparePcs /\ y.pc \notin FreedPcs
  BY DEF PreparePcs, FreedPcs, CleanPcs
<1>2. DOMAIN m = DOMAIN l /\ Len(m) = Len(l) /\ \A i \in DOMAIN l : m[i].answer = l[i].answer
  BY DEF Made
<1>3. CASE locked
  BY <1>1, <1>2, <1>3 DEF Works, Completing
<1>4. CASE ~ locked
  <2>1. Undoing(x, l)
    BY <1>1, <1>4 DEF Works, Preparing
  <2>2. Undoing(y, m)
    BY <1>1, <1>2, <2>1 DEF Undoing
  <2> QED
    BY <1>1, <1>4, <2>2 DEF Works, Preparing
<1> QED
  BY <1>3, <1>4

\* A request that is live may hold what it likes.
LEMMA CleanStage ==
  ASSUME NEW l, NEW st \in InHand, Stage(l, st), NEW r \in DOMAIN l, NEW segs, NEW m, Made(m, l, r, segs), l[r].answer \notin Gone
  PROVE  Stage(m, st)
BY DEF Stage, InHand, Done, Made, GoneHolds

\* The steps that give something back.
LEMMA CleanKeep ==
  ASSUME PInv, NEW c \in Cpus, cpu[c].pc \in CleanPcs, NEW x, x = cpu[c], NEW s, s = Mine(c), NEW l, l = requests[s],
         x.r \in DOMAIN l, NEW segs, NEW m, Made(m, l, x.r, segs), NEW y, IsThread(y), Turns(c, y, s, m, status[s]),
         y.pc \in CleanPcs, y.s = x.s, y.r = x.r, y.failing = x.failing, PutFits(y, m),
         ringLock' = ringLock, unload' = unload, used' = used, empty' = empty
  PROVE  /\ Types' /\ CpusFit' /\ SrbsFit' /\ Unloading' /\ Counted' /\ EventFits'
         /\ s \in Srbs /\ Changed(requests', requests, s, m)
         /\ free' = free /\ usedList' = usedList /\ SameUse(m, l) => PoolFits'
<1>1. /\ IsThread(x) /\ x.s = s /\ s \in Srbs /\ AreOf(l) /\ Works(x, l, status[s], ringLock = c)
      /\ status[s] \in InHand /\ l[x.r].answer \notin Gone
      /\ cpu[c].pc # "idle" /\ cpu[c].pc # "set"
  BY CleaningNow
<1>2. PICK st \in InHand : st = status[s]
  BY <1>1
<1>3. Changed(requests', requests, s, m) /\ cpu' = [cpu EXCEPT ![c] = y] /\ status' = [status EXCEPT ![s] = st]
  BY <1>1, <1>2, RequestsAre, ChangeIs DEF Turns
<1>4. Stage(m, st)
  BY <1>1, <1>2, RequestsAre, CleanStage
<1>5. HasThread(y, s, m, st, ringLock' = c)
  <2>1. Works(y, m, st, ringLock = c)
    BY <1>1, <1>2, CleanWorks
  <2> QED
    BY <1>1, <2>1 DEF HasThread, CleanPcs
<1>6. used' \in Nat /\ empty' \in BOOLEAN /\ ringLock' \in Cpus \cup {"none"}
  BY Parts DEF Types
<1>7. AreOf(m) /\ st \in States
  BY DEF Made, States, InHand
<1>8. \A d \in Cpus : d # c => (ringLock' = d <=> ringLock = d)
  OBVIOUS
<1>9. Types' /\ CpusFit' /\ SrbsFit' /\ Unloading'
  BY <1>1, <1>3, <1>4, <1>5, <1>6, <1>7, <1>8, WorkKeeps
<1>10. SameLive(m, l)
  BY MadeLive
<1>11. Counted' /\ EventFits' /\ (free' = free /\ usedList' = usedList /\ SameUse(m, l) => PoolFits')
  BY <1>1, <1>3, <1>10, RestKeeps
<1> QED
  BY <1>1, <1>3, <1>9, <1>11

\* A set of numbers has a least one.
LEMMA LeastIs ==
  ASSUME NEW S \in SUBSET Nat, S # {}
  PROVE  \E k \in S : \A j \in S : k <= j
<1>1. PICK Up, R, F : Up = {1 .. k : k \in S} /\ R = StrictSubsetOrdering(Nat) /\ F = FiniteSubsetsOf(Nat)
  OBVIOUS
<1>2. Up \subseteq F /\ Up # {}
  <2>1. \A k \in S : 1 .. k \in F
    BY <1>1, FS_Interval DEF FiniteSubsetsOf
  <2> QED
    BY <1>1, <2>1
<1>3. IsWellFoundedOn(R, F)
  BY <1>1, FS_StrictSubsetOrderingWellFounded
<1>4. PICK U \in Up : \A V \in Up : ~ (<<V, U>> \in R)
  BY <1>2, <1>3, WFMin
<1>5. PICK k \in S : U = 1 .. k
  BY <1>1, <1>4
<1>6. ASSUME NEW j \in S, j < k
      PROVE  FALSE
  <2>1. PICK V : V = 1 .. j
    OBVIOUS
  <2>2. V \in Up
    BY <1>1, <2>1
  <2>3. V \subseteq U /\ V # U
    <3>1. k \in U /\ k \notin V
      BY <1>5, <1>6, <2>1
    <3> QED
      BY <1>5, <1>6, <2>1, <3>1
  <2>4. V \in SUBSET Nat /\ U \in SUBSET Nat
    BY <1>5, <2>1
  <2>5. <<V, U>> \in R
    BY <1>1, <2>3, <2>4 DEF StrictSubsetOrdering
  <2> QED
    BY <1>4, <2>2, <2>5
<1> QED
  BY <1>5, <1>6

\* The segment that is given back next.
LEMMA FirstIs ==
  ASSUME NEW q, IsRequest(q), Holders(q) # {}
  PROVE  FirstHolder(q) \in DOMAIN q.segs /\ FirstHolder(q) \in Nat
<1>1. Holders(q) \in SUBSET Nat /\ Holders(q) \subseteq DOMAIN q.segs
  BY ListIs DEF Holders, IsRequest, AreSegments
<1>2. \E k \in Holders(q) : \A j \in Holders(q) : k <= j
  BY <1>1, LeastIs
<1>3. FirstHolder(q) \in Holders(q)
  BY <1>2 DEF FirstHolder
<1> QED
  BY <1>1, <1>3

\* The requests with another segment at k.
Reset(m, segs, c, s, l, old, k, seg) ==
  /\ requests' = [requests EXCEPT ![s] = m]
  /\ Made(m, l, cpu[c].r, segs) /\ IsList(segs) /\ Replaced(segs, old, k, seg)

\* There are such.
LEMMA SetSegIs ==
  ASSUME PInv, NEW c \in Cpus, NEW s, s = Mine(c), NEW l, l = requests[s], AreOf(l), cpu[c].r \in DOMAIN l,
         NEW old, old = l[cpu[c].r].segs, NEW k \in DOMAIN old, AreSegments(old), NEW seg, IsSegment(seg), SetSeg(c, k, seg)
  PROVE  \E m : \E segs : Reset(m, segs, c, s, l, old, k, seg)
<1>1. PICK r, segs : r = cpu[c].r /\ segs = [old EXCEPT ![k] = seg]
  OBVIOUS
<1>2. AreSegments(segs) /\ Replaced(segs, old, k, seg)
  BY <1>1, SegmentsReplaced
<1>3. PICK q : q = [l[r] EXCEPT !.segs = segs]
  OBVIOUS
<1>4. PICK m : m = [l EXCEPT ![r] = q]
  OBVIOUS
<1>5. Made(m, l, r, segs)
  BY <1>1, <1>2, <1>3, <1>4, Makes
<1>6. requests' = [requests EXCEPT ![s] = m]
  BY <1>1, <1>3, <1>4 DEF SetSeg
<1>7. IsList(segs)
  BY <1>2 DEF Replaced
<1> QED
  BY <1>1, <1>2, <1>5, <1>6, <1>7 DEF Reset

\* A grant is given back.
LEMMA ReleaseKeeps ==
  ASSUME PInv, NEW c \in Cpus, Release(c)
  PROVE  PInv'
<1>1. PICK x, s : x = cpu[c] /\ s = Mine(c)
  OBVIOUS
<1>2. PICK l, r : l = requests[s] /\ r = x.r
  OBVIOUS
<1>3. cpu[c].pc \in CleanPcs /\ r \in DOMAIN l /\ Holders(l[r]) # {}
  BY <1>1, <1>2 DEF Release, CleanPcs, Request
<1>4. /\ IsThread(x) /\ x.s = s /\ s \in Srbs /\ AreOf(l) /\ status[s] \in InHand /\ l[r].answer \notin Gone
  BY <1>1, <1>2, <1>3, CleaningNow
<1>5. PICK q, old, k : q = l[r] /\ old = q.segs /\ k = FirstHolder(q)
  OBVIOUS
<1>6. IsRequest(q) /\ AreSegments(old) /\ k \in DOMAIN old /\ k \in Nat /\ IsSegment(old[k])
  BY <1>3, <1>4, <1>5, FirstIs DEF AreOf, IsRequest, AreSegments
<1>7. PICK seg : seg = [old[k] EXCEPT !.granted = FALSE]
  OBVIOUS
<1>8. IsSegment(seg) /\ seg.buf = old[k].buf
  BY <1>6, <1>7 DEF IsSegment
<1>9. SetSeg(c, k, seg) /\ cpu' = [cpu EXCEPT ![c].pc = "put", ![c].k = k]
  BY <1>1, <1>2, <1>5, <1>7 DEF Release, Request
<1>10. PICK m, segs : Reset(m, segs, c, s, l, old, k, seg)
  BY <1>1, <1>2, <1>3, <1>4, <1>5, <1>6, <1>8, <1>9, SetSegIs
<1>11. requests' = [requests EXCEPT ![s] = m] /\ Made(m, l, r, segs) /\ IsList(segs) /\ Replaced(segs, old, k, seg)
  BY <1>1, <1>2, <1>10 DEF Reset
<1>12. PICK y : y = [x EXCEPT !.pc = "put", !.k = k]
  OBVIOUS
<1>13. cpu' = [cpu EXCEPT ![c] = y]
  BY <1>1, <1>9, <1>12
<1>14. IsThread(y) /\ y.pc = "put" /\ y.k = k /\ y.s = x.s /\ y.r = x.r /\ y.failing = x.failing
  BY <1>4, <1>6, <1>12 DEF IsThread, CleanPcs
<1>15. DOMAIN segs = DOMAIN old /\ segs[k] = seg /\ \A j \in DOMAIN old : j # k => segs[j] = old[j]
  BY <1>6, <1>11, ListIs DEF Replaced, AreSegments
<1>16. PutFits(y, m) /\ y.pc \in CleanPcs
  BY <1>2, <1>3, <1>6, <1>11, <1>14, <1>15 DEF PutFits, CleanPcs, Made
<1>17. SameUse(m, l)
  <2>1. SameBufs(segs, old)
    BY <1>6, <1>8, <1>15 DEF SameBufs, Has
  <2> QED
    BY <1>3, <1>5, <1>11, <2>1, MadeUse
<1>18. /\ ringLock' = ringLock /\ unload' = unload /\ empty' = empty /\ used' = used
       /\ free' = free /\ usedList' = usedList /\ status' = status
  BY DEF Release, poolVars
<1>19. Turns(c, y, s, m, status[s])
  BY <1>4, <1>11, <1>13, <1>18, Parts DEF Turns, Types
<1>20. Made(m, l, x.r, segs) /\ x.r \in DOMAIN l
  BY <1>2, <1>3, <1>11
<1>21. Types' /\ CpusFit' /\ SrbsFit' /\ Unloading' /\ Counted' /\ EventFits' /\ PoolFits'
  BY <1>1, <1>2, <1>3, <1>14, <1>16, <1>17, <1>18, <1>19, <1>20, CleanKeep
<1> QED
  BY <1>21 DEF PInv

\* A buffer goes to the head of the free ones.
LEMMA PushFits ==
  ASSUME NEW f, NEW u, FreeFits(f, u), NEW b \in u, NEW t, t = PushFreeList(f, b)
  PROVE  FreeFits(t, u \ {b})
<1>1. /\ f \in Seq(Buffers) /\ Once(f) /\ u \in SUBSET Buffers /\ \A i \in DOMAIN f : f[i] \notin u
  BY DEF FreeFits
<1>2. Len(f) \in Nat /\ DOMAIN f = 1 .. Len(f) /\ b \in Buffers
  BY <1>1, LenProperties
<1>3. PICK one : one = <<b>>
  OBVIOUS
<1>4. one \in Seq(Buffers) /\ Len(one) = 1 /\ one[1] = b
  BY <1>2, <1>3
<1>5. t = one \o f
  BY <1>3 DEF PushFreeList
<1>6. /\ t \in Seq(Buffers) /\ Len(t) = Len(f) + 1
      /\ \A i \in 1 .. Len(f) + 1 : t[i] = IF i <= 1 THEN one[i] ELSE f[i - 1]
  BY <1>1, <1>4, <1>5, ConcatProperties
<1>7. DOMAIN t = 1 .. Len(f) + 1 /\ t[1] = b /\ \A i \in DOMAIN t : i # 1 => i - 1 \in DOMAIN f /\ t[i] = f[i - 1] /\ i \in Nat
  BY <1>2, <1>4, <1>6, LenProperties
<1>8. Once(t)
  BY <1>1, <1>7 DEF Once
<1>9. \A i \in DOMAIN t : t[i] \notin u \ {b}
  BY <1>1, <1>7
<1> QED
  BY <1>1, <1>6, <1>8, <1>9 DEF FreeFits

\* A buffer is given back, and a mapping.
LEMMA BufferPutKeeps ==
  ASSUME PInv, NEW c \in Cpus, BufferPut(c)
  PROVE  PInv'
<1>1. PICK x, s : x = cpu[c] /\ s = Mine(c)
  OBVIOUS
<1>2. PICK l, r, k : l = requests[s] /\ r = x.r /\ k = x.k
  OBVIOUS
<1>3. cpu[c].pc \in CleanPcs /\ x.pc = "put" /\ x.pc # "idle"
  BY <1>1 DEF BufferPut, CleanPcs
<1>4. r \in DOMAIN l /\ k \in DOMAIN l[r].segs
  BY <1>1, <1>2, <1>3, AtWork DEF Works, PutFits
<1>5. /\ IsThread(x) /\ x.s = s /\ s \in Srbs /\ AreOf(l) /\ status[s] \in InHand /\ r \in Nat
  BY <1>1, <1>2, <1>3, <1>4, CleaningNow
<1>6. PICK q, old, b : q = l[r] /\ old = q.segs /\ b = old[k].buf
  OBVIOUS
<1>7. IsRequest(q) /\ AreSegments(old) /\ k \in DOMAIN old /\ IsSegment(old[k]) /\ k \in Nat /\ b \in Buffers \cup {"none"}
  BY <1>4, <1>5, <1>6, ListIs DEF AreOf, IsRequest, AreSegments, IsSegment
<1>8. PICK seg : seg = [old[k] EXCEPT !.buf = "none", !.mapped = FALSE]
  OBVIOUS
<1>9. IsSegment(seg) /\ seg.buf = "none"
  BY <1>7, <1>8 DEF IsSegment
<1>10. /\ SetSeg(c, k, seg) /\ Goto(c, "cleanup") /\ usedList' = usedList \ {b}
       /\ free' = IF b = "none" THEN free ELSE PushFreeList(free, b)
  BY <1>1, <1>2, <1>6, <1>8 DEF BufferPut, Request, RemoveUsedList
<1>11. PICK m, segs : Reset(m, segs, c, s, l, old, k, seg)
  BY <1>1, <1>2, <1>4, <1>5, <1>6, <1>7, <1>9, <1>10, SetSegIs
<1>12. requests' = [requests EXCEPT ![s] = m] /\ Made(m, l, r, segs) /\ IsList(segs) /\ Replaced(segs, old, k, seg)
  BY <1>1, <1>2, <1>11 DEF Reset
<1>13. PICK y : y = [x EXCEPT !.pc = "cleanup"]
  OBVIOUS
<1>14. cpu' = [cpu EXCEPT ![c] = y]
  BY <1>1, <1>10, <1>13 DEF Goto
<1>15. IsThread(y) /\ y.pc = "cleanup" /\ y.s = x.s /\ y.r = x.r /\ y.failing = x.failing
  BY <1>5, <1>13 DEF IsThread, CleanPcs
<1>16. DOMAIN segs = DOMAIN old /\ segs[k] = seg /\ \A j \in DOMAIN old : j # k => segs[j] = old[j]
  BY <1>7, <1>12, ListIs DEF Replaced, AreSegments
<1>17. PutFits(y, m) /\ y.pc \in CleanPcs
  BY <1>15 DEF PutFits, CleanPcs
<1>18. ringLock' = ringLock /\ unload' = unload /\ empty' = empty /\ used' = used /\ status' = status
  BY DEF BufferPut
<1>19. Turns(c, y, s, m, status[s])
  BY <1>5, <1>12, <1>14, <1>18, Parts DEF Turns, Types
<1>20. Made(m, l, x.r, segs) /\ x.r \in DOMAIN l
  BY <1>2, <1>4, <1>12
<1>21. /\ Types' /\ CpusFit' /\ SrbsFit' /\ Unloading' /\ Counted' /\ EventFits'
       /\ Changed(requests', requests, s, m)
       /\ free' = free /\ usedList' = usedList /\ SameUse(m, l) => PoolFits'
  BY <1>1, <1>2, <1>3, <1>15, <1>17, <1>18, <1>19, <1>20, CleanKeep
<1>22. FreeFits(free, usedList) /\ Named(usedList, UsersIn(requests)) /\ "none" \notin Buffers
  BY Parts, PrepareAssumption DEF PoolFits
<1>23. CASE b = "none"
  <2>1. SameBufs(segs, old)
    BY <1>6, <1>7, <1>9, <1>16, <1>23 DEF SameBufs, Has
  <2>2. SameUse(m, l)
    BY <1>4, <1>6, <1>12, <2>1, MadeUse
  <2>3. free' = free /\ usedList' = usedList
    BY <1>10, <1>22, <1>23 DEF FreeFits
  <2> QED
    BY <1>21, <2>2, <2>3 DEF PInv
<1>24. CASE b \in Buffers
  <2>1. LessBufs(segs, old, k)
    BY <1>6, <1>7, <1>9, <1>16, <1>22 DEF LessBufs, Has
  <2>2. LessUse(m, l, r, k)
    BY <1>4, <1>6, <1>7, <1>12, <2>1, MadeUse
  <2>3. Names(l, r, k, b)
    BY <1>4, <1>6 DEF Names
  <2>4. b \in usedList /\ Named(usedList \ {b}, UsersIn(requests'))
    BY <1>2, <1>5, <1>7, <1>21, <1>22, <1>24, <2>2, <2>3, UseLess
  <2>5. free' = PushFreeList(free, b)
    BY <1>10, <1>22, <1>24
  <2>6. FreeFits(free', usedList \ {b})
    BY <1>22, <2>4, <2>5, PushFits
  <2> QED
    BY <1>10, <1>21, <2>4, <2>6 DEF PInv, PoolFits
<1> QED
  BY <1>7, <1>23, <1>24

\* The request r has another answer.
Answered(m, l, r, a) ==
  /\ AreOf(m) /\ Len(m) = Len(l) /\ DOMAIN m = DOMAIN l
  /\ m[r].first = l[r].first /\ m[r].segs = l[r].segs /\ m[r].answer = a
  /\ \A i \in DOMAIN l : i # r => m[i] = l[i]

\* The requests of the SRB, then.
LEMMA AnswerIs ==
  ASSUME NEW l, AreOf(l), NEW r \in DOMAIN l, NEW a \in Answers, NEW q, q = [l[r] EXCEPT !.answer = a],
         NEW m, m = [l EXCEPT ![r] = q]
  PROVE  Answered(m, l, r, a)
<1>1. PICK p : p = l[r]
  OBVIOUS
<1>2. IsRequest(p)
  BY <1>1 DEF AreOf
<1>3. q = [p EXCEPT !.answer = a]
  BY <1>1
<1>4. IsRequest(q) /\ q.first = p.first /\ q.answer = a /\ q.segs = p.segs
  BY <1>2, <1>3 DEF IsRequest, Answers
<1>5. AreOf(m) /\ Replaced(m, l, r, q)
  BY <1>4, RequestReplaced
<1> QED
  BY <1>1, <1>4, <1>5, ListIs DEF Answered, Replaced, AreOf

\* An answer takes no buffer and gives none back.
LEMMA AnsweredUse ==
  ASSUME NEW l, NEW r, NEW a, NEW m, Answered(m, l, r, a)
  PROVE  SameUse(m, l)
BY DEF Answered, SameUse, Names

\* A request is off the list, and counted out.
LEMMA FreeRequestKeeps ==
  ASSUME PInv, NEW c \in Cpus, FreeRequest(c)
  PROVE  PInv'
<1>1. PICK x, s : x = cpu[c] /\ s = Mine(c)
  OBVIOUS
<1>2. PICK l, r : l = requests[s] /\ r = x.r
  OBVIOUS
<1>3. cpu[c].pc \in CleanPcs /\ r \in DOMAIN l /\ Holders(l[r]) = {} /\ x.pc = "cleanup"
  BY <1>1, <1>2 DEF FreeRequest, CleanPcs, Request
<1>4. /\ IsThread(x) /\ x.s = s /\ s \in Srbs /\ AreOf(l) /\ Works(x, l, status[s], ringLock = c)
      /\ status[s] \in InHand /\ l[r].answer \in Answers /\ l[r].answer \notin Gone /\ r \in Nat
      /\ cpu[c].pc # "idle" /\ cpu[c].pc # "set"
  BY <1>1, <1>2, <1>3, CleaningNow
<1>5. PICK a, pc : a = (IF l[r].answer = "error" THEN "failed" ELSE "freed") /\ pc = (IF used = 1 THEN "set" ELSE "next")
  OBVIOUS
<1>6. a \in Gone /\ a \in Answers /\ pc \in FreedPcs /\ (used = 1 => pc = "set")
  BY <1>5 DEF Gone, Answers, FreedPcs
<1>7. PICK q, m : q = [l[r] EXCEPT !.answer = a] /\ m = [l EXCEPT ![r] = q]
  OBVIOUS
<1>8. Answered(m, l, r, a)
  BY <1>3, <1>4, <1>6, <1>7, AnswerIs
<1>9. requests' = [requests EXCEPT ![s] = m]
  BY <1>1, <1>2, <1>5, <1>7 DEF FreeRequest
<1>10. Changed(requests', requests, s, m)
  BY <1>4, <1>9, RequestsAre, ChangeIs
<1>11. PICK y : y = [x EXCEPT !.pc = pc]
  OBVIOUS
<1>12. cpu' = [cpu EXCEPT ![c] = y]
  BY <1>1, <1>5, <1>11 DEF FreeRequest, Goto
<1>13. IsThread(y) /\ y.pc = pc /\ y.s = s /\ y.r = r /\ y.failing = x.failing
  BY <1>2, <1>4, <1>6, <1>11 DEF IsThread, FreedPcs
<1>14. /\ ringLock' = ringLock /\ unload' = unload /\ status' = status /\ empty' = empty
       /\ free' = free /\ usedList' = usedList /\ used' = used - 1
  BY DEF FreeRequest, poolVars
<1>15. PICK st \in InHand : st = status[s]
  BY <1>4
<1>16. status' = [status EXCEPT ![s] = st] /\ st \in States
  BY <1>14, <1>15, Parts DEF Types, States, InHand
<1>17. Works(y, m, st, ringLock = c)
  <2>1. y.pc \in FreedPcs /\ y.pc \notin CleanPcs /\ y.pc \notin PreparePcs /\ y.pc # "put"
    BY <1>6, <1>13 DEF FreedPcs, CleanPcs, PreparePcs
  <2>2. x.pc \notin PreparePcs /\ x.pc \in CleanPcs
    BY <1>3 DEF CleanPcs, PreparePcs
  <2>3. CASE ringLock = c
    BY <1>2, <1>3, <1>4, <1>6, <1>8, <1>13, <1>15, <2>1, <2>2, <2>3 DEF Works, Completing, PutFits, Answered
  <2>4. CASE ringLock # c
    <3>1. Undoing(x, l) /\ st = "preparing"
      BY <1>4, <1>15, <2>2, <2>4 DEF Works, Preparing
    <3>2. Undoing(y, m)
      BY <1>2, <1>3, <1>6, <1>8, <1>13, <2>1, <2>2, <3>1 DEF Undoing, Answered
    <3> QED
      BY <1>4, <1>13, <2>1, <2>4, <3>1, <3>2 DEF Works, Preparing, PutFits
  <2> QED
    BY <2>3, <2>4
<1>18. HasThread(y, s, m, st, ringLock' = c)
  BY <1>6, <1>13, <1>14, <1>17 DEF HasThread, FreedPcs
<1>19. Stage(m, st)
  <2>1. GoneHolds(l)
    BY <1>2, <1>4, RequestsAre DEF Stage
  <2>2. GoneHolds(m)
    BY <1>3, <1>8, <2>1 DEF GoneHolds, Answered, Holders
  <2> QED
    BY <1>15, <2>2 DEF Stage, InHand, Done
<1>20. PICK L, z : L = LiveIn(requests) /\ z = <<s, r>>
  OBVIOUS
<1>21. IsFiniteSet(L) /\ used = Cardinality(L) /\ z \in L
  BY <1>2, <1>3, <1>4, <1>20, Parts DEF Counted, Counts, LiveIn, Live
<1>22. LiveIn(requests') = L \ {z}
  <2>1. LessLive(m, l, r)
    BY <1>3, <1>6, <1>8 DEF LessLive, Live, Answered
  <2> QED
    BY <1>2, <1>4, <1>10, <1>20, <2>1, LiveLess
<1>23. IsFiniteSet(L \ {z}) /\ Cardinality(L \ {z}) = used - 1 /\ used - 1 \in Nat
  <2>1. IsFiniteSet(L \ {z}) /\ Cardinality(L \ {z}) = Cardinality(L) - 1
    BY <1>21, FS_RemoveElement
  <2>2. Cardinality(L \ {z}) \in Nat
    BY <2>1, FS_CardinalityType
  <2> QED
    BY <1>21, <2>1, <2>2
<1>24. Counted'
  BY <1>14, <1>22, <1>23 DEF Counted, Counts
<1>25. EventFits'
  <2>1. used' = 0 => used = 1
    BY <1>14, Parts DEF Types
  <2>2. cpu'[c].pc = pc
    BY <1>12, <1>13, Parts DEF Types
  <2> QED
    BY <1>6, <2>1, <2>2 DEF EventFits
<1>26. used' \in Nat /\ empty' \in BOOLEAN /\ ringLock' \in Cpus \cup {"none"}
  BY <1>14, <1>23, Parts DEF Types
<1>27. AreOf(m) /\ \A d \in Cpus : d # c => (ringLock' = d <=> ringLock = d)
  BY <1>8, <1>14 DEF Answered
<1>28. Types' /\ CpusFit' /\ SrbsFit' /\ Unloading'
  BY <1>1, <1>4, <1>10, <1>12, <1>13, <1>14, <1>16, <1>18, <1>19, <1>26, <1>27, WorkKeeps
<1>29. PoolFits'
  <2>1. SameUse(m, requests[s])
    BY <1>2, <1>8, AnsweredUse
  <2> QED
    BY <1>4, <1>10, <1>12, <1>14, <2>1, RestKeeps
<1> QED
  BY <1>24, <1>25, <1>28, <1>29 DEF PInv

\* The event is set.
LEMMA SetEventKeeps ==
  ASSUME PInv, NEW c \in Cpus, SetEvent(c)
  PROVE  PInv'
<1>1. PICK x, s : x = cpu[c] /\ s = Mine(c)
  OBVIOUS
<1>2. PICK l : l = requests[s]
  OBVIOUS
<1>3. x.pc = "set" /\ cpu[c].pc # "idle"
  BY <1>1 DEF SetEvent
<1>4. IsThread(x) /\ x.s = s /\ s \in Srbs /\ Works(x, l, status[s], ringLock = c)
  BY <1>1, <1>2, <1>3, AtWork DEF Mine
<1>5. AreOf(l) /\ status[s] \in States /\ Stage(l, status[s])
  BY <1>2, <1>4, RequestsAre
<1>6. PICK y : y = [x EXCEPT !.pc = "next"]
  OBVIOUS
<1>7. cpu' = [cpu EXCEPT ![c] = y] /\ empty' = TRUE
  BY <1>1, <1>6 DEF SetEvent, Goto
<1>8. IsThread(y) /\ y.pc = "next" /\ y.s = s /\ y.r = x.r /\ y.failing = x.failing
  BY <1>4, <1>6 DEF IsThread, FreedPcs
<1>9. /\ ringLock' = ringLock /\ unload' = unload /\ status' = status /\ used' = used
      /\ free' = free /\ usedList' = usedList /\ requests' = requests
  BY DEF SetEvent, poolVars, srbVars
<1>10. Works(y, l, status[s], ringLock = c)
  BY <1>3, <1>4, <1>8 DEF Works, PutFits, Completing, Preparing, Undoing, CleanPcs, PreparePcs, FreedPcs
<1>11. HasThread(y, s, l, status[s], ringLock' = c)
  BY <1>8, <1>9, <1>10 DEF HasThread
<1>12. Changed(requests', requests, s, l)
  BY <1>2, <1>4, <1>9, Unchanged
<1>13. status' = [status EXCEPT ![s] = status[s]]
  BY <1>9, Parts DEF Types
<1>14. /\ used' \in Nat /\ empty' \in BOOLEAN /\ ringLock' \in Cpus \cup {"none"}
       /\ \A d \in Cpus : d # c => (ringLock' = d <=> ringLock = d)
  BY <1>7, <1>9, Parts DEF Types
<1>15. Types' /\ CpusFit' /\ SrbsFit' /\ Unloading'
  BY <1>1, <1>3, <1>5, <1>7, <1>8, <1>9, <1>11, <1>12, <1>13, <1>14, WorkKeeps
<1>16. Counted' /\ PoolFits' /\ EventFits'
  BY <1>7, <1>9, Parts DEF Counted, PoolFits, EventFits
<1> QED
  BY <1>15, <1>16 DEF PInv

\* The next request of an SRB that failed, or the end of an answer.
LEMMA ContinueKeeps ==
  ASSUME PInv, NEW c \in Cpus, Continue(c)
  PROVE  PInv'
<1>1. PICK x, s : x = cpu[c] /\ s = Mine(c)
  OBVIOUS
<1>2. PICK l, locked : l = requests[s] /\ locked = (ringLock = c)
  OBVIOUS
<1>3. x.pc = "next" /\ cpu[c].pc # "idle" /\ cpu[c].pc # "set" /\ x.pc \notin PreparePcs /\ x.pc \notin CleanPcs
  BY <1>1 DEF Continue, PreparePcs, CleanPcs
<1>4. IsThread(x) /\ x.s = s /\ s \in Srbs /\ Works(x, l, status[s], ringLock = c)
  BY <1>1, <1>2, <1>3, AtWork DEF Mine
<1>5. AreOf(l) /\ status[s] \in States /\ Stage(l, status[s]) /\ Len(l) \in Nat /\ DOMAIN l = 1 .. Len(l)
  BY <1>2, <1>4, RequestsAre, ListIs DEF AreOf
<1>6. /\ unload' = unload /\ used' = used /\ empty' = empty
      /\ free' = free /\ usedList' = usedList /\ requests' = requests
  BY DEF Continue, poolVars
<1>7. CASE x.failing
  <2>1. ringLock # c /\ status[s] = "preparing" /\ Undoing(x, l)
    BY <1>3, <1>4, <1>7 DEF Works, Completing, Preparing
  <2>2. x.r \in DOMAIN l /\ l[x.r].answer \in Gone /\ \A i \in DOMAIN l : (i < x.r => l[i].answer \in Gone) /\ (i > x.r => l[i].answer = "none")
    BY <1>3, <2>1 DEF Undoing, FreedPcs
  <2>3. PICK n : n = x.r + 1
    OBVIOUS
  <2>4. n \in 1 .. Len(l) + 1 /\ n \in Nat
    BY <1>5, <2>2, <2>3
  <2>5. PICK y : y = [x EXCEPT !.pc = "cleanup", !.r = n]
    OBVIOUS
  <2>6. cpu' = [cpu EXCEPT ![c] = y] /\ ringLock' = ringLock /\ status' = status
    BY <1>1, <1>7, <2>3, <2>5 DEF Continue
  <2>7. IsThread(y) /\ y.pc = "cleanup" /\ y.s = s /\ y.r = n /\ y.failing
    BY <1>4, <1>7, <2>4, <2>5 DEF IsThread, CleanPcs
  <2>8. Undoing(y, l)
    <3>1. \A i \in DOMAIN l : (i < n => l[i].answer \in Gone) /\ (i > n => l[i].answer = "none")
      <4>1. \A i \in DOMAIN l : (i < n => i < x.r \/ i = x.r) /\ (i > n => i > x.r)
        BY <1>5, <2>2, <2>3
      <4> QED
        BY <2>2, <4>1
    <3>2. n \in DOMAIN l => l[n].answer = "none"
      <4>1. n > x.r
        BY <1>5, <2>2, <2>3
      <4> QED
        BY <2>2, <4>1
    <3> QED
      BY <2>4, <2>7, <3>1, <3>2 DEF Undoing, CleanPcs, FreedPcs
  <2>9. Works(y, l, "preparing", ringLock = c)
    BY <1>4, <2>1, <2>7, <2>8 DEF Works, Preparing, PutFits, PreparePcs
  <2> QED
    BY <1>1, <1>2, <1>3, <1>6, <2>1, <2>6, <2>7, <2>9, MoveKeeps
<1>8. CASE ~ x.failing
  <2>1. ringLock = c /\ status[s] = "prepared"
    BY <1>3, <1>4, <1>8 DEF Works, Preparing, Undoing
  <2>2. cpu' = [cpu EXCEPT ![c] = Idle] /\ ringLock' = "none"
    BY <1>1, <1>8 DEF Continue
  <2>3. PICK st \in States : status' = [status EXCEPT ![s] = st] /\ Stage(l, st)
    <3>1. CASE \A q \in ToSet(requests[s]) : q.answer \in {"freed", "failed"}
      <4>1. PICK st : st = IF \E q \in ToSet(requests[s]) : q.answer = "failed" THEN "error" ELSE "good"
        OBVIOUS
      <4>2. status' = [status EXCEPT ![s] = st]
        BY <1>1, <1>8, <3>1, <4>1 DEF Continue
      <4>3. st \in Done
        BY <4>1 DEF Done
      <4>4. AllGone(l)
        BY <1>2, <3>1 DEF AllGone, Gone, ToSet
      <4> QED
        BY <1>5, <4>2, <4>3, <4>4 DEF Stage, States, Done
    <3>2. CASE ~ \A q \in ToSet(requests[s]) : q.answer \in {"freed", "failed"}
      <4>1. status' = status
        BY <1>1, <1>8, <3>2 DEF Continue
      <4>2. status' = [status EXCEPT ![s] = status[s]]
        BY <4>1, Parts DEF Types
      <4> QED
        BY <1>5, <4>2
    <3> QED
      BY <3>1, <3>2
  <2>4. c # "none" /\ "none" \notin Cpus
    BY PrepareAssumption
  <2>5. /\ used' \in Nat /\ empty' \in BOOLEAN /\ ringLock' \in Cpus \cup {"none"}
        /\ \A d \in Cpus : d # c => (ringLock' = d <=> ringLock = d)
    BY <1>6, <2>1, <2>2, <2>4, Parts DEF Types
  <2>6. IsThread(Idle) /\ HasThread(Idle, s, l, st, ringLock' = c)
    BY <2>2, <2>4, IdleIs DEF HasThread, Idle
  <2>7. Changed(requests', requests, s, l) /\ SameLive(l, requests[s]) /\ SameUse(l, requests[s])
    BY <1>2, <1>4, <1>6, Unchanged
  <2>8. Types' /\ CpusFit' /\ SrbsFit' /\ Unloading'
    BY <1>1, <1>3, <1>5, <1>6, <2>2, <2>3, <2>5, <2>6, <2>7, WorkKeeps
  <2>9. Counted' /\ EventFits' /\ PoolFits'
    BY <1>3, <1>4, <1>6, <2>2, <2>7, RestKeeps
  <2> QED
    BY <2>8, <2>9 DEF PInv
<1> QED
  BY <1>4, <1>7, <1>8 DEF IsThread

\* What has given everything back is neither live nor used.
LEMMA GoneIsFree ==
  ASSUME NEW l, AreOf(l), AllGone(l), GoneHolds(l), NEW m, m = <<>>
  PROVE  AreOf(m) /\ DOMAIN m = {} /\ SameLive(m, l) /\ SameUse(m, l)
<1>1. AreOf(m) /\ DOMAIN m = {}
  BY DEF AreOf, IsList
<1>2. SameLive(m, l)
  BY <1>1 DEF SameLive, Live, AllGone
<1>3. ASSUME NEW r \in Nat, NEW k \in Nat, NEW b \in Buffers, Names(l, r, k, b)
      PROVE  FALSE
  <2>1. r \in DOMAIN l /\ k \in DOMAIN l[r].segs /\ l[r].segs[k].buf = b /\ Holders(l[r]) = {}
    BY <1>3 DEF Names, AllGone, GoneHolds
  <2>2. IsSegment(l[r].segs[k]) /\ b # "none"
    BY <2>1, PrepareAssumption DEF AreOf, IsRequest, AreSegments
  <2>3. l[r].segs[k].mapped
    BY <2>1, <2>2 DEF IsSegment
  <2> QED
    BY <2>1, <2>3 DEF Holders, Holding
<1>4. SameUse(m, l)
  BY <1>1, <1>3 DEF SameUse, Names
<1> QED
  BY <1>1, <1>2, <1>4

\* The SRB that failed is back at the head of FreshSrbs.
LEMMA PutBackKeeps ==
  ASSUME PInv, NEW c \in Cpus, PutBack(c)
  PROVE  PInv'
<1>1. PICK x, s : x = cpu[c] /\ s = Mine(c)
  OBVIOUS
<1>2. PICK l, m : l = requests[s] /\ m = <<>>
  OBVIOUS
<1>3. x.pc = "cleanup" /\ cpu[c].pc # "idle" /\ cpu[c].pc # "set" /\ x.pc \notin PreparePcs /\ x.r \notin DOMAIN l
  BY <1>1, <1>2 DEF PutBack, PreparePcs
<1>4. IsThread(x) /\ x.s = s /\ s \in Srbs /\ Works(x, l, status[s], ringLock = c)
  BY <1>1, <1>2, <1>3, AtWork DEF Mine
<1>5. AreOf(l) /\ GoneHolds(l) /\ Len(l) \in Nat /\ DOMAIN l = 1 .. Len(l)
  BY <1>2, <1>4, RequestsAre, ListIs DEF AreOf, Stage
<1>6. ringLock # c /\ Undoing(x, l)
  BY <1>3, <1>4 DEF Works, Completing, Preparing
<1>7. AllGone(l)
  <2>1. \A i \in DOMAIN l : i < x.r
    BY <1>3, <1>5, <1>6 DEF Undoing
  <2> QED
    BY <1>6, <2>1 DEF Undoing, AllGone
<1>8. AreOf(m) /\ DOMAIN m = {} /\ SameLive(m, l) /\ SameUse(m, l)
  BY <1>2, <1>5, <1>7, GoneIsFree
<1>9. /\ ringLock' = ringLock /\ unload' = unload /\ used' = used /\ empty' = empty
      /\ free' = free /\ usedList' = usedList /\ cpu' = [cpu EXCEPT ![c] = Idle]
      /\ status' = [status EXCEPT ![s] = "fresh"] /\ requests' = [requests EXCEPT ![s] = m]
  BY <1>1, <1>2 DEF PutBack, poolVars
<1>10. Changed(requests', requests, s, m)
  BY <1>4, <1>9, RequestsAre, ChangeIs
<1>11. IsThread(Idle) /\ HasThread(Idle, s, m, "fresh", ringLock' = c)
  BY <1>6, <1>9, IdleIs DEF HasThread, Idle
<1>12. Stage(m, "fresh") /\ "fresh" \in States
  BY <1>2, <1>8 DEF Stage, GoneHolds, Done, States
<1>13. /\ used' \in Nat /\ empty' \in BOOLEAN /\ ringLock' \in Cpus \cup {"none"}
       /\ \A d \in Cpus : d # c => (ringLock' = d <=> ringLock = d)
  BY <1>9, Parts DEF Types
<1>14. Types' /\ CpusFit' /\ SrbsFit' /\ Unloading'
  BY <1>1, <1>3, <1>8, <1>9, <1>10, <1>11, <1>12, <1>13, WorkKeeps
<1>15. Counted' /\ EventFits' /\ PoolFits'
  BY <1>2, <1>3, <1>4, <1>8, <1>9, <1>10, RestKeeps
<1> QED
  BY <1>14, <1>15 DEF PInv

\* An idle processor takes RingLock, and an answer.
LEMMA RespondKeeps ==
  ASSUME PInv, NEW c \in Cpus, NEW s \in Srbs, NEW r \in DOMAIN requests[s], Respond(c, s, r)
  PROVE  PInv'
<1>1. PICK l, y : l = requests[s] /\ y = [Idle EXCEPT !.pc = "cleanup", !.s = s, !.r = r]
  OBVIOUS
<1>2. cpu' = [cpu EXCEPT ![c] = y] /\ status[s] = "prepared" /\ l[r].answer \in {"okay", "error"} /\ ringLock = "none" /\ ringLock' = c
  BY <1>1 DEF Respond
<1>3. AreOf(l) /\ Stage(l, status[s]) /\ r \in Nat
  BY <1>1, RequestsAre, ListIs DEF AreOf
<1>4. IsThread(y) /\ y.pc = "cleanup" /\ y.s = s /\ ~ y.failing /\ y.r = r
  BY <1>1, <1>3, IdleIs DEF Idle
<1>5. cpu[c].pc = "idle" /\ "none" \notin Cpus
  BY PrepareAssumption DEF Respond
<1>6. ASSUME NEW d \in Cpus, d # c, Busy(d)
      PROVE  Mine(d) # s
  <2>1. Works(cpu[d], requests[Mine(d)], status[Mine(d)], ringLock = d)
    BY <1>6, AtWork DEF Busy
  <2>2. ringLock # d
    BY <1>2, <1>5
  <2> QED
    BY <1>2, <2>1, <2>2 DEF Works
<1>7. Works(y, l, "prepared", ringLock' = c)
  BY <1>1, <1>2, <1>4 DEF Works, PutFits, Completing, CleanPcs
<1>8. HasThread(y, s, l, "prepared", ringLock' = c)
  BY <1>4, <1>7 DEF HasThread
<1>9. /\ unload' = unload /\ used' = used /\ empty' = empty /\ status' = status
      /\ free' = free /\ usedList' = usedList /\ requests' = requests
  BY DEF Respond, poolVars, srbVars
<1>10. Changed(requests', requests, s, l) /\ SameLive(l, requests[s]) /\ SameUse(l, requests[s])
  BY <1>1, <1>9, Unchanged
<1>11. unload = "loaded"
  BY <1>2, Parts DEF Unloading, Quiet, Done
<1>12. status' = [status EXCEPT ![s] = "prepared"] /\ "prepared" \in States
  BY <1>2, <1>9, Parts DEF Types, States
<1>13. /\ used' \in Nat /\ empty' \in BOOLEAN /\ ringLock' \in Cpus \cup {"none"}
       /\ \A d \in Cpus : d # c => (ringLock' = d <=> ringLock = d)
  BY <1>2, <1>5, <1>9, Parts DEF Types
<1>14. Types' /\ CpusFit' /\ SrbsFit' /\ Unloading'
  <2>1. PICK st \in States : st = "prepared"
    BY <1>12
  <2>2. Stage(l, st) /\ HasThread(y, s, l, st, ringLock' = c) /\ status' = [status EXCEPT ![s] = st]
    BY <1>2, <1>3, <1>8, <1>12, <2>1
  <2>3. cpu' = [cpu EXCEPT ![c] = y] /\ c \in Cpus /\ s \in Srbs
    BY <1>2
  <2>4. IsThread(y) /\ AreOf(l) /\ Changed(requests', requests, s, l) /\ unload' = unload /\ unload = "loaded"
    BY <1>3, <1>4, <1>9, <1>10, <1>11
  <2> QED
    BY <1>6, <1>13, <2>2, <2>3, <2>4, StepKeeps, ZenonT(60)
<1>15. Counted' /\ EventFits' /\ PoolFits'
  BY <1>2, <1>5, <1>9, <1>10, RestKeeps
<1> QED
  BY <1>14, <1>15 DEF PInv

-----------------------------------------------------------------------------
(* The backend and the threads. *)

\* The backend answers: a processor that is at the SRB is at an answer it had before.
LEMMA AnswerKeeps ==
  ASSUME PInv, NEW s \in Srbs, NEW r \in DOMAIN requests[s], Answer(s, r)
  PROVE  PInv'
<1>1. PICK l : l = requests[s]
  OBVIOUS
<1>2. PICK a \in {"okay", "error"} : requests' = [requests EXCEPT ![s][r].answer = a]
  BY DEF Answer
<1>3. PICK q, m : q = [l[r] EXCEPT !.answer = a] /\ m = [l EXCEPT ![r] = q]
  OBVIOUS
<1>4. a \in Answers /\ a \notin Gone
  BY <1>2 DEF Answers, Gone
<1>5. /\ status[s] = "prepared" /\ l[r].answer = "none" /\ status' = status /\ used' = used /\ empty' = empty
      /\ cpu' = cpu /\ ringLock' = ringLock /\ free' = free /\ usedList' = usedList /\ unload' = unload /\ reaper' = reaper
  BY <1>1 DEF Answer
<1>6. AreOf(l) /\ Stage(l, status[s]) /\ r \in DOMAIN l
  BY <1>1, RequestsAre
<1>7. Answered(m, l, r, a)
  BY <1>3, <1>4, <1>6, AnswerIs
<1>8. Changed(requests', requests, s, m)
  <2>1. requests' = [requests EXCEPT ![s] = m]
    BY <1>1, <1>2, <1>3
  <2> QED
    BY <2>1, RequestsAre, ChangeIs
<1>9. Types'
  <2>1. AreRequests(requests')
    BY <1>7, <1>8, Parts, ChangedFit DEF Types, Answered
  <2> QED
    BY <1>5, <2>1, Parts DEF Types
<1>10. ASSUME NEW d \in Cpus
       PROVE  Fits(d)'
  <2>1. CASE ~ Busy(d)
    BY <1>5, <2>1, Parts DEF Fits, Busy, CpusFit
  <2>2. CASE Busy(d) /\ Mine(d) # s
    <3>1. Fits(d) /\ Mine(d) \in Srbs
      BY <2>2, AtWork, Parts DEF Busy, CpusFit
    <3>2. requests'[Mine(d)] = requests[Mine(d)]
      BY <1>8, <2>2, <3>1 DEF Changed
    <3> QED
      BY <1>5, <2>2, <3>1, <3>2 DEF Fits, Busy, Mine
  <2>3. CASE Busy(d) /\ Mine(d) = s
    <3>1. PICK x, locked : x = cpu[d] /\ locked = (ringLock = d)
      OBVIOUS
    <3>2. Works(x, l, "prepared", locked)
      BY <1>1, <1>5, <2>3, <3>1, AtWork DEF Busy
    <3>3. locked /\ Completing(x, l) /\ x.s \in Srbs /\ PutFits(x, l)
      BY <3>2 DEF Works
    <3>4. x.r # r
      BY <1>5, <3>3 DEF Completing, Gone
    <3>5. x.r \in DOMAIN l /\ m[x.r] = l[x.r] /\ DOMAIN m = DOMAIN l
      BY <1>7, <3>3, <3>4 DEF Completing, Answered
    <3>6. Works(x, m, "prepared", locked)
      BY <3>3, <3>5 DEF Works, Completing, PutFits
    <3>7. requests'[s] = m
      BY <1>8 DEF Changed
    <3> QED
      BY <1>5, <2>3, <3>1, <3>6, <3>7 DEF Fits, Busy, Mine
  <2> QED
    BY <2>1, <2>2, <2>3
<1>11. CpusFit'
  BY <1>5, <1>10, Parts DEF CpusFit, Alone, Busy, Mine
<1>12. SrbsFit'
  <2>1. Stage(m, status[s])
    <3>1. GoneHolds(m)
      BY <1>4, <1>6, <1>7 DEF GoneHolds, Answered, Stage
    <3> QED
      BY <1>5, <3>1 DEF Stage, Done
  <2> QED
    BY <1>5, <1>8, <2>1, Parts DEF SrbsFit, Changed
<1>13. Counted'
  <2>1. SameLive(m, l)
    BY <1>4, <1>5, <1>6, <1>7 DEF SameLive, Live, Answered, Gone
  <2>2. LiveIn(requests') = LiveIn(requests)
    BY <1>1, <1>8, <2>1, LiveKept
  <2> QED
    BY <1>5, <2>2, Parts DEF Counted
<1>14. PoolFits'
  <2>1. SameUse(m, l)
    BY <1>7, AnsweredUse
  <2>2. UsersIn(requests') = UsersIn(requests)
    BY <1>1, <1>8, <2>1, UseKept
  <2> QED
    BY <1>5, <2>2, Parts DEF PoolFits
<1>15. EventFits' /\ Unloading'
  BY <1>5, Parts DEF EventFits, Unloading, Quiet
<1> QED
  BY <1>9, <1>11, <1>12, <1>13, <1>14, <1>15 DEF PInv

\* The steps that leave the SRBs alone.
LEMMA PoolKeeps ==
  ASSUME PInv, UNCHANGED <<requests, status, cpu, ringLock, used, empty>>, usedList' = usedList,
         FreeFits(free', usedList), Unloading'
  PROVE  PInv'
<1>1. Types' /\ CpusFit' /\ SrbsFit' /\ Counted' /\ EventFits'
  BY Parts DEF Types, CpusFit, Fits, Alone, Busy, Mine, SrbsFit, Counted, EventFits
<1>2. PoolFits'
  BY Parts DEF PoolFits
<1> QED
  BY <1>1, <1>2 DEF PInv

\* With no SRB in the driver no buffer is used.
LEMMA QuietUses ==
  ASSUME PInv, Quiet
  PROVE  usedList = {} /\ LiveIn(requests) = {} /\ UsersIn(requests) = {}
<1>1. ASSUME NEW s \in Srbs
      PROVE  AreOf(requests[s]) /\ AllGone(requests[s]) /\ GoneHolds(requests[s])
  <2>1. AreOf(requests[s]) /\ Stage(requests[s], status[s]) /\ status[s] \in {"fresh"} \cup Done
    BY RequestsAre DEF Quiet
  <2> QED
    BY <2>1 DEF Stage, AllGone
<1>2. PICK none : none = <<>>
  OBVIOUS
<1>3. \A s \in Srbs : DOMAIN none = {} /\ SameLive(none, requests[s]) /\ SameUse(none, requests[s])
  BY <1>1, <1>2, GoneIsFree
<1>4. LiveIn(requests) = {}
  BY <1>3 DEF LiveIn, SameLive, Live
<1>5. UsersIn(requests) = {}
  BY <1>3 DEF UsersIn, SameUse, Names
<1>6. Named(usedList, UsersIn(requests))
  BY Parts DEF PoolFits
<1> QED
  BY <1>4, <1>5, <1>6 DEF Named

\* The last elements of a list.
LEMMA LastFit ==
  ASSUME NEW f, NEW u, FreeFits(f, u), NEW k \in Nat, k < Len(f), NEW t, t = SubSeq(f, Len(f) - k + 1, Len(f))
  PROVE  FreeFits(t, u)
<1>1. f \in Seq(Buffers) /\ Once(f) /\ u \in SUBSET Buffers /\ \A i \in DOMAIN f : f[i] \notin u
  BY DEF FreeFits
<1>2. PICK n \in Nat : n = Len(f)
  BY <1>1, LenProperties
<1>3. DOMAIN f = 1 .. n
  BY <1>1, <1>2, LenProperties
<1>4. PICK a \in Nat : a = n - k
  BY <1>2
<1>5. a + k = n /\ t = SubSeq(f, a + 1, n)
  BY <1>2, <1>4
<1>6. \A i \in 1 .. k : a + i \in DOMAIN f
  BY <1>3, <1>5
<1>7. /\ t \in Seq(Buffers) /\ Len(t) = k
      /\ \A i \in 1 .. k : t[i] = f[a + i]
  <2>1. a + 1 \in Int /\ n \in Int /\ a + 1 \in Nat
    BY <1>2, <1>4
  <2>2. \A i \in a + 1 .. n : f[i] \in Buffers
    <3>1. \A i \in a + 1 .. n : i \in 1 .. n
      BY <1>2, <1>4
    <3>2. f \in [1 .. n -> Buffers]
      BY <1>1, <1>2, LenProperties
    <3> QED
      BY <3>1, <3>2
  <2> DEFINE z == SubSeq(f, a + 1, n)
  <2>3. z \in Seq(Buffers)
    BY <2>1, <2>2, SubSeqProperties
  <2>4. Len(z) = IF a + 1 <= n THEN n - (a + 1) + 1 ELSE 0
    BY <2>1, <2>2, SubSeqProperties
  <2>5. \A i \in 1 .. n - (a + 1) + 1 : z[i] = f[a + 1 + i - 1]
    BY <2>1, <2>2, SubSeqProperties
  <2>6. t = z
    BY <1>5, <2>1, Zenon
  <2> HIDE DEF z
  <2>7. n - (a + 1) + 1 = k /\ \A i \in 1 .. k : a + 1 + i - 1 = a + i
    BY <1>2, <1>4, <1>5
  <2>8. Len(z) = k
    <3>1. a + 1 <= n \/ k = 0
      BY <1>2, <1>4, <1>5
    <3>2. a + 1 > n => k = 0
      BY <1>2, <1>4, <1>5
    <3> QED
      BY <1>2, <1>4, <2>4, <2>7, <3>1, <3>2
  <2>9. \A i \in 1 .. k : z[i] = f[a + i]
    BY <2>5, <2>7
  <2> QED
    BY <2>3, <2>6, <2>8, <2>9
<1>8. DOMAIN t = 1 .. k
  BY <1>7, LenProperties
<1>9. Once(t)
  BY <1>1, <1>4, <1>6, <1>7, <1>8 DEF Once
<1>10. \A i \in DOMAIN t : t[i] \notin u
  BY <1>1, <1>6, <1>7, <1>8
<1> QED
  BY <1>1, <1>7, <1>9, <1>10 DEF FreeFits

\* The reaper's wait ends.
LEMMA WakeKeeps ==
  ASSUME PInv, Wake
  PROVE  PInv'
<1>1. UNCHANGED <<requests, status, cpu, ringLock, used, empty>> /\ free' = free /\ usedList' = usedList /\ unload' = unload
  BY DEF Wake, srbVars, poolVars
<1>2. Unloading'
  BY <1>1, Parts DEF Wake, Unloading, Quiet
<1> QED
  BY <1>1, <1>2, Parts, PoolKeeps DEF PoolFits

\* The reaper frees the buffers that are too many, or ends.
LEMMA ReapKeeps ==
  ASSUME PInv, Reap
  PROVE  PInv'
<1>1. UNCHANGED <<requests, status, cpu, ringLock, used, empty>> /\ usedList' = usedList /\ unload' = unload /\ reaper = "awake"
  BY DEF Reap, srbVars
<1>2. unload \notin {"freeing", "gone"}
  BY <1>1, Parts DEF Unloading
<1>3. Unloading'
  BY <1>1, <1>2, Parts DEF Unloading, Quiet
<1>4. FreeFits(free, usedList)
  BY Parts DEF PoolFits
<1>5. PICK n \in Nat : n = Len(free)
  BY <1>4, LenProperties DEF FreeFits
<1>6. FreeFits(free', usedList)
  <2>1. CASE free' = free
    BY <1>4, <2>1
  <2>2. CASE n > MinBuffers /\ free' = SubSeq(free, Len(free) - MinBuffers + 1, Len(free))
    <3>1. MinBuffers \in Nat /\ MinBuffers < Len(free)
      BY <1>5, <2>2, PrepareAssumption
    <3> QED
      BY <1>4, <2>2, <3>1, LastFit
  <2>3. MinBuffers \in Nat
    BY PrepareAssumption
  <2> QED
    BY <1>5, <2>1, <2>2, <2>3 DEF Reap
<1> QED
  BY <1>1, <1>3, <1>6, PoolKeeps

\* BufferTerminate begins with no SRB in the driver.
LEMMA AlertKeeps ==
  ASSUME PInv, Alert
  PROVE  PInv'
<1>1. UNCHANGED <<requests, status, cpu, ringLock, used, empty>> /\ free' = free /\ usedList' = usedList /\ reaper' = reaper
  BY DEF Alert, srbVars, poolVars
<1>2. Quiet
  BY DEF Alert, Drained, Quiet, Idle, Done
<1>3. Unloading'
  BY <1>1, <1>2, Parts DEF Alert, Unloading, Quiet
<1> QED
  BY <1>1, <1>3, Parts, PoolKeeps DEF PoolFits

\* It goes on when the reaper has ended.
LEMMA JoinKeeps ==
  ASSUME PInv, Join
  PROVE  PInv'
<1>1. UNCHANGED <<requests, status, cpu, ringLock, used, empty>> /\ free' = free /\ usedList' = usedList /\ reaper' = reaper
  BY DEF Join, srbVars, poolVars
<1>2. Unloading'
  BY <1>1, Parts DEF Join, Unloading, Quiet
<1> QED
  BY <1>1, <1>2, Parts, PoolKeeps DEF PoolFits

\* The buffers are freed: none is used any more.
LEMMA FreeAllKeeps ==
  ASSUME PInv, FreeAll
  PROVE  PInv'
<1>1. UNCHANGED <<requests, status, cpu, ringLock, used, empty>> /\ reaper' = reaper /\ unload = "freeing"
  BY DEF FreeAll, srbVars
<1>2. Quiet /\ usedList = {}
  BY <1>1, Parts, QuietUses DEF Unloading
<1>3. FreeFits(free, usedList)
  BY Parts DEF PoolFits
<1>4. CASE free # <<>>
  <2>1. free' = PopFreeList(free) /\ usedList' = usedList /\ unload' = unload
    BY <1>2, <1>4 DEF FreeAll
  <2>2. PICK b : b = Head(free)
    OBVIOUS
  <2>3. FreeFits(free', usedList \cup {b})
    BY <1>3, <1>4, <2>1, <2>2, PopFits
  <2>4. FreeFits(free', usedList)
    BY <1>2, <2>3 DEF FreeFits
  <2>5. Unloading'
    BY <1>1, <2>1, Parts DEF Unloading, Quiet
  <2> QED
    BY <1>1, <2>1, <2>4, <2>5, PoolKeeps
<1>5. CASE free = <<>>
  <2>1. free' = free /\ usedList' = usedList /\ unload' = "gone"
    BY <1>2, <1>5 DEF FreeAll
  <2>2. Unloading'
    BY <1>1, <1>5, <2>1, Parts DEF Unloading, Quiet
  <2> QED
    BY <1>1, <1>3, <2>1, <2>2, PoolKeeps
<1> QED
  BY <1>4, <1>5

-----------------------------------------------------------------------------
\* BufferInitialize's buffers are each there once.
LEMMA InitialPool ==
  ASSUME NEW B \in SUBSET Buffers, NEW f, f = SetToSeq(B)
  PROVE  f \in Seq(Buffers) /\ Once(f)
<1>1. IsFiniteSet(B)
  BY PrepareAssumption, FS_Subset
<1>2. PICK n \in Nat : n = Cardinality(B)
  BY <1>1, FS_CardinalityType
<1>3. \E g \in [1 .. n -> B] : IsInjective(g)
  BY <1>1, <1>2, FS_CardinalityType DEF ExistsBijection, Bijection, Injection
<1>4. f \in [1 .. n -> B] /\ IsInjective(f)
  BY <1>2, <1>3 DEF SetToSeq
<1>5. f \in [1 .. n -> Buffers] /\ DOMAIN f = 1 .. n
  BY <1>4
<1>6. f \in Seq(Buffers)
  BY <1>5, SeqDef
<1> QED
  BY <1>4, <1>6 DEF Once, IsInjective

\* The invariant holds at first.
LEMMA InitHolds ==
  ASSUME Init
  PROVE  PInv
<1>1. /\ status = [s \in Srbs |-> "fresh"] /\ requests = [s \in Srbs |-> <<>>] /\ used = 0 /\ empty = TRUE
      /\ cpu = [c \in Cpus |-> Idle] /\ ringLock = "none" /\ usedList = {} /\ unload = "loaded"
  BY DEF Init
<1>2. PICK B \in SUBSET Buffers : free = SetToSeq(B)
  BY DEF Init
<1>3. PICK l : l = <<>>
  OBVIOUS
<1>4. AreOf(l) /\ DOMAIN l = {}
  BY <1>3 DEF AreOf, IsList
<1>5. \A s \in Srbs : requests[s] = l
  BY <1>1, <1>3
<1>6. Types
  <2>1. AreRequests(requests)
    BY <1>1, <1>4, <1>5 DEF AreRequests
  <2> QED
    BY <1>1, <2>1, IdleIs DEF Types
<1>7. CpusFit
  <2>1. \A c \in Cpus : cpu[c].pc = "idle" /\ ringLock # c
    BY <1>1, PrepareAssumption DEF Idle
  <2> QED
    BY <2>1 DEF CpusFit, Fits, Alone, Busy
<1>8. SrbsFit
  BY <1>1, <1>3, <1>4, <1>5 DEF SrbsFit, Stage, Done, GoneHolds
<1>9. LiveIn(requests) = {} /\ UsersIn(requests) = {}
  BY <1>4, <1>5 DEF LiveIn, Live, UsersIn, Names
<1>10. Counted
  BY <1>1, <1>9, FS_EmptySet DEF Counted, Counts
<1>11. PoolFits
  <2>1. FreeFits(free, usedList)
    BY <1>1, <1>2, InitialPool DEF FreeFits
  <2> QED
    BY <1>1, <1>9, <2>1 DEF PoolFits, Named
<1>12. EventFits /\ Unloading
  BY <1>1 DEF EventFits, Unloading
<1> QED
  BY <1>6, <1>7, <1>8, <1>10, <1>11, <1>12 DEF PInv

\* No step breaks it.
LEMMA NextKeeps ==
  ASSUME PInv, [Next]_vars
  PROVE  PInv'
<1>1. ASSUME NEW c \in Cpus, Step(c)
      PROVE  PInv'
  BY <1>1, TakeKeeps, AllocRequestKeeps, ClearEventKeeps, CutSegmentKeeps, BufferGetKeeps, BufferCopyInKeeps, GrantKeeps,
     RespondKeeps, ReleaseKeeps, BufferPutKeeps, FreeRequestKeeps, SetEventKeeps, ContinueKeeps, PutBackKeeps DEF Step
<1>2. ASSUME NEW s \in Srbs, NEW r \in DOMAIN requests[s], Answer(s, r)
      PROVE  PInv'
  BY <1>2, AnswerKeeps
<1>3. CASE UNCHANGED vars
  <2>1. UNCHANGED <<requests, status, cpu, ringLock, used, empty>> /\ free' = free /\ usedList' = usedList /\ unload' = unload /\ reaper' = reaper
    BY <1>3 DEF vars, srbVars, poolVars
  <2>2. Unloading'
    BY <2>1, Parts DEF Unloading, Quiet
  <2> QED
    BY <2>1, <2>2, Parts, PoolKeeps DEF PoolFits
<1> QED
  BY <1>1, <1>2, <1>3, WakeKeeps, ReapKeeps, AlertKeeps, JoinKeeps, FreeAllKeeps DEF Next

\* The invariant holds always.
THEOREM PrepareHolds == Spec => []PInv
<1>1. Init => PInv
  BY InitHolds
<1>2. PInv /\ [Next]_vars => PInv'
  BY NextKeeps
<1> QED
  BY <1>1, <1>2, PTL DEF Spec

-----------------------------------------------------------------------------
(* What it means for the buffers and for an SRB that is gone. *)

HeldAt(h, s, r, k) ==
  /\ s \in Srbs /\ r \in DOMAIN requests[s] /\ k \in DOMAIN requests[s][r].segs /\ requests[s][r].segs[k].buf # "none"
  /\ h = <<s, r, k>>

\* A segment that names a buffer is one of its users.
LEMMA HeldUses ==
  ASSUME PInv, NEW h \in Held
  PROVE  \E s, r, k, x : HeldAt(h, s, r, k) /\ x \in UsersIn(requests) /\ x = <<s, r, k, BufferOf(h)>> /\ x[4] = BufferOf(h)
<1>1. PICK s, r, k : HeldAt(h, s, r, k)
  BY DEF Held, HeldAt
<1>2. s \in Srbs /\ AreOf(requests[s]) /\ r \in DOMAIN requests[s]
  BY <1>1, RequestsAre DEF HeldAt
<1>3. IsRequest(requests[s][r]) /\ r \in Nat
  BY <1>2, ListIs DEF AreOf
<1>4. AreSegments(requests[s][r].segs) /\ k \in DOMAIN requests[s][r].segs
  BY <1>1, <1>3 DEF IsRequest, HeldAt
<1>5. IsSegment(requests[s][r].segs[k]) /\ k \in Nat
  BY <1>4, ListIs DEF AreSegments
<1>6. PICK b : b = BufferOf(h)
  OBVIOUS
<1>7. b = requests[s][r].segs[k].buf
  BY <1>1, <1>6 DEF HeldAt, BufferOf
<1>8. b \in Buffers
  BY <1>1, <1>5, <1>7 DEF HeldAt, IsSegment
<1>9. PICK x : x = <<s, r, k, b>>
  OBVIOUS
<1>10. x[1] = s /\ x[2] = r /\ x[3] = k /\ x[4] = b /\ x \in Srbs \X Nat \X Nat \X Buffers
  BY <1>2, <1>3, <1>5, <1>8, <1>9
<1>11. Names(requests[s], r, k, b)
  BY <1>2, <1>4, <1>7 DEF Names
<1>12. x \in UsersIn(requests)
  BY <1>10, <1>11 DEF UsersIn
<1> QED
  BY <1>1, <1>6, <1>9, <1>10, <1>12

\* And a user is such a segment.
LEMMA UserHeld ==
  ASSUME PInv, NEW x \in UsersIn(requests)
  PROVE  \E h \in Held : BufferOf(h) = x[4]
<1>1. PICK s \in Srbs, r \in Nat, k \in Nat, b \in Buffers : x = <<s, r, k, b>> /\ Names(requests[s], r, k, b)
  <2>1. x \in Srbs \X Nat \X Nat \X Buffers /\ Names(requests[x[1]], x[2], x[3], x[4])
    BY DEF UsersIn
  <2>2. x = <<x[1], x[2], x[3], x[4]>> /\ x[1] \in Srbs /\ x[2] \in Nat /\ x[3] \in Nat /\ x[4] \in Buffers
    BY <2>1
  <2> QED
    BY <2>1, <2>2
<1>2. PICK h : h = <<s, r, k>>
  OBVIOUS
<1>3. r \in DOMAIN requests[s] /\ k \in DOMAIN requests[s][r].segs /\ requests[s][r].segs[k].buf = b /\ b # "none"
  BY <1>1, PrepareAssumption DEF Names
<1>4. h \in Held
  BY <1>2, <1>3 DEF Held
<1>5. BufferOf(h) = b
  BY <1>2, <1>3 DEF BufferOf
<1> QED
  BY <1>1, <1>4, <1>5

\* Every buffer in use is named by one segment.
LEMMA UsesAreHeld ==
  ASSUME PInv
  PROVE  /\ \A h \in Held : BufferOf(h) \in usedList
         /\ \A b \in usedList : \E h \in Held : BufferOf(h) = b
         /\ \A g, h \in Held : BufferOf(g) = BufferOf(h) => g = h
<1>1. Named(usedList, UsersIn(requests))
  BY Parts DEF PoolFits
<1>2. \A h \in Held : BufferOf(h) \in usedList
  BY <1>1, HeldUses DEF Named
<1>3. \A b \in usedList : \E h \in Held : BufferOf(h) = b
  BY <1>1, UserHeld DEF Named
<1>4. ASSUME NEW g \in Held, NEW h \in Held, BufferOf(g) = BufferOf(h)
      PROVE  g = h
  <2>1. PICK s, r, k, x : HeldAt(g, s, r, k) /\ x \in UsersIn(requests) /\ x = <<s, r, k, BufferOf(g)>> /\ x[4] = BufferOf(g)
    BY HeldUses
  <2>2. PICK t, q, j, y : HeldAt(h, t, q, j) /\ y \in UsersIn(requests) /\ y = <<t, q, j, BufferOf(h)>> /\ y[4] = BufferOf(h)
    BY HeldUses
  <2>3. x = y
    BY <1>1, <1>4, <2>1, <2>2 DEF Named
  <2>4. s = t /\ r = q /\ k = j
    BY <2>1, <2>2, <2>3
  <2> QED
    BY <2>1, <2>2, <2>4 DEF HeldAt
<1> QED
  BY <1>2, <1>3, <1>4

\* As many buffers are used as segments name one.
LEMMA UsedAreHeld ==
  ASSUME PInv
  PROVE  usedList = {BufferOf(h) : h \in Held} /\ Cardinality(usedList) = Cardinality(Held)
<1>1. /\ \A h \in Held : BufferOf(h) \in usedList
      /\ \A b \in usedList : \E h \in Held : BufferOf(h) = b
      /\ \A g, h \in Held : BufferOf(g) = BufferOf(h) => g = h
  BY UsesAreHeld
<1>2. PICK H, U, F : H = Held /\ U = usedList /\ F = [h \in H |-> BufferOf(h)]
  OBVIOUS
<1>3. F \in [H -> U] /\ \A h \in H : F[h] = BufferOf(h)
  BY <1>1, <1>2
<1>4. F \in Injection(H, U)
  BY <1>1, <1>2, <1>3 DEF Injection, IsInjective
<1>5. F \in Surjection(H, U)
  BY <1>1, <1>2, <1>3 DEF Surjection
<1>6. IsFiniteSet(U)
  BY <1>2, Parts, PrepareAssumption, FS_Subset DEF PoolFits, FreeFits
<1>7. Cardinality(H) = Cardinality(U) <=> F \in Surjection(H, U)
  BY <1>4, <1>6, FS_Injection
<1>8. Cardinality(H) = Cardinality(U)
  BY <1>5, <1>7
<1> QED
  BY <1>1, <1>2, <1>8

\* The free buffers are on their list once.
LEMMA FreeAreOnce ==
  ASSUME NEW f, NEW u, FreeFits(f, u)
  PROVE  Cardinality(ToSet(f)) = Len(f) /\ ToSet(f) \cap u = {}
<1>1. f \in Seq(Buffers) /\ Once(f) /\ \A i \in DOMAIN f : f[i] \notin u
  BY DEF FreeFits
<1>2. PICK n \in Nat : n = Len(f)
  BY <1>1, LenProperties
<1>3. DOMAIN f = 1 .. n /\ f \in [1 .. n -> Buffers]
  BY <1>1, <1>2, LenProperties
<1>4. PICK T, I : T = ToSet(f) /\ I = 1 .. n
  OBVIOUS
<1>5. T = {f[i] : i \in I}
  BY <1>3, <1>4 DEF ToSet
<1>6. f \in [I -> T]
  BY <1>3, <1>4, <1>5
<1>7. f \in Injection(I, T)
  BY <1>1, <1>6 DEF Injection, IsInjective, Once
<1>8. f \in Surjection(I, T)
  BY <1>5, <1>6 DEF Surjection
<1>9. ExistsBijection(I, T)
  BY <1>7, <1>8 DEF ExistsBijection, Bijection
<1>10. IsFiniteSet(I) /\ Cardinality(I) = n
  BY <1>4, FS_Interval
<1>11. Cardinality(T) = n
  BY <1>9, <1>10, FS_Bijection
<1> QED
  <2>1. Cardinality(ToSet(f)) = Len(f)
    BY <1>2, <1>4, <1>11
  <2>2. ToSet(f) \cap u = {}
    BY <1>1 DEF ToSet
  <2> QED
    BY <2>1, <2>2

\* The property the runs check, of any state the invariant describes.
LEMMA PInvOwns ==
  ASSUME PInv
  PROVE  ResourcesOwned
<1>1. TypeOK
  BY Parts DEF Types, PoolFits, FreeFits, TypeOK, Done
<1>2. BuffersOwned
  <2>1. Cardinality(ToSet(free)) = Len(free) /\ ToSet(free) \cap usedList = {}
    BY Parts, FreeAreOnce DEF PoolFits
  <2>2. ASSUME NEW h \in Held
        PROVE  status[h[1]] \in {"preparing", "prepared"}
    <3>1. PICK s, r, k : HeldAt(h, s, r, k)
      BY HeldUses
    <3>2. s \in Srbs /\ AreOf(requests[s]) /\ status[s] \in States /\ Stage(requests[s], status[s]) /\ h[1] = s
      BY <3>1, RequestsAre DEF HeldAt
    <3>3. r \in DOMAIN requests[s] /\ Holders(requests[s][r]) # {}
      <4>1. IsSegment(requests[s][r].segs[k]) /\ k \in DOMAIN requests[s][r].segs
        BY <3>1, <3>2 DEF HeldAt, AreOf, IsRequest, AreSegments
      <4>2. requests[s][r].segs[k].mapped
        BY <3>1, <4>1 DEF HeldAt, IsSegment
      <4> QED
        BY <3>1, <4>1, <4>2 DEF HeldAt, Holders, Holding
    <3>4. status[s] # "fresh" /\ status[s] \notin Done
      <4>1. requests[s] # <<>>
        BY <3>3
      <4>2. ~ AllGone(requests[s])
        BY <3>2, <3>3 DEF Stage, AllGone, GoneHolds
      <4> QED
        BY <3>2, <4>1, <4>2 DEF Stage
    <3> QED
      BY <3>2, <3>4 DEF States
  <2> QED
    BY <2>1, <2>2, UsedAreHeld DEF BuffersOwned
<1>3. NothingHeld
  <2>1. ASSUME Drained
        PROVE  used = 0 /\ empty /\ usedList = {} /\ \A s \in Srbs : \A r \in DOMAIN requests[s] : Holders(requests[s][r]) = {}
    <3>1. Quiet
      BY <2>1 DEF Drained, Quiet, Idle, Done
    <3>2. usedList = {} /\ LiveIn(requests) = {}
      BY <3>1, QuietUses
    <3>3. used = 0
      BY <3>2, FS_EmptySet, Parts DEF Counted, Counts
    <3>4. empty
      BY <3>1, <3>3, Parts DEF EventFits, Quiet
    <3>5. ASSUME NEW s \in Srbs, NEW r \in DOMAIN requests[s]
          PROVE  Holders(requests[s][r]) = {}
      <4>1. Stage(requests[s], status[s]) /\ status[s] \in {"fresh"} \cup Done
        BY <3>1, RequestsAre DEF Quiet
      <4> QED
        BY <4>1 DEF Stage, AllGone, GoneHolds
    <3> QED
      BY <3>2, <3>3, <3>4, <3>5
  <2>2. unload = "gone" => reaper \in {"none", "exited"} /\ free = <<>>
    BY Parts DEF Unloading
  <2> QED
    BY <2>1, <2>2 DEF NothingHeld
<1> QED
  BY <1>1, <1>2, <1>3 DEF ResourcesOwned

\* Whatever fails and whoever else runs, a buffer, a grant or a mapping has one
\* owner, and none when its SRB is gone (pdo.c:765-827, 884-1128, buffer.c:271-375).
THEOREM ResourcesAreOwned == Spec => []ResourcesOwned
<1>1. PInv => ResourcesOwned
  BY PInvOwns
<1> QED
  BY <1>1, PrepareHolds, PTL

-----------------------------------------------------------------------------
(* The requests tile the list. *)

\* Division.
Divided(a, b, i, t) == b \in Nat \ {0} /\ i \in Nat /\ t \in 0 .. b - 1 /\ a = b * i + t

\* The quotient and the remainder.
LEMMA DivModIs ==
  ASSUME NEW a, NEW b, NEW i, NEW t, Divided(a, b, i, t)
  PROVE  a \div b = i /\ a % b = t
BY DEF Divided

\* There is a quotient, and a remainder.
LEMMA DivMod ==
  ASSUME NEW a \in Nat, NEW b \in Nat \ {0}
  PROVE  \E i, t : Divided(a, b, i, t)
<1>1. PICK S : S = {i \in Nat : a < b * (i + 1)}
  OBVIOUS
<1>2. a \in S
  <2>1. b * (a + 1) >= a + 1
    OBVIOUS
  <2> QED
    BY <1>1, <2>1
<1>3. PICK i \in S : \A j \in S : i <= j
  BY <1>1, <1>2, LeastIs
<1>4. i \in Nat /\ a < b * (i + 1) /\ b * (i + 1) = b * i + b /\ b * i \in Nat
  BY <1>1, <1>3
<1>5. b * i <= a
  <2>1. CASE i = 0
    BY <2>1
  <2>2. CASE i # 0
    <3>1. i - 1 \in Nat /\ i - 1 \notin S /\ (i - 1) + 1 = i
      BY <1>3, <1>4, <2>2
    <3>2. ~ (a < b * i)
      BY <1>1, <3>1
    <3> QED
      BY <1>4, <3>2
  <2> QED
    BY <2>1, <2>2
<1>6. PICK t : t = a - b * i
  OBVIOUS
<1>7. t \in 0 .. b - 1 /\ a = b * i + t
  BY <1>4, <1>5, <1>6
<1>8. Divided(a, b, i, t)
  BY <1>4, <1>7 DEF Divided
<1> QED
  BY <1>8

\* What FlattenSeq computes for the first n of these.
IsFlat(f, ss, n) == f = [i \in 1 .. n |-> IF i = 1 THEN ss[i] ELSE f[i - 1] \o ss[i]]

\* These are the same as far as k.
Same(a, b, k) == \A i \in 1 .. k : a[i] = b[i]

\* Two of these agree as far as what they flatten does.
LEMMA FlatsAgree ==
  ASSUME NEW ss, NEW tt, NEW f, NEW g, NEW n \in Nat, NEW m \in Nat, IsFlat(f, ss, n), IsFlat(g, tt, m),
         NEW k \in Nat, k <= n, k <= m, Same(ss, tt, k)
  PROVE  Same(f, g, k)
<1>1. PICK S : S = {i \in 1 .. k : f[i] # g[i]}
  OBVIOUS
<1>2. SUFFICES ASSUME S # {} PROVE FALSE
  BY <1>1 DEF Same
<1>3. PICK i \in S : \A j \in S : i <= j
  <2>1. S \in SUBSET Nat
    BY <1>1
  <2> QED
    BY <1>2, <2>1, LeastIs
<1>4. i \in 1 .. k /\ i \in 1 .. n /\ i \in 1 .. m
  BY <1>1, <1>3
<1>5. f[i] = IF i = 1 THEN ss[i] ELSE f[i - 1] \o ss[i]
  BY <1>4 DEF IsFlat
<1>6. g[i] = IF i = 1 THEN tt[i] ELSE g[i - 1] \o tt[i]
  BY <1>4 DEF IsFlat
<1>7. i # 1 => f[i - 1] = g[i - 1]
  BY <1>1, <1>3
<1> QED
  BY <1>1, <1>4, <1>5, <1>6, <1>7 DEF Same

\* There is one, of sequences.
LEMMA FlatExists ==
  ASSUME NEW T, NEW ss \in Seq(Seq(T)), NEW n \in 0 .. Len(ss)
  PROVE  \E f : IsFlat(f, ss, n) /\ \A i \in 1 .. n : f[i] \in Seq(T)
<1>1. PICK Good : Good = [k \in 0 .. n |-> \E f : IsFlat(f, ss, k) /\ \A i \in 1 .. k : f[i] \in Seq(T)]
  OBVIOUS
<1>2. PICK S : S = {k \in 0 .. n : ~ Good[k]}
  OBVIOUS
<1>3. Len(ss) \in Nat /\ \A i \in 1 .. n : ss[i] \in Seq(T)
  BY LenProperties, ElementOfSeq
<1>4. SUFFICES ASSUME S # {} PROVE FALSE
  <2>1. n \in 0 .. n
    BY <1>3
  <2>2. S = {} => Good[n]
    BY <1>2, <2>1
  <2> QED
    BY <1>1, <2>1, <2>2
<1>5. PICK k \in S : \A j \in S : k <= j
  <2>1. S \in SUBSET Nat
    BY <1>2, <1>3
  <2> QED
    BY <1>4, <2>1, LeastIs
<1>6. k \in Nat /\ k <= n
  BY <1>2, <1>3
<1>7. k # 0
  <2>1. PICK f : f = [i \in 1 .. 0 |-> 0]
    OBVIOUS
  <2>2. IsFlat(f, ss, 0) /\ \A i \in 1 .. 0 : f[i] \in Seq(T)
    BY <2>1 DEF IsFlat
  <2>3. Good[0]
    BY <1>1, <1>3, <2>2
  <2> QED
    BY <1>2, <2>3
<1>8. k - 1 \in 0 .. n /\ Good[k - 1]
  BY <1>2, <1>5, <1>6, <1>7
<1>9. PICK f : IsFlat(f, ss, k - 1) /\ \A i \in 1 .. k - 1 : f[i] \in Seq(T)
  BY <1>1, <1>8
<1>10. PICK g : g = [i \in 1 .. k |-> IF i <= k - 1 THEN f[i] ELSE IF k = 1 THEN ss[k] ELSE f[k - 1] \o ss[k]]
  OBVIOUS
<1>11. \A i \in 1 .. k - 1 : f[i] = IF i = 1 THEN ss[i] ELSE f[i - 1] \o ss[i]
  BY <1>6, <1>9 DEF IsFlat
<1>12. \A i \in 1 .. k : g[i] = IF i = 1 THEN ss[i] ELSE g[i - 1] \o ss[i]
  <2>1. ASSUME NEW i \in 1 .. k - 1
        PROVE  g[i] = IF i = 1 THEN ss[i] ELSE g[i - 1] \o ss[i]
    <3>1. g[i] = f[i] /\ (i # 1 => g[i - 1] = f[i - 1])
      BY <1>6, <1>10
    <3> QED
      BY <1>11, <3>1
  <2>2. g[k] = IF k = 1 THEN ss[k] ELSE g[k - 1] \o ss[k]
    BY <1>6, <1>7, <1>10
  <2> QED
    BY <1>6, <2>1, <2>2
<1>13. g = [i \in 1 .. k |-> g[i]]
  BY <1>10
<1>14. IsFlat(g, ss, k)
  BY <1>12, <1>13 DEF IsFlat
<1>15. \A i \in 1 .. k : g[i] \in Seq(T)
  <2>1. g[k] \in Seq(T)
    <3>1. ss[k] \in Seq(T) /\ (k # 1 => f[k - 1] \in Seq(T))
      BY <1>3, <1>6, <1>7, <1>9
    <3> QED
      BY <1>6, <1>7, <1>10, <3>1, ConcatProperties
  <2> QED
    BY <1>6, <1>9, <1>10, <2>1
<1> QED
  BY <1>1, <1>2, <1>14, <1>15

\* The one FlattenSeq takes its result from.
FlatOf(f, ss, n, T) == IsFlat(f, ss, n) /\ (\A i \in 1 .. n : f[i] \in Seq(T)) /\ FlattenSeq(ss) = f[n]

\* There is one.
LEMMA FlattenIs ==
  ASSUME NEW T, NEW ss \in Seq(Seq(T)), ss # <<>>
  PROVE  \E f : FlatOf(f, ss, Len(ss), T)
<1>1. PICK n \in Nat : n = Len(ss) /\ n # 0
  BY LenProperties, EmptySeq
<1>2. PICK f : f = CHOOSE g : IsFlat(g, ss, n)
  OBVIOUS
<1>3. PICK h : IsFlat(h, ss, n) /\ \A i \in 1 .. n : h[i] \in Seq(T)
  BY <1>1, FlatExists
<1>4. IsFlat(f, ss, n)
  BY <1>2, <1>3
<1>5. Same(f, h, n)
  <2>1. n <= n /\ Same(ss, ss, n)
    BY <1>1 DEF Same
  <2> QED
    BY <1>1, <1>3, <1>4, <2>1, FlatsAgree
<1>6. FlattenSeq(ss) = (CHOOSE g : IsFlat(g, ss, n))[n]
  BY <1>1 DEF FlattenSeq, IsFlat
<1>7. \A i \in 1 .. n : f[i] \in Seq(T)
  BY <1>3, <1>5 DEF Same
<1>8. FlatOf(f, ss, n, T)
  BY <1>2, <1>4, <1>6, <1>7 DEF FlatOf
<1> QED
  BY <1>1, <1>8

\* FlattenSeq of one more.
LEMMA FlattenAppend ==
  ASSUME NEW T, NEW ss \in Seq(Seq(T)), NEW s \in Seq(T)
  PROVE  /\ FlattenSeq(ss) \in Seq(T) /\ FlattenSeq(Append(ss, s)) = FlattenSeq(ss) \o s
         /\ FlattenSeq(Append(ss, s)) \in Seq(T)
<1>1. PICK n \in Nat : n = Len(ss)
  BY LenProperties
<1>2. PICK tt : tt = Append(ss, s)
  OBVIOUS
<1>3. /\ tt \in Seq(Seq(T)) /\ Len(tt) = n + 1 /\ tt[n + 1] = s /\ tt # <<>>
      /\ \A i \in 1 .. n : tt[i] = ss[i]
  BY <1>1, <1>2, AppendProperties
<1>4. PICK g : IsFlat(g, tt, n + 1) /\ (\A i \in 1 .. n + 1 : g[i] \in Seq(T)) /\ FlattenSeq(tt) = g[n + 1]
  <2>1. \E f : FlatOf(f, tt, n + 1, T)
    BY <1>3, FlattenIs
  <2> QED
    BY <2>1 DEF FlatOf
<1>5. g[n + 1] = IF n + 1 = 1 THEN tt[n + 1] ELSE g[n] \o tt[n + 1]
  <2>1. n + 1 \in 1 .. n + 1 /\ (n + 1) - 1 = n
    OBVIOUS
  <2> QED
    BY <1>4, <2>1 DEF IsFlat
<1>6. CASE ss = <<>>
  <2>1. n = 0 /\ FlattenSeq(ss) = <<>> /\ <<>> \in Seq(T)
    BY <1>1, <1>6, EmptySeq DEF FlattenSeq
  <2>2. <<>> \o s = s
    BY ConcatEmptySeq
  <2>3. FlattenSeq(tt) = s
    BY <1>3, <1>4, <1>5, <2>1
  <2> QED
    BY <1>2, <2>1, <2>2, <2>3
<1>7. CASE ss # <<>>
  <2>1. n # 0
    BY <1>1, <1>7, EmptySeq
  <2>2. PICK f : IsFlat(f, ss, n) /\ (\A i \in 1 .. n : f[i] \in Seq(T)) /\ FlattenSeq(ss) = f[n]
    <3>1. \E f : FlatOf(f, ss, n, T)
      BY <1>1, <1>7, FlattenIs
    <3> QED
      BY <3>1 DEF FlatOf
  <2>3. Same(g, f, n)
    <3>1. n <= n + 1 /\ n + 1 \in Nat /\ n <= n /\ Same(tt, ss, n)
      BY <1>3 DEF Same
    <3> QED
      BY <1>3, <1>4, <2>2, <3>1, FlatsAgree
  <2>4. n \in 1 .. n /\ n + 1 \in 1 .. n + 1
    BY <2>1
  <2>5. g[n] = f[n]
    BY <2>3, <2>4 DEF Same
  <2>6. FlattenSeq(tt) = FlattenSeq(ss) \o s
    BY <1>3, <1>4, <1>5, <2>1, <2>2, <2>5
  <2>7. FlattenSeq(tt) \in Seq(T) /\ FlattenSeq(ss) \in Seq(T)
    BY <1>4, <2>2, <2>4
  <2> QED
    BY <1>2, <2>6, <2>7
<1> QED
  BY <1>6, <1>7

\* The first k of these.
FirstOf(ss, k) == [i \in 1 .. k |-> ss[i]]
Starts(a, b) == Len(a) <= Len(b) /\ Same(a, b, Len(a))
FlatTo(ss, k) == FlattenSeq(FirstOf(ss, k))

\* One by one.
LEMMA FlattenStep ==
  ASSUME NEW T, NEW ss \in Seq(Seq(T))
  PROVE  /\ FlatTo(ss, 0) = <<>> /\ FlatTo(ss, Len(ss)) = FlattenSeq(ss)
         /\ \A k \in 1 .. Len(ss) : FlatTo(ss, k) = FlatTo(ss, k - 1) \o ss[k]
         /\ \A k \in 0 .. Len(ss) : FlatTo(ss, k) \in Seq(T)
<1>1. PICK n \in Nat : n = Len(ss)
  BY LenProperties
<1>2. \A i \in 1 .. n : ss[i] \in Seq(T)
  BY <1>1, ElementOfSeq
<1>3. ASSUME NEW k \in 0 .. n
      PROVE  FirstOf(ss, k) \in Seq(Seq(T)) /\ Len(FirstOf(ss, k)) = k /\ FlatTo(ss, k) \in Seq(T)
  <2>1. PICK f : f = FirstOf(ss, k)
    OBVIOUS
  <2>2. f \in [1 .. k -> Seq(T)]
    BY <1>2, <2>1 DEF FirstOf
  <2>3. f \in Seq(Seq(T)) /\ Len(f) = k
    BY <2>2
  <2>4. FlattenSeq(f) \in Seq(T)
    BY <2>3, FlattenAppend, EmptySeq
  <2> QED
    BY <2>1, <2>3, <2>4 DEF FlatTo
<1>4. ASSUME NEW k \in 1 .. n
      PROVE  FlatTo(ss, k) = FlatTo(ss, k - 1) \o ss[k]
  <2>1. k - 1 \in 0 .. n /\ k \in 0 .. n
    OBVIOUS
  <2>2. PICK f, g : f = FirstOf(ss, k) /\ g = FirstOf(ss, k - 1)
    OBVIOUS
  <2>3. f \in Seq(Seq(T)) /\ Len(f) = k /\ g \in Seq(Seq(T)) /\ Len(g) = k - 1 /\ ss[k] \in Seq(T)
    BY <1>2, <1>3, <2>1, <2>2
  <2>4. PICK h : h = Append(g, ss[k])
    OBVIOUS
  <2>5. h \in Seq(Seq(T)) /\ Len(h) = k /\ h[k] = ss[k] /\ \A i \in 1 .. k - 1 : h[i] = g[i]
    BY <2>3, <2>4, AppendProperties
  <2>6. \A i \in 1 .. k : f[i] = h[i]
    <3>1. \A i \in 1 .. k : f[i] = ss[i]
      BY <2>2 DEF FirstOf
    <3>2. \A i \in 1 .. k - 1 : g[i] = ss[i]
      BY <2>2 DEF FirstOf
    <3>3. \A i \in 1 .. k : i = k \/ i \in 1 .. k - 1
      OBVIOUS
    <3> QED
      BY <2>5, <3>1, <3>2, <3>3
  <2>7. f = h
    BY <2>3, <2>5, <2>6, SeqEqual
  <2>8. FlattenSeq(h) = FlattenSeq(g) \o ss[k]
    BY <2>3, <2>4, FlattenAppend
  <2> QED
    BY <2>2, <2>7, <2>8 DEF FlatTo
<1>5. FlatTo(ss, 0) = <<>>
  <2>1. PICK f : f = FirstOf(ss, 0)
    OBVIOUS
  <2>2. f \in Seq(Seq(T)) /\ Len(f) = 0
    BY <1>1, <1>3, <2>1
  <2>3. f = <<>>
    BY <2>2, EmptySeq
  <2> QED
    BY <2>1, <2>3 DEF FlatTo, FlattenSeq
<1>6. FlatTo(ss, n) = FlattenSeq(ss)
  <2>1. PICK f : f = FirstOf(ss, n)
    OBVIOUS
  <2>2. f \in Seq(Seq(T)) /\ Len(f) = n
    BY <1>1, <1>3, <2>1
  <2>3. \A i \in 1 .. n : f[i] = ss[i]
    BY <2>1 DEF FirstOf
  <2>4. f = ss
    BY <1>1, <2>2, <2>3, SeqEqual
  <2> QED
    BY <2>1, <2>4 DEF FlatTo
<1> QED
  BY <1>1, <1>3, <1>4, <1>5, <1>6

\* Two sequences, one after the other.
Joined(c, a, b, T) ==
  /\ c \in Seq(T) /\ Len(c) = Len(a) + Len(b) /\ Len(a) \in Nat /\ Len(b) \in Nat
  /\ \A i \in 1 .. Len(a) : c[i] = a[i]
  /\ \A i \in 1 .. Len(b) : c[Len(a) + i] = b[i]

\* So they are.
LEMMA ConcatIs ==
  ASSUME NEW T, NEW a \in Seq(T), NEW b \in Seq(T), NEW c, c = a \o b
  PROVE  Joined(c, a, b, T)
<1>1. PICK m, n \in Nat : m = Len(a) /\ n = Len(b)
  BY LenProperties
<1>2. c \in Seq(T) /\ Len(c) = m + n
  BY <1>1, ConcatProperties
<1>3. \A i \in 1 .. m + n : c[i] = IF i <= m THEN a[i] ELSE b[i - m]
  BY <1>1, ConcatProperties
<1>4. ASSUME NEW i \in 1 .. m
      PROVE  c[i] = a[i]
  <2>1. i \in 1 .. m + n /\ i <= m
    OBVIOUS
  <2> QED
    BY <1>3, <2>1
<1>5. ASSUME NEW i \in 1 .. n
      PROVE  c[m + i] = b[i]
  <2>1. m + i \in 1 .. m + n /\ ~ (m + i <= m) /\ (m + i) - m = i
    OBVIOUS
  <2> QED
    BY <1>3, <2>1
<1> QED
  BY <1>1, <1>2, <1>4, <1>5 DEF Joined

\* What the first k give is where all of them begin.
LEMMA FlatStarts ==
  ASSUME NEW T, NEW ss \in Seq(Seq(T)), NEW k \in 0 .. Len(ss)
  PROVE  Starts(FlatTo(ss, k), FlattenSeq(ss))
<1>1. PICK n \in Nat : n = Len(ss)
  BY LenProperties
<1>2. PICK a : a = FlatTo(ss, k)
  OBVIOUS
<1>3. PICK S : S = {m \in k .. n : ~ Starts(a, FlatTo(ss, m))}
  OBVIOUS
<1>4. \A m \in 0 .. n : FlatTo(ss, m) \in Seq(T) /\ Len(FlatTo(ss, m)) \in Nat
  BY <1>1, FlattenStep, LenProperties
<1>5. CASE S = {}
  <2>1. n \in k .. n
    BY <1>1
  <2>2. Starts(a, FlatTo(ss, n))
    BY <1>3, <1>5, <2>1
  <2>3. FlatTo(ss, n) = FlattenSeq(ss)
    BY <1>1, FlattenStep
  <2> QED
    BY <1>2, <2>2, <2>3
<1>6. CASE S # {}
  <2>1. S \in SUBSET Nat
    BY <1>3
  <2>2. PICK m \in S : \A j \in S : m <= j
    BY <1>6, <2>1, LeastIs
  <2>3. m \in k .. n /\ ~ Starts(a, FlatTo(ss, m))
    BY <1>3, <2>2
  <2>4. m # k
    BY <1>1, <1>2, <1>4, <2>3 DEF Starts, Same
  <2>5. m - 1 \in k .. n /\ m - 1 \in 0 .. n /\ m \in 1 .. n
    BY <1>1, <2>3, <2>4
  <2>6. PICK b, c : b = FlatTo(ss, m - 1) /\ c = FlatTo(ss, m)
    OBVIOUS
  <2>7. Starts(a, b)
    BY <1>3, <2>2, <2>5, <2>6
  <2>8. c = b \o ss[m] /\ b \in Seq(T) /\ ss[m] \in Seq(T) /\ a \in Seq(T)
    BY <1>1, <1>2, <1>4, <2>5, <2>6, FlattenStep, ElementOfSeq
  <2>9. /\ Len(c) = Len(b) + Len(ss[m]) /\ Len(b) \in Nat /\ Len(ss[m]) \in Nat /\ Len(a) \in Nat
        /\ \A i \in 1 .. Len(b) : c[i] = b[i]
    <3>1. Joined(c, b, ss[m], T)
      BY <2>8, ConcatIs
    <3> QED
      BY <2>8, <3>1, LenProperties DEF Joined
  <2>10. Starts(a, c)
    BY <2>7, <2>9 DEF Starts, Same
  <2> QED
    BY <2>3, <2>6, <2>10
<1> QED
  BY <1>5, <1>6

IsSgl(l) == l \in Seq([addr : Nat, len : Nat \ {0}])
Elements(l) == [k \in DOMAIN l |-> [n \in 1 .. l[k].len |-> l[k].addr + n - 1]]
\* The units before the k-th element, and with it.
Off(l, k) == Len(FlatTo(Elements(l), k))

\* Where the elements of a list are among its units.
Laid(l, u) ==
  /\ u \in Seq(Nat) /\ Len(u) \in Nat /\ Len(l) \in Nat /\ DOMAIN l = 1 .. Len(l)
  /\ Off(l, 0) = 0 /\ Off(l, Len(l)) = Len(u)
  /\ \A k \in 0 .. Len(l) : Off(l, k) \in Nat /\ Off(l, k) <= Len(u)
  /\ \A k \in DOMAIN l : /\ l[k].addr \in Nat /\ l[k].len \in Nat \ {0}
                         /\ Off(l, k) = Off(l, k - 1) + l[k].len
                         /\ \A n \in 1 .. l[k].len : u[Off(l, k - 1) + n] = l[k].addr + n - 1

\* So they are.
LEMMA UnitsAre ==
  ASSUME NEW l, IsSgl(l), NEW u, u = Units(l)
  PROVE  Laid(l, u)
<1>1. PICK n \in Nat : n = Len(l)
  BY LenProperties DEF IsSgl
<1>2. DOMAIN l = 1 .. n /\ \A k \in 1 .. n : l[k] \in [addr : Nat, len : Nat \ {0}]
  BY <1>1, LenProperties, ElementOfSeq DEF IsSgl
<1>3. PICK ss : ss = Elements(l)
  OBVIOUS
<1>4. ASSUME NEW k \in 1 .. n
      PROVE  /\ ss[k] \in Seq(Nat) /\ Len(ss[k]) = l[k].len /\ l[k].addr \in Nat /\ l[k].len \in Nat \ {0}
             /\ \A i \in 1 .. l[k].len : ss[k][i] = l[k].addr + i - 1
  <2>1. PICK a, m : a = l[k].addr /\ m = l[k].len
    OBVIOUS
  <2>2. a \in Nat /\ m \in Nat \ {0}
    BY <1>2, <2>1
  <2>3. ss[k] = [i \in 1 .. m |-> a + i - 1]
    BY <1>2, <1>3, <2>1 DEF Elements
  <2>4. \A i \in 1 .. m : a + i - 1 \in Nat
    BY <2>2
  <2>5. ss[k] \in [1 .. m -> Nat]
    BY <2>3, <2>4
  <2>6. ss[k] \in Seq(Nat) /\ Len(ss[k]) = m
    BY <2>2, <2>3, <2>5
  <2> QED
    BY <2>1, <2>2, <2>3, <2>6
<1>5. ss \in Seq(Seq(Nat)) /\ Len(ss) = n
  <2>1. ss \in [1 .. n -> Seq(Nat)]
    BY <1>2, <1>3, <1>4 DEF Elements
  <2> QED
    BY <1>2, <1>3, <2>1 DEF Elements
<1>6. u = FlattenSeq(ss)
  BY <1>3 DEF Units, Elements
<1>7. /\ FlatTo(ss, 0) = <<>> /\ FlatTo(ss, n) = u
      /\ \A k \in 1 .. n : FlatTo(ss, k) = FlatTo(ss, k - 1) \o ss[k]
      /\ \A k \in 0 .. n : FlatTo(ss, k) \in Seq(Nat)
  BY <1>5, <1>6, FlattenStep
<1>8. Off(l, 0) = 0 /\ Off(l, n) = Len(u) /\ u \in Seq(Nat) /\ Len(u) \in Nat
  <2>1. n \in 0 .. n
    OBVIOUS
  <2>2. u \in Seq(Nat)
    BY <1>7, <2>1
  <2> QED
    BY <1>3, <1>7, <2>2, EmptySeq, LenProperties DEF Off
<1>9. ASSUME NEW k \in 0 .. n
      PROVE  Off(l, k) \in Nat /\ Off(l, k) <= Len(u) /\ \A i \in 1 .. Off(l, k) : u[i] = FlatTo(ss, k)[i]
  <2>1. Starts(FlatTo(ss, k), u)
    BY <1>5, <1>6, FlatStarts
  <2>2. FlatTo(ss, k) \in Seq(Nat)
    BY <1>7
  <2> QED
    BY <1>3, <2>1, <2>2, LenProperties DEF Off, Starts, Same
<1>10. ASSUME NEW k \in 1 .. n
       PROVE  /\ Off(l, k) = Off(l, k - 1) + l[k].len
              /\ \A i \in 1 .. l[k].len : u[Off(l, k - 1) + i] = l[k].addr + i - 1
  <2>1. PICK a, b, c : a = FlatTo(ss, k - 1) /\ b = ss[k] /\ c = FlatTo(ss, k)
    OBVIOUS
  <2>2. k - 1 \in 0 .. n /\ k \in 0 .. n
    OBVIOUS
  <2>3. c = a \o b /\ a \in Seq(Nat) /\ b \in Seq(Nat)
    BY <1>4, <1>7, <2>1, <2>2
  <2>4. /\ Len(c) = Len(a) + Len(b) /\ Len(a) \in Nat /\ Len(b) \in Nat
        /\ \A i \in 1 .. Len(b) : c[Len(a) + i] = b[i]
    <3>1. Joined(c, a, b, Nat)
      BY <2>3, ConcatIs
    <3> QED
      BY <3>1 DEF Joined
  <2>5. Off(l, k - 1) = Len(a) /\ Off(l, k) = Len(c) /\ Len(b) = l[k].len
    BY <1>3, <1>4, <2>1 DEF Off
  <2>6. ASSUME NEW i \in 1 .. l[k].len
        PROVE  u[Len(a) + i] = l[k].addr + i - 1
    <3>1. Len(a) + i \in 1 .. Len(c)
      BY <2>4, <2>5
    <3>2. u[Len(a) + i] = c[Len(a) + i]
      BY <1>9, <2>1, <2>2, <2>5, <3>1
    <3>3. c[Len(a) + i] = b[i]
      BY <2>4, <2>5
    <3> QED
      BY <1>4, <2>1, <3>2, <3>3
  <2> QED
    BY <2>4, <2>5, <2>6
<1> QED
  BY <1>1, <1>2, <1>4, <1>8, <1>9, <1>10 DEF Laid

\* From an address to the end of a page there is no less than the rest of its own.
LEMMA ToPageEnd ==
  ASSUME NEW b \in Nat \ {0}, NEW a \in Nat, NEW n \in Nat \ {0}, (a + n) % b = 0
  PROVE  n >= b - (a % b)
<1>1. PICK i \in Nat, t \in 0 .. b - 1 : a = b * i + t /\ a % b = t
  <2>1. PICK i, t : Divided(a, b, i, t)
    BY DivMod
  <2> QED
    BY <2>1, DivModIs DEF Divided
<1>2. PICK j \in Nat, v \in 0 .. b - 1 : a + n = b * j + v /\ (a + n) % b = v
  <2>1. PICK c \in Nat : c = a + n
    OBVIOUS
  <2>2. PICK j, v : Divided(c, b, j, v)
    BY DivMod
  <2>3. c % b = v
    BY <2>2, DivModIs
  <2> QED
    BY <2>1, <2>2, <2>3 DEF Divided
<1>3. v = 0 /\ a + n = b * j
  BY <1>2
<1>4. i + 1 <= j
  <2>1. SUFFICES ASSUME j <= i PROVE FALSE
    OBVIOUS
  <2>2. b * j <= b * i
    BY <2>1
  <2> QED
    BY <1>1, <1>3, <2>2
<1>5. b * j >= b * i + b
  <2>1. b * (i + 1) <= b * j /\ b * (i + 1) = b * i + b
    BY <1>4
  <2> QED
    BY <2>1
<1> QED
  BY <1>1, <1>3, <1>5

\* The place at in the list is that of its unit x.
At(l, at, x) ==
  /\ at = [elem |-> at.elem, off |-> at.off]
  /\ \/ /\ at.elem \in DOMAIN l /\ at.off \in Nat /\ at.off < l[at.elem].len
        /\ x = Off(l, at.elem - 1) + at.off
     \/ at.elem = Len(l) + 1 /\ at.off = 0 /\ x = Len(Units(l))

\* __GetPhysAddr gives the units from there on, of the element.
PieceFits(l, at, x, max, p) ==
  LET u == Units(l)
      e == at.elem
      rest == l[e].len - at.off
  IN  /\ e \in DOMAIN l /\ rest \in Nat \ {0} /\ p.addr \in Nat /\ p.addr = l[e].addr + at.off
      /\ p.len \in Nat \ {0} /\ p.len = Least(max, rest) /\ x \in Nat /\ x + p.len <= Len(u)
      /\ \A n \in 1 .. p.len : u[x + n] = p.addr + n - 1
      /\ At(l, p.next, x + p.len)
      /\ IF p.len = rest THEN p.next = [elem |-> e + 1, off |-> 0] ELSE p.next = [elem |-> e, off |-> at.off + p.len]

\* So it does.
LEMMA PieceIs ==
  ASSUME NEW l, IsSgl(l), NEW at, NEW x, At(l, at, x), x < Len(Units(l)), NEW max \in Nat \ {0},
         NEW p, p = PieceAt(l, at, max)
  PROVE  PieceFits(l, at, x, max, p)
<1>0. PICK u, e, rest : u = Units(l) /\ e = at.elem /\ rest = l[e].len - at.off
  OBVIOUS
<1>1. /\ u \in Seq(Nat) /\ Len(u) \in Nat /\ Len(l) \in Nat /\ DOMAIN l = 1 .. Len(l)
      /\ Off(l, 0) = 0 /\ Off(l, Len(l)) = Len(u)
      /\ \A k \in 0 .. Len(l) : Off(l, k) \in Nat /\ Off(l, k) <= Len(u)
      /\ \A k \in DOMAIN l : /\ l[k].addr \in Nat /\ l[k].len \in Nat \ {0}
                             /\ Off(l, k) = Off(l, k - 1) + l[k].len
                             /\ \A n \in 1 .. l[k].len : u[Off(l, k - 1) + n] = l[k].addr + n - 1
  <2>1. Laid(l, u)
    BY <1>0, UnitsAre
  <2> QED
    BY <2>1 DEF Laid
<1>2. e \in DOMAIN l /\ at.off \in Nat /\ at.off < l[e].len /\ x = Off(l, e - 1) + at.off
  BY <1>0, <1>1 DEF At
<1>3. PICK addr, len, off, base : addr = l[e].addr /\ len = l[e].len /\ off = at.off /\ base = Off(l, e - 1)
  OBVIOUS
<1>4. /\ addr \in Nat /\ len \in Nat \ {0} /\ off \in Nat /\ off < len /\ base \in Nat /\ x = base + off
      /\ Off(l, e) = base + len /\ base + len <= Len(u)
      /\ \A n \in 1 .. len : u[base + n] = addr + n - 1
  <2>1. e - 1 \in 0 .. Len(l) /\ e \in 0 .. Len(l)
    BY <1>1, <1>2
  <2> QED
    BY <1>1, <1>2, <1>3, <2>1
<1>5. at = [elem |-> e, off |-> off]
  BY <1>0, <1>3 DEF At
<1>6. PICK n : n = Least(max, len - off)
  OBVIOUS
<1>7. n \in Nat \ {0} /\ n <= len - off /\ rest = len - off /\ rest \in Nat \ {0}
  BY <1>0, <1>3, <1>4, <1>6 DEF Least
<1>8. PICK next : next = IF off + n >= len THEN [elem |-> e + 1, off |-> 0] ELSE [at EXCEPT !.off = off + n]
  OBVIOUS
<1>9. p = [addr |-> addr + off, len |-> n, next |-> next]
  <2>1. [at EXCEPT !.off = @ + n] = [at EXCEPT !.off = off + n]
    BY <1>3
  <2> QED
    BY <1>0, <1>3, <1>6, <1>8, <2>1 DEF PieceAt
<1>10. p.addr = addr + off /\ p.len = n /\ p.next = next
  BY <1>9
<1>11. IF n = rest THEN next = [elem |-> e + 1, off |-> 0] ELSE next = [elem |-> e, off |-> off + n]
  BY <1>4, <1>5, <1>7, <1>8
<1>12. ASSUME NEW i \in 1 .. n
       PROVE  u[x + i] = (addr + off) + i - 1
  <2>1. off + i \in 1 .. len /\ x + i = base + (off + i) /\ addr + (off + i) - 1 = (addr + off) + i - 1
    BY <1>4, <1>7
  <2> QED
    BY <1>4, <2>1
<1>13. At(l, next, x + n)
  <2>1. CASE n # rest
    <3>0. off + n < len /\ off + n \in Nat
      <4>1. n \in Nat /\ off \in Nat /\ len \in Nat /\ n <= len - off /\ n # len - off
        BY <1>4, <1>7, <2>1
      <4> QED
        BY <4>1
    <3>1. next = [elem |-> e, off |-> off + n]
      BY <1>11, <2>1
    <3>2. next.elem = e /\ next.off = off + n
      BY <3>1
    <3>3. x + n = base + (off + n)
      BY <1>4, <1>7
    <3> QED
      BY <1>2, <1>3, <3>0, <3>1, <3>2, <3>3 DEF At
  <2>2. CASE n = rest
    <3>1. next = [elem |-> e + 1, off |-> 0] /\ x + n = Off(l, e) /\ next.elem = e + 1 /\ next.off = 0
      BY <1>4, <1>7, <1>11, <2>2
    <3>2. CASE e = Len(l)
      BY <1>0, <1>1, <3>1, <3>2 DEF At
    <3>3. CASE e # Len(l)
      <4>1. e + 1 \in DOMAIN l /\ (e + 1) - 1 = e /\ l[e + 1].len > 0
        <5>1. e + 1 \in DOMAIN l /\ (e + 1) - 1 = e
          BY <1>1, <1>2, <3>3
        <5>2. l[e + 1].len \in Nat \ {0}
          BY <1>1, <5>1
        <5> QED
          BY <5>1, <5>2
      <4>2. x + n = Off(l, e) + 0
        BY <1>1, <1>4, <3>1
      <4> QED
        BY <3>1, <4>1, <4>2 DEF At
    <3> QED
      BY <3>2, <3>3
  <2> QED
    BY <2>1, <2>2
<1>14. IF p.len = rest THEN p.next = [elem |-> e + 1, off |-> 0] ELSE p.next = [elem |-> e, off |-> at.off + p.len]
  BY <1>3, <1>10, <1>11
<1>15. x \in Nat /\ x + n <= Len(u) /\ addr + off \in Nat
  BY <1>1, <1>4, <1>7
<1>16. p.addr \in Nat /\ p.addr = l[e].addr + at.off /\ p.len \in Nat \ {0} /\ p.len = Least(max, rest)
  BY <1>3, <1>6, <1>7, <1>10, <1>15
<1>17. \A i \in 1 .. p.len : u[x + i] = p.addr + i - 1
  BY <1>10, <1>12
<1>18. At(l, p.next, x + p.len) /\ x + p.len <= Len(u)
  BY <1>10, <1>13, <1>15
<1> QED
  BY <1>0, <1>2, <1>7, <1>14, <1>15, <1>16, <1>17, <1>18 DEF PieceFits

\* The rest of the list from there, or of the page in the element.
LEMMA RestIs ==
  ASSUME NEW l, IsSgl(l), Contiguous(l), NEW at, NEW u, u = Units(l), NEW x, At(l, at, x), x < Len(u),
         NEW e, e = at.elem, NEW rest, rest = l[e].len - at.off, NEW addr, addr = l[e].addr + at.off
  PROVE  /\ rest = Len(u) - x \/ (rest < Len(u) - x /\ (addr + rest) % PageSize = 0)
         /\ e \in DOMAIN l /\ rest \in Nat \ {0} /\ addr \in Nat
         /\ e > 1 /\ at.off = 0 => addr % PageSize = 0
<1>1. Laid(l, u)
  BY UnitsAre
<1>2. /\ Len(u) \in Nat /\ Len(l) \in Nat /\ DOMAIN l = 1 .. Len(l) /\ Off(l, Len(l)) = Len(u)
      /\ \A k \in 0 .. Len(l) : Off(l, k) \in Nat /\ Off(l, k) <= Len(u)
      /\ \A k \in DOMAIN l : l[k].addr \in Nat /\ l[k].len \in Nat \ {0} /\ Off(l, k) = Off(l, k - 1) + l[k].len
  BY <1>1 DEF Laid
<1>3. e \in DOMAIN l /\ at.off \in Nat /\ at.off < l[e].len /\ x = Off(l, e - 1) + at.off
  BY <1>2 DEF At
<1>4. PICK a, len, off, base : a = l[e].addr /\ len = l[e].len /\ off = at.off /\ base = Off(l, e - 1)
  OBVIOUS
<1>5. /\ a \in Nat /\ len \in Nat \ {0} /\ off \in Nat /\ off < len /\ base \in Nat /\ x = base + off
      /\ Off(l, e) = base + len /\ base + len <= Len(u) /\ e \in 1 .. Len(l)
  <2>1. e - 1 \in 0 .. Len(l) /\ e \in 0 .. Len(l) /\ e \in 1 .. Len(l)
    <3>1. e \in 1 .. Len(l) /\ Len(l) \in Nat
      BY <1>2, <1>3
    <3> QED
      BY <3>1
  <2>2. base \in Nat /\ Off(l, e) <= Len(u)
    BY <1>2, <1>4, <2>1
  <2>3. a \in Nat /\ len \in Nat \ {0} /\ Off(l, e) = base + len
    BY <1>2, <1>3, <1>4
  <2>4. off \in Nat /\ off < len /\ x = base + off
    BY <1>3, <1>4
  <2> QED
    BY <2>1, <2>2, <2>3, <2>4
<1>6. rest = len - off /\ addr = a + off /\ rest \in Nat \ {0} /\ addr \in Nat
  <2>1. rest = len - off /\ addr = a + off
    BY <1>4
  <2>2. a \in Nat /\ len \in Nat /\ off \in Nat /\ off < len
    BY <1>5
  <2> QED
    BY <2>1, <2>2
<1>7. e > 1 /\ off = 0 => addr % PageSize = 0
  <2>1. e > 1 => a % PageSize = 0
    BY <1>3, <1>4 DEF Contiguous
  <2> QED
    BY <1>5, <1>6, <2>1
<1>8. CASE e = Len(l)
  <2>1. base + len = Len(u)
    BY <1>2, <1>5, <1>8
  <2>2. rest = Len(u) - x
    <3>1. base \in Nat /\ off \in Nat /\ len \in Nat /\ x = base + off /\ rest = len - off
      BY <1>5, <1>6
    <3> QED
      BY <2>1, <3>1
  <2> QED
    BY <1>3, <1>4, <1>6, <1>7, <2>2
<1>9. CASE e # Len(l)
  <2>1. e < Len(l)
    BY <1>2, <1>5, <1>9
  <2>2. (a + len) % PageSize = 0
    BY <1>3, <1>4, <2>1 DEF Contiguous
  <2>3. addr + rest = a + len
    BY <1>5, <1>6
  <2>4. rest = Len(u) - x \/ rest < Len(u) - x
    <3>1. base \in Nat /\ off \in Nat /\ len \in Nat /\ x = base + off /\ rest = len - off /\ base + len <= Len(u)
      BY <1>5, <1>6
    <3>2. PICK w \in Nat : w = Len(u)
      BY <1>2
    <3> QED
      BY <3>1, <3>2
  <2>5. (addr + rest) % PageSize = 0
    BY <2>2, <2>3
  <2> QED
    BY <1>3, <1>4, <1>6, <1>7, <2>4, <2>5
<1> QED
  BY <1>8, <1>9

\* What __GetPhysAddr gives: the rest of the page, or of the list.
GivesRest(l, p, x, n) ==
  LET u == Units(l)
  IN  /\ p.len = n /\ p.addr \in Nat /\ n \in Nat \ {0} /\ x + n <= Len(u)
      /\ \A i \in 1 .. n : u[x + i] = p.addr + i - 1
      /\ At(l, p.next, x + n)

\* The constants.
LEMMA Constants ==
  /\ SectorSize \in Nat \ {0} /\ PageSize \in Nat \ {0} /\ SectorsPerPage \in Nat \ {0}
  /\ PageSize = SectorSize * SectorsPerPage
<1>1. SectorSize \in Nat \ {0} /\ PageSize \in Nat \ {0} /\ PageSize % SectorSize = 0
  BY PrepareAssumption
<1>2. PICK i \in Nat, t \in 0 .. SectorSize - 1 : PageSize = SectorSize * i + t /\ PageSize \div SectorSize = i /\ PageSize % SectorSize = t
  <2>1. PICK i, t : Divided(PageSize, SectorSize, i, t)
    BY <1>1, DivMod
  <2>2. PageSize \div SectorSize = i /\ PageSize % SectorSize = t
    BY <2>1, DivModIs
  <2> QED
    BY <2>1, <2>2 DEF Divided
<1>3. PageSize = SectorSize * i
  BY <1>1, <1>2
<1>4. i # 0
  BY <1>1, <1>3
<1> QED
  BY <1>1, <1>2, <1>3, <1>4 DEF SectorsPerPage

\* The first piece of a segment.
LEMMA FirstPiece ==
  ASSUME NEW l, IsSgl(l), Contiguous(l), NEW at, NEW u, u = Units(l), NEW x, At(l, at, x), x < Len(u),
         NEW p, p = GetPhysAddr(l, at, 0), NEW ph, ph = p.addr % PageSize
  PROVE  ph \in 0 .. PageSize - 1 /\ GivesRest(l, p, x, Least(PageSize - ph, Len(u) - x)) /\ x \in Nat /\ Len(u) \in Nat
<1>1. PICK e, rest, addr : e = at.elem /\ rest = l[e].len - at.off /\ addr = l[e].addr + at.off
  OBVIOUS
<1>2. /\ rest = Len(u) - x \/ (rest < Len(u) - x /\ (addr + rest) % PageSize = 0)
      /\ e \in DOMAIN l /\ rest \in Nat \ {0} /\ addr \in Nat
  BY <1>1, RestIs
<1>3. PICK a : a = addr % PageSize
  OBVIOUS
<1>4. a \in 0 .. PageSize - 1 /\ PageSize \in Nat \ {0}
  BY <1>2, <1>3, Constants
<1>5. PICK max : max = PageSize - a
  OBVIOUS
<1>6. max \in Nat \ {0}
  BY <1>4, <1>5
<1>7. p = PieceAt(l, at, max)
  BY <1>1, <1>3, <1>4, <1>5 DEF GetPhysAddr, RestOfPage
<1>8. /\ p.addr \in Nat /\ p.addr = addr
      /\ p.len \in Nat \ {0} /\ p.len = Least(max, rest) /\ x \in Nat /\ x + p.len <= Len(u)
      /\ \A n \in 1 .. p.len : u[x + n] = p.addr + n - 1
      /\ At(l, p.next, x + p.len)
  <2>1. PieceFits(l, at, x, max, p)
    BY <1>6, <1>7, PieceIs
  <2> QED
    BY <1>1, <2>1 DEF PieceFits
<1>9. ph = a
  BY <1>3, <1>8
<1>10. p.len = Least(PageSize - ph, Len(u) - x)
  <2>1. CASE rest = Len(u) - x
    BY <1>5, <1>8, <1>9, <2>1
  <2>2. CASE rest < Len(u) - x /\ (addr + rest) % PageSize = 0
    <3>1. rest >= PageSize - a
      BY <1>2, <1>3, <1>4, <2>2, ToPageEnd
    <3> QED
      BY <1>2, <1>4, <1>5, <1>8, <1>9, <2>2, <3>1 DEF Least
  <2> QED
    BY <1>2, <2>1, <2>2
<1>11. Len(u) \in Nat
  <2>1. Laid(l, u)
    BY UnitsAre
  <2> QED
    BY <2>1 DEF Laid
<1> QED
  BY <1>4, <1>8, <1>9, <1>10, <1>11 DEF GivesRest

\* What is taken of a page is whole sectors if what is left of the list is and it begins with one.
LEMMA RestWhole ==
  ASSUME NEW m \in Nat, NEW n \in Nat
  PROVE  Least(SectorSize * m, SectorSize * n) = SectorSize * Least(m, n)
<1>1. SectorSize \in Nat \ {0}
  BY Constants
<1>2. CASE m <= n
  <2>1. SectorSize * m <= SectorSize * n
    BY <1>1, <1>2
  <2> QED
    BY <1>2, <2>1 DEF Least
<1>3. CASE ~ (m <= n)
  <2>1. n + 1 <= m
    BY <1>3
  <2>2. SectorSize * (n + 1) <= SectorSize * m /\ SectorSize * (n + 1) = SectorSize * n + SectorSize
    BY <1>1, <2>1
  <2>3. ~ (SectorSize * m <= SectorSize * n)
    <3>1. SectorSize * m \in Nat /\ SectorSize * n \in Nat
      BY <1>1
    <3> QED
      BY <1>1, <2>2, <3>1
  <2> QED
    BY <1>3, <2>3 DEF Least
<1> QED
  BY <1>2, <1>3

\* The piece that completes one at the end of a page.
LEMMA SecondPiece ==
  ASSUME NEW l, IsSgl(l), Contiguous(l), NEW at, NEW u, u = Units(l), NEW x, At(l, at, x), x < Len(u),
         NEW p, p = GetPhysAddr(l, at, 0), NEW ph, ph = p.addr % PageSize, 0 < ph, PageSize - ph < Len(u) - x,
         NEW q, q = GetPhysAddr(l, p.next, p.len)
  PROVE  /\ p.next.elem \in DOMAIN l
         /\ GivesRest(l, q, x + p.len, Least(ph, (Len(u) - x) - p.len))
<1>1. /\ p.addr \in Nat /\ p.len = PageSize - ph /\ At(l, p.next, x + p.len) /\ ph \in 0 .. PageSize - 1 /\ x \in Nat
      /\ Len(u) \in Nat
  <2>1. ph \in 0 .. PageSize - 1 /\ GivesRest(l, p, x, Least(PageSize - ph, Len(u) - x)) /\ x \in Nat /\ Len(u) \in Nat
    BY FirstPiece
  <2>2. Least(PageSize - ph, Len(u) - x) = PageSize - ph
    <3>1. ph \in Int /\ x \in Int /\ Len(u) \in Int /\ PageSize \in Int
      BY <2>1, Constants
    <3>2. PageSize - ph <= Len(u) - x
      BY <3>1
    <3> QED
      BY <3>2 DEF Least
  <2> QED
    BY <2>1, <2>2 DEF GivesRest
<1>2. PICK next, y : next = p.next /\ y = x + p.len
  OBVIOUS
<1>3. PageSize \in Nat \ {0}
  BY Constants
<1>4. y < Len(u) /\ At(l, next, y) /\ y \in Nat
  <2>1. PICK n \in Nat : n = p.len
    BY <1>1, <1>3
  <2> QED
    BY <1>1, <1>2, <2>1
<1>5. PICK e, rest, addr : e = next.elem /\ rest = l[e].len - next.off /\ addr = l[e].addr + next.off
  OBVIOUS
<1>6. /\ rest = Len(u) - y \/ (rest < Len(u) - y /\ (addr + rest) % PageSize = 0)
      /\ e \in DOMAIN l /\ rest \in Nat \ {0} /\ addr \in Nat
      /\ e > 1 /\ next.off = 0 => addr % PageSize = 0
  BY <1>4, <1>5, RestIs
<1>7. addr % PageSize = 0
  <2>1. PICK d, max, more : d = at.elem /\ max = RestOfPage(l, at) - 0 /\ more = l[d].len - at.off
    OBVIOUS
  <2>2. p = PieceAt(l, at, max)
    BY <2>1 DEF GetPhysAddr
  <2>3. d \in DOMAIN l /\ l[d].addr + at.off \in Nat
    BY <2>1, RestIs
  <2>4. max \in Nat \ {0}
    <3>1. PICK a \in Nat : a = l[d].addr + at.off
      BY <2>3
    <3>2. PageSize - (a % PageSize) \in Nat \ {0}
      BY <1>3
    <3> QED
      BY <2>1, <3>1, <3>2 DEF RestOfPage
  <2>5. /\ p.addr = l[d].addr + at.off /\ x + p.len <= Len(u)
        /\ IF p.len = more THEN p.next = [elem |-> d + 1, off |-> 0] ELSE p.next = [elem |-> d, off |-> at.off + p.len]
    <3>1. PieceFits(l, at, x, max, p)
      BY <2>2, <2>4, PieceIs
    <3> QED
      BY <2>1, <3>1 DEF PieceFits
  <2>6. CASE p.len = more
    <3>1. e = d + 1 /\ next.off = 0
      BY <1>2, <1>5, <2>5, <2>6
    <3>2. d \in Nat \ {0}
      <4>1. Laid(l, u)
        BY UnitsAre
      <4> QED
        BY <2>3, <4>1 DEF Laid
    <3> QED
      BY <1>6, <3>1, <3>2
  <2>7. CASE p.len # more
    <3>1. e = d /\ next.off = at.off + p.len
      BY <1>2, <1>5, <2>5, <2>7
    <3>2. addr = p.addr + (PageSize - ph)
      <4>1. l[d].addr \in Nat /\ at.off \in Nat
        <5>1. Laid(l, u)
          BY UnitsAre
        <5>2. d # Len(l) + 1
          BY <2>3, <5>1 DEF Laid
        <5> QED
          BY <2>1, <2>3, <5>1, <5>2 DEF Laid, At
      <4>2. p.len \in Nat /\ p.len = PageSize - ph
        BY <1>1, <1>3
      <4> QED
        BY <1>5, <2>5, <3>1, <4>1, <4>2
    <3>3. PICK i \in Nat, t \in 0 .. PageSize - 1 : p.addr = PageSize * i + t /\ p.addr % PageSize = t
      <4>1. PICK i, t : Divided(p.addr, PageSize, i, t)
        BY <1>1, <1>3, DivMod
      <4>2. p.addr % PageSize = t
        BY <4>1, DivModIs
      <4> QED
        BY <4>1, <4>2 DEF Divided
    <3>4. PICK k \in Nat, z \in 0 .. PageSize - 1 : k = i + 1 /\ z = 0
      BY <1>3
    <3>5. addr = PageSize * k + z
      <4>1. PageSize * (i + 1) = PageSize * i + PageSize /\ PageSize * i \in Nat
        BY <1>3
      <4> QED
        BY <1>3, <3>2, <3>3, <3>4, <4>1
    <3>6. addr % PageSize = z
      <4>1. Divided(addr, PageSize, k, z)
        BY <1>3, <3>5 DEF Divided
      <4> QED
        BY <4>1, DivModIs
    <3> QED
      BY <3>4, <3>6
  <2> QED
    BY <2>6, <2>7
<1>8. q = PieceAt(l, next, ph)
  <2>1. RestOfPage(l, next) = PageSize - 0
    BY <1>5, <1>7 DEF RestOfPage
  <2>2. (PageSize - 0) - p.len = ph
    BY <1>1, <1>3
  <2> QED
    BY <1>2, <2>1, <2>2 DEF GetPhysAddr
<1>9. PieceFits(l, next, y, ph, q)
  <2>1. ph \in Nat \ {0}
    BY <1>1, <1>3
  <2> QED
    BY <1>4, <1>8, <2>1, PieceIs
<1>10. q.len = Least(ph, Len(u) - y)
  <2>1. q.len = Least(ph, rest)
    BY <1>5, <1>9 DEF PieceFits
  <2>2. CASE rest = Len(u) - y
    BY <2>1, <2>2
  <2>3. CASE rest < Len(u) - y /\ (addr + rest) % PageSize = 0
    <3>1. rest >= PageSize - 0
      BY <1>3, <1>6, <1>7, <2>3, ToPageEnd
    <3>2. Least(ph, rest) = ph /\ Least(ph, Len(u) - y) = ph
      BY <1>1, <1>3, <1>4, <1>6, <2>3, <3>1 DEF Least
    <3> QED
      BY <2>1, <3>2
  <2> QED
    BY <1>6, <2>2, <2>3
<1>11. Len(u) - y = (Len(u) - x) - p.len
  <2>1. p.len \in Nat
    BY <1>1, <1>3
  <2> QED
    BY <1>1, <1>2, <2>1
<1> QED
  BY <1>2, <1>5, <1>6, <1>9, <1>10, <1>11 DEF PieceFits, GivesRest

\* n of the units from the x-th on.
Slice(u, x, n) == [i \in 1 .. n |-> u[x + i]]

\* A sequence of them, and two that follow one another.
LEMMA SliceIs ==
  ASSUME NEW T, NEW u \in Seq(T), NEW x \in Nat, NEW n \in Nat, x + n <= Len(u)
  PROVE  Slice(u, x, n) \in Seq(T) /\ Len(Slice(u, x, n)) = n
<1>1. ASSUME NEW i \in 1 .. n
      PROVE  u[x + i] \in T
  <2>1. x + i \in 1 .. Len(u)
    BY LenProperties
  <2> QED
    BY <2>1, ElementOfSeq
<1>2. Slice(u, x, n) \in [1 .. n -> T]
  BY <1>1 DEF Slice
<1> QED
  BY <1>2

\* Two that follow one another.
LEMMA SlicesAdd ==
  ASSUME NEW T, NEW u \in Seq(T), NEW x \in Nat, NEW n \in Nat, NEW m \in Nat, x + n + m <= Len(u)
  PROVE  Slice(u, x, n) \o Slice(u, x + n, m) = Slice(u, x, n + m)
<1>1. PICK a, b, c, d : a = Slice(u, x, n) /\ b = Slice(u, x + n, m) /\ c = a \o b /\ d = Slice(u, x, n + m)
  OBVIOUS
<1>2. a \in Seq(T) /\ Len(a) = n
  <2>1. x + n <= Len(u)
    BY LenProperties
  <2> QED
    BY <1>1, <2>1, SliceIs
<1>3. b \in Seq(T) /\ Len(b) = m
  <2>1. x + n \in Nat
    OBVIOUS
  <2> QED
    BY <1>1, <2>1, SliceIs
<1>4. d \in Seq(T) /\ Len(d) = n + m
  <2>1. n + m \in Nat /\ x + (n + m) <= Len(u)
    BY LenProperties
  <2> QED
    BY <1>1, <2>1, SliceIs
<1>5. /\ c \in Seq(T) /\ Len(c) = n + m
      /\ \A i \in 1 .. n : c[i] = a[i]
      /\ \A i \in 1 .. m : c[n + i] = b[i]
  <2>1. /\ c \in Seq(T) /\ Len(c) = Len(a) + Len(b)
        /\ \A i \in 1 .. Len(a) : c[i] = a[i]
        /\ \A i \in 1 .. Len(b) : c[Len(a) + i] = b[i]
    <3>1. c = a \o b
      BY <1>1
    <3>2. Joined(c, a, b, T)
      BY <1>2, <1>3, <3>1, ConcatIs
    <3> QED
      BY <3>2 DEF Joined
  <2> QED
    BY <1>2, <1>3, <2>1
<1>6. ASSUME NEW i \in 1 .. n + m
      PROVE  c[i] = d[i]
  <2>1. d[i] = u[x + i]
    BY <1>1 DEF Slice
  <2>2. CASE i <= n
    <3>1. i \in 1 .. n
      BY <2>2
    <3>2. a[i] = u[x + i]
      BY <1>1, <3>1 DEF Slice
    <3> QED
      BY <1>5, <2>1, <3>1, <3>2
  <2>3. CASE i > n
    <3>1. PICK j \in 1 .. m : i = n + j
      <4>1. i - n \in 1 .. m /\ i = n + (i - n)
        BY <2>3
      <4> QED
        BY <4>1
    <3>2. b[j] = u[(x + n) + j]
      BY <1>1, <3>1 DEF Slice
    <3>3. (x + n) + j = x + i
      BY <3>1
    <3> QED
      BY <1>5, <2>1, <3>1, <3>2, <3>3
  <2> QED
    BY <2>2, <2>3
<1>7. c = d
  BY <1>4, <1>5, <1>6, SeqEqual
<1> QED
  BY <1>1, <1>7

\* All of them.
LEMMA SliceAll ==
  ASSUME NEW T, NEW u \in Seq(T)
  PROVE  Slice(u, 0, Len(u)) = u /\ Slice(u, 0, 0) = <<>>
<1>1. PICK n \in Nat : n = Len(u)
  BY LenProperties
<1>2. PICK a, b : a = Slice(u, 0, n) /\ b = Slice(u, 0, 0)
  OBVIOUS
<1>3. a \in Seq(T) /\ Len(a) = n /\ b \in Seq(T) /\ Len(b) = 0
  <2>1. 0 \in Nat /\ 0 + n <= Len(u) /\ 0 + 0 <= Len(u)
    BY <1>1
  <2> QED
    BY <1>1, <1>2, <2>1, SliceIs
<1>4. \A i \in 1 .. n : a[i] = u[i]
  BY <1>2 DEF Slice
<1>5. a = u
  BY <1>1, <1>3, <1>4, SeqEqual
<1>6. b = <<>>
  BY <1>3, EmptySeq
<1> QED
  BY <1>1, <1>2, <1>5, <1>6

\* The addresses of a piece.
LEMMA AddressesAre ==
  ASSUME NEW l, IsSgl(l), NEW p, NEW x \in Nat, NEW n, GivesRest(l, p, x, n)
  PROVE  /\ Addresses(p) = Slice(Units(l), x, n) /\ Addresses(p) \in Seq(Nat) /\ Len(Addresses(p)) = n /\ n \in Nat \ {0}
         /\ Addresses(p) = [i \in 1 .. n |-> p.addr + i - 1]
<1>1. PICK u : u = Units(l)
  OBVIOUS
<1>2. p.len = n /\ n \in Nat \ {0} /\ x + n <= Len(u) /\ \A i \in 1 .. n : u[x + i] = p.addr + i - 1
  BY <1>1 DEF GivesRest
<1>3. u \in Seq(Nat)
  <2>1. Laid(l, u)
    BY <1>1, UnitsAre
  <2> QED
    BY <2>1 DEF Laid
<1>4. Addresses(p) = [i \in 1 .. n |-> p.addr + i - 1]
  BY <1>2 DEF Addresses
<1>5. Addresses(p) = Slice(u, x, n)
  BY <1>2, <1>4 DEF Slice
<1>6. Slice(u, x, n) \in Seq(Nat) /\ Len(Slice(u, x, n)) = n
  BY <1>2, <1>3, SliceIs
<1> QED
  BY <1>1, <1>2, <1>4, <1>5, <1>6

\* A segment has the data of its piece or pieces, and as many sectors, inside a page.
Proper(seg) ==
  /\ seg.src \in Seq(Nat) /\ SegmentUnits(seg) = seg.src
  /\ seg.last < SectorsPerPage /\ Cardinality(Extent(seg)) = Len(seg.src)

\* The sectors of a segment.
Spans(seg, first, now) == first \in Nat /\ now \in Nat \ {0} /\ seg.first = first /\ seg.last = first + now - 1

\* How many units they have.
LEMMA ExtentIs ==
  ASSUME NEW seg, NEW first, NEW now, Spans(seg, first, now)
  PROVE  Extent(seg) = 1 .. SectorSize * now /\ Cardinality(Extent(seg)) = SectorSize * now
<1>1. SectorSize \in Nat \ {0} /\ now \in Nat \ {0}
  BY Constants DEF Spans
<1>2. (seg.last - seg.first + 1) * SectorSize = SectorSize * now
  BY <1>1 DEF Spans
<1>3. Extent(seg) = 1 .. SectorSize * now
  BY <1>2 DEF Extent
<1>4. PICK n \in Nat : n = SectorSize * now
  BY <1>1
<1>5. Cardinality(1 .. n) = n
  BY FS_Interval
<1> QED
  BY <1>3, <1>4, <1>5

\* What Cut is to give with left sectors to go, x units into the list.
CutFits(l, x, left, z) ==
  LET n == SectorSize * z.now
  IN  /\ z.ok /\ z.now \in Nat \ {0} /\ z.now <= left
      /\ Proper(z.seg) /\ z.seg.src = Slice(Units(l), x, n)
      /\ At(l, z.next, x + n)
CutOf(l, x, left) ==
  /\ IsSgl(l) /\ Contiguous(l) /\ left \in Nat \ {0} /\ x \in Nat /\ x % SectorSize = 0
  /\ Len(Units(l)) = x + SectorSize * left

\* A segment whose page is granted.
LEMMA DirectIs ==
  ASSUME NEW l, NEW x, NEW left, CutOf(l, x, left), NEW p, NEW ph, ph = p.addr % PageSize, ph \in 0 .. PageSize - 1,
         ph % SectorSize = 0, GivesRest(l, p, x, Least(PageSize - ph, SectorSize * left))
  PROVE  CutFits(l, x, left, Direct(p, left)) /\ Whole(p.len)
<1>1. /\ SectorSize \in Nat \ {0} /\ PageSize \in Nat \ {0} /\ SectorsPerPage \in Nat \ {0}
      /\ PageSize = SectorSize * SectorsPerPage
  BY Constants
<1>2. PICK b \in Nat, t \in 0 .. SectorSize - 1 : ph = SectorSize * b + t /\ ph \div SectorSize = b /\ ph % SectorSize = t
  <2>1. ph \in Nat /\ SectorSize \in Nat \ {0}
    BY <1>1
  <2>2. PICK b, t : Divided(ph, SectorSize, b, t)
    BY <2>1, DivMod
  <2>3. ph \div SectorSize = b /\ ph % SectorSize = t
    BY <2>2, DivModIs
  <2> QED
    BY <2>2, <2>3 DEF Divided
<1>3. ph = SectorSize * b
  BY <1>1, <1>2
<1>4. PICK m \in Nat \ {0} : m = SectorsPerPage
  BY <1>1
<1>5. b < m
  <2>1. SUFFICES ASSUME m <= b PROVE FALSE
    OBVIOUS
  <2>2. SectorSize * m <= SectorSize * b
    BY <1>1, <2>1
  <2> QED
    BY <1>1, <1>3, <1>4, <2>2
<1>6. PICK now : now = Least(left, m - b)
  OBVIOUS
<1>7. left \in Nat \ {0} /\ IsSgl(l) /\ x \in Nat
  BY DEF CutOf
<1>8. now \in Nat \ {0} /\ now <= left /\ now <= m - b
  BY <1>5, <1>6, <1>7 DEF Least
<1>9. PageSize - ph = SectorSize * (m - b)
  BY <1>1, <1>3, <1>4
<1>10. Least(PageSize - ph, SectorSize * left) = SectorSize * now
  <2>1. m - b \in Nat
    BY <1>5
  <2>2. Least(SectorSize * (m - b), SectorSize * left) = SectorSize * Least(m - b, left)
    BY <1>7, <2>1, RestWhole
  <2>3. Least(m - b, left) = Least(left, m - b)
    BY <1>7, <2>1 DEF Least
  <2> QED
    BY <1>6, <1>9, <2>2, <2>3
<1>11. GivesRest(l, p, x, SectorSize * now)
  BY <1>10
<1>12. p.addr \in Nat /\ p.len = SectorSize * now /\ At(l, p.next, x + SectorSize * now)
  BY <1>11 DEF GivesRest
<1>13. PICK src, page, first, last : src = Addresses(p) /\ page = p.addr \div PageSize /\ first = b /\ last = first + now - 1
  OBVIOUS
<1>14. ((p.addr % PageSize) + SectorSize - 1) \div SectorSize = first
  <2>1. PICK o, a : o = SectorSize - 1 /\ a = ph + (SectorSize - 1)
    OBVIOUS
  <2>2. o \in 0 .. SectorSize - 1 /\ a = SectorSize * b + o
    BY <1>1, <1>3, <2>1
  <2>3. Divided(a, SectorSize, b, o)
    BY <1>1, <2>2 DEF Divided
  <2>4. a \div SectorSize = b
    BY <2>3, DivModIs
  <2>5. p.addr % PageSize = ph
    OBVIOUS
  <2>6. (p.addr % PageSize) + SectorSize - 1 = a
    BY <2>1, <2>5
  <2> QED
    BY <1>13, <2>4, <2>6
<1>15. PICK seg : seg = [NoSegment EXCEPT !.src = src, !.page = page, !.first = first, !.last = last]
  OBVIOUS
<1>16. PICK z : z = Direct(p, left)
  OBVIOUS
<1>17. z = [seg |-> seg, now |-> now, next |-> p.next, ok |-> p.len \div SectorSize = now]
  BY <1>4, <1>6, <1>13, <1>14, <1>15, <1>16 DEF Direct
<1>18. z.seg = seg /\ z.now = now /\ z.next = p.next /\ z.ok = (p.len \div SectorSize = now)
  BY <1>17
<1>19. p.len \div SectorSize = now /\ p.len % SectorSize = 0
  <2>1. PICK o \in 0 .. SectorSize - 1 : o = 0
    BY <1>1
  <2>2. p.len = SectorSize * now + o
    BY <1>1, <1>8, <1>12, <2>1
  <2>3. PICK i \in Nat : i = now
    BY <1>8
  <2>4. PICK a : a = p.len
    OBVIOUS
  <2>5. Divided(a, SectorSize, i, o)
    BY <1>1, <2>1, <2>2, <2>3, <2>4 DEF Divided
  <2>6. a \div SectorSize = i /\ a % SectorSize = o
    BY <2>5, DivModIs
  <2> QED
    BY <2>1, <2>3, <2>4, <2>6
<1>20. /\ seg.src = src /\ seg.page = page /\ seg.first = first /\ seg.last = last /\ ~ seg.bounced
  BY <1>15 DEF NoSegment
<1>21. Extent(seg) = 1 .. SectorSize * now /\ Cardinality(Extent(seg)) = SectorSize * now
  <2>1. Spans(seg, first, now)
    BY <1>8, <1>13, <1>20 DEF Spans
  <2> QED
    BY <2>1, ExtentIs
<1>22. /\ src = Slice(Units(l), x, SectorSize * now) /\ src \in Seq(Nat) /\ Len(src) = SectorSize * now
       /\ src = [i \in 1 .. SectorSize * now |-> p.addr + i - 1]
  BY <1>7, <1>11, <1>13, AddressesAre
<1>23. SegmentUnits(seg) = src
  <2>1. page * PageSize + first * SectorSize = p.addr
    <3>1. PICK i \in Nat, v \in 0 .. PageSize - 1 : p.addr = PageSize * i + v /\ p.addr \div PageSize = i /\ p.addr % PageSize = v
      <4>1. p.addr \in Nat /\ PageSize \in Nat \ {0}
        BY <1>1, <1>12
      <4>2. PICK i, v : Divided(p.addr, PageSize, i, v)
        BY <4>1, DivMod
      <4>3. p.addr \div PageSize = i /\ p.addr % PageSize = v
        BY <4>2, DivModIs
      <4> QED
        BY <4>2, <4>3 DEF Divided
    <3>2. page = i /\ v = ph /\ first * SectorSize = SectorSize * b
      BY <1>1, <1>13, <3>1
    <3>3. page * PageSize = PageSize * i
      BY <1>1, <3>2
    <3> QED
      BY <1>3, <3>1, <3>2, <3>3
  <2>2. \A n \in 1 .. SectorSize * now : InPage(seg, n) = p.addr + n - 1
    BY <1>20, <2>1 DEF InPage
  <2>3. SegmentUnits(seg) = [n \in 1 .. SectorSize * now |-> InPage(seg, n)]
    BY <1>20, <1>21 DEF SegmentUnits
  <2> QED
    BY <1>22, <2>2, <2>3
<1>24. seg.last < SectorsPerPage
  BY <1>4, <1>5, <1>8, <1>13, <1>20
<1>25. Proper(seg)
  BY <1>20, <1>21, <1>22, <1>23, <1>24 DEF Proper
<1> QED
  BY <1>8, <1>12, <1>16, <1>18, <1>19, <1>20, <1>22, <1>25 DEF CutFits, Whole

\* The segment that is bounced.
LEMMA BouncedIs ==
  ASSUME NEW l, NEW x, NEW left, CutOf(l, x, left), NEW now \in Nat \ {0}, now <= left, now <= SectorsPerPage,
         NEW src, src = Slice(Units(l), x, SectorSize * now), NEW at, At(l, at, x + SectorSize * now),
         NEW seg, seg = [NoSegment EXCEPT !.src = src, !.last = now - 1, !.bounced = TRUE],
         NEW z, z.seg = seg, z.now = now, z.next = at,
         Whole(Len(src)) /\ Len(src) <= PageSize /\ Len(src) \div SectorSize = now => z.ok
  PROVE  CutFits(l, x, left, z)
<1>1. /\ SectorSize \in Nat \ {0} /\ PageSize \in Nat \ {0} /\ SectorsPerPage \in Nat \ {0}
      /\ PageSize = SectorSize * SectorsPerPage
  BY Constants
<1>2. PICK n \in Nat : n = SectorSize * now
  BY <1>1
<1>3. PICK u : u = Units(l)
  OBVIOUS
<1>4. x \in Nat /\ left \in Nat \ {0} /\ Len(u) = x + SectorSize * left /\ u \in Seq(Nat)
  <2>1. Laid(l, u)
    BY <1>3, UnitsAre DEF CutOf
  <2> QED
    BY <1>3, <2>1 DEF CutOf, Laid
<1>5. n <= SectorSize * left
  <2>1. PICK w \in Nat : left = now + w
    <3>1. left - now \in Nat /\ left = now + (left - now)
      BY <1>4
    <3> QED
      BY <3>1
  <2>2. SectorSize * left = SectorSize * now + SectorSize * w /\ SectorSize * w \in Nat
    BY <1>1, <2>1
  <2> QED
    BY <1>2, <2>2
<1>6. src \in Seq(Nat) /\ Len(src) = n
  <2>1. x + n <= Len(u)
    <3>1. SectorSize * left \in Nat
      BY <1>1, <1>4
    <3> QED
      BY <1>2, <1>4, <1>5, <3>1
  <2> QED
    BY <1>2, <1>3, <1>4, <2>1, SliceIs
<1>7. /\ seg.src = src /\ seg.first = 0 /\ seg.last = now - 1 /\ seg.bounced
  <2>1. PICK yes : yes = TRUE
    OBVIOUS
  <2>2. PICK last : last = now - 1
    OBVIOUS
  <2>3. seg = [NoSegment EXCEPT !.src = src, !.last = last, !.bounced = yes]
    BY <2>1, <2>2
  <2> QED
    BY <2>1, <2>2, <2>3 DEF NoSegment
<1>8. Cardinality(Extent(seg)) = n
  <2>1. PICK first \in Nat : first = 0
    OBVIOUS
  <2>2. Spans(seg, first, now)
    BY <1>7, <2>1 DEF Spans
  <2>3. Extent(seg) = 1 .. SectorSize * now /\ Cardinality(Extent(seg)) = SectorSize * now
    BY <2>2, ExtentIs
  <2> QED
    BY <1>2, <2>3
<1>9. Proper(seg)
  <2>1. SegmentUnits(seg) = src
    BY <1>7 DEF SegmentUnits
  <2>2. seg.last < SectorsPerPage
    BY <1>1, <1>7
  <2> QED
    BY <1>6, <1>7, <1>8, <2>1, <2>2 DEF Proper
<1>10. z.ok
  <2>1. PICK o : o = 0
    OBVIOUS
  <2>2. Divided(n, SectorSize, now, o)
    BY <1>1, <1>2, <2>1 DEF Divided
  <2>3. n \div SectorSize = now /\ n % SectorSize = 0
    BY <2>1, <2>2, DivModIs
  <2>4. n <= PageSize
    BY <1>1, <1>2
  <2> QED
    BY <1>6, <2>3, <2>4 DEF Whole
<1> QED
  BY <1>7, <1>9, <1>10 DEF CutFits

\* A segment that is bounced, in one piece or two.
LEMMA BounceIs ==
  ASSUME NEW l, NEW x, NEW left, CutOf(l, x, left), NEW at, At(l, at, x), NEW p, p = GetPhysAddr(l, at, 0),
         NEW ph, ph = p.addr % PageSize, ph # 0
  PROVE  CutFits(l, x, left, Bounce(l, p, left))
<1>1. /\ SectorSize \in Nat \ {0} /\ PageSize \in Nat \ {0} /\ SectorsPerPage \in Nat \ {0}
      /\ PageSize = SectorSize * SectorsPerPage
  BY Constants
<1>2. PICK u, m : u = Units(l) /\ m = SectorsPerPage
  OBVIOUS
<1>3. /\ IsSgl(l) /\ Contiguous(l) /\ left \in Nat \ {0} /\ x \in Nat
      /\ Len(u) = x + SectorSize * left
  BY <1>2 DEF CutOf
<1>4. PICK R \in Nat \ {0} : R = SectorSize * left
  BY <1>1, <1>3
<1>5. x < Len(u) /\ Len(u) - x = R
  BY <1>3, <1>4
<1>6. ph \in 0 .. PageSize - 1 /\ GivesRest(l, p, x, Least(PageSize - ph, R))
  BY <1>2, <1>3, <1>5, FirstPiece
<1>7. PICK now : now = Least(left, m)
  OBVIOUS
<1>8. now \in Nat \ {0} /\ now <= left /\ now <= m
  BY <1>1, <1>2, <1>3, <1>7 DEF Least
<1>9. SectorSize * now = Least(R, PageSize)
  BY <1>1, <1>2, <1>3, <1>4, <1>7, RestWhole
<1>10. PICK more : more = (p.len < now * SectorSize /\ p.next.elem <= Len(l))
  OBVIOUS
<1>11. PICK q : q = IF more THEN GetPhysAddr(l, p.next, p.len) ELSE p
  OBVIOUS
<1>12. PICK src : src = Addresses(p) \o (IF more THEN Addresses(q) ELSE <<>>)
  OBVIOUS
<1>13. PICK z : z = Bounce(l, p, left)
  OBVIOUS
<1>14. PICK seg : seg = [NoSegment EXCEPT !.src = src, !.last = now - 1, !.bounced = TRUE]
  OBVIOUS
<1>15. PICK ok : ok = ((p.len < now * SectorSize) = more /\ Whole(Len(src)) /\ Len(src) <= PageSize /\ Len(src) \div SectorSize = now)
  OBVIOUS
<1>16. z = [seg |-> seg, now |-> now, next |-> q.next, ok |-> ok]
  BY <1>2, <1>7, <1>10, <1>11, <1>12, <1>13, <1>14, <1>15 DEF Bounce
<1>17. z.seg = seg /\ z.now = now /\ z.next = q.next /\ z.ok = ok
  BY <1>16
<1>18. u \in Seq(Nat) /\ Len(u) \in Nat /\ Len(l) \in Nat /\ DOMAIN l = 1 .. Len(l)
  <2>1. Laid(l, u)
    BY <1>2, <1>3, UnitsAre
  <2> QED
    BY <2>1 DEF Laid
<1>19. now * SectorSize = SectorSize * now /\ SectorSize * now \in Nat
  BY <1>1, <1>8
<1>20. ASSUME src = Slice(u, x, SectorSize * now), At(l, q.next, x + SectorSize * now), (p.len < now * SectorSize) = more
       PROVE  CutFits(l, x, left, z)
  <2>1. Whole(Len(src)) /\ Len(src) <= PageSize /\ Len(src) \div SectorSize = now => z.ok
    BY <1>15, <1>17, <1>20
  <2> QED
    BY <1>2, <1>8, <1>14, <1>17, <1>20, <2>1, BouncedIs
<1>21. CASE R <= PageSize - ph
  <2>1. Least(PageSize - ph, R) = R /\ Least(R, PageSize) = R
    BY <1>1, <1>6, <1>21 DEF Least
  <2>2. GivesRest(l, p, x, R)
    BY <1>6, <2>1
  <2>3. p.len = R /\ At(l, p.next, x + R)
    BY <2>2 DEF GivesRest
  <2>4. (p.len < now * SectorSize) = more /\ more = FALSE /\ q = p /\ SectorSize * now = R
    <3>1. SectorSize * now = R /\ ~ (p.len < now * SectorSize)
      BY <1>9, <1>19, <2>1, <2>3
    <3>2. more \in BOOLEAN
      BY <1>10
    <3>3. more = FALSE
      BY <1>10, <3>1, <3>2
    <3>4. (p.len < now * SectorSize) = more
      BY <1>10, <3>1
    <3> QED
      BY <1>11, <3>1, <3>3, <3>4
  <2>5. Addresses(p) = Slice(u, x, R) /\ Addresses(p) \in Seq(Nat)
    BY <1>2, <1>3, <2>2, AddressesAre
  <2>6. src = Slice(u, x, R)
    BY <1>12, <2>4, <2>5, ConcatEmptySeq
  <2> QED
    BY <1>13, <1>20, <2>3, <2>4, <2>6
<1>22. CASE R > PageSize - ph
  <2>1. PICK n \in Nat \ {0} : n = PageSize - ph
    BY <1>1, <1>6
  <2>2. n < R /\ n < PageSize
    BY <1>1, <1>6, <1>22, <2>1
  <2>3. GivesRest(l, p, x, n)
    BY <1>6, <2>1, <2>2 DEF Least
  <2>4. p.len = n /\ At(l, p.next, x + n)
    BY <2>3 DEF GivesRest
  <2>5. p.len < now * SectorSize
    BY <1>1, <1>9, <1>19, <2>2, <2>4 DEF Least
  <2>6. PICK r : r = GetPhysAddr(l, p.next, p.len)
    OBVIOUS
  <2>7. p.next.elem \in DOMAIN l /\ GivesRest(l, r, x + n, Least(ph, R - n))
    <3>1. 0 < ph /\ PageSize - ph < Len(u) - x
      BY <1>5, <1>6, <1>22
    <3>2. /\ p.next.elem \in DOMAIN l
          /\ GivesRest(l, r, x + p.len, Least(ph, (Len(u) - x) - p.len))
      BY <1>2, <1>3, <1>5, <2>6, <3>1, SecondPiece
    <3> QED
      BY <1>5, <2>4, <3>2
  <2>8. (p.len < now * SectorSize) = more /\ more = TRUE /\ q = r
    <3>1. p.next.elem <= Len(l)
      BY <1>18, <2>7
    <3>2. more = TRUE
      BY <1>10, <2>5, <3>1
    <3>3. (p.len < now * SectorSize) = more
      BY <1>10, <2>5, <3>1
    <3> QED
      BY <1>11, <2>6, <3>2, <3>3
  <2>9. PICK k : k = Least(ph, R - n)
    OBVIOUS
  <2>10. k \in Nat \ {0} /\ n + k = SectorSize * now
    BY <1>1, <1>6, <1>9, <2>1, <2>2, <2>9 DEF Least
  <2>11. GivesRest(l, q, x + n, k) /\ x + n \in Nat
    BY <1>3, <2>7, <2>8, <2>9
  <2>12. Addresses(q) = Slice(u, x + n, k)
    BY <1>2, <1>3, <2>11, AddressesAre
  <2>13. Addresses(p) = Slice(u, x, n)
    BY <1>2, <1>3, <2>3, AddressesAre
  <2>14. src = Slice(u, x, SectorSize * now)
    <3>1. x + n + k <= Len(u)
      <4>1. x + n + k = (x + n) + k /\ (x + n) + k <= Len(u)
        BY <1>2, <1>3, <2>10, <2>11 DEF GivesRest
      <4> QED
        BY <4>1
    <3>2. Slice(u, x, n) \o Slice(u, x + n, k) = Slice(u, x, n + k)
      <4>1. x \in Nat /\ n \in Nat /\ k \in Nat /\ u \in Seq(Nat)
        BY <1>3, <1>18, <2>10
      <4> QED
        BY <3>1, <4>1, SlicesAdd
    <3> QED
      BY <1>12, <2>8, <2>10, <2>12, <2>13, <3>2
  <2>15. At(l, q.next, x + SectorSize * now)
    <3>1. At(l, q.next, (x + n) + k)
      BY <2>11 DEF GivesRest
    <3>2. (x + n) + k = x + SectorSize * now
      <4>1. (x + n) + k = x + (n + k)
        BY <1>3, <2>10
      <4> QED
        BY <2>10, <4>1
    <3> QED
      BY <3>1, <3>2
  <2> QED
    BY <1>13, <1>20, <2>5, <2>8, <2>14, <2>15
<1> QED
  BY <1>1, <1>4, <1>6, <1>21, <1>22

\* What Cut gives fits.
LEMMA CutGives ==
  ASSUME NEW l, NEW x, NEW left, CutOf(l, x, left), NEW at, At(l, at, x)
  PROVE  CutFits(l, x, left, Cut(l, at, left))
<1>1. /\ SectorSize \in Nat \ {0} /\ PageSize \in Nat \ {0} /\ SectorsPerPage \in Nat \ {0}
      /\ PageSize = SectorSize * SectorsPerPage
  BY Constants
<1>2. PICK u : u = Units(l)
  OBVIOUS
<1>3. /\ IsSgl(l) /\ Contiguous(l) /\ left \in Nat \ {0} /\ x \in Nat
      /\ Len(u) = x + SectorSize * left
  BY <1>2 DEF CutOf
<1>4. PICK R \in Nat \ {0} : R = SectorSize * left
  BY <1>1, <1>3
<1>5. x < Len(u) /\ Len(u) - x = R
  BY <1>3, <1>4
<1>6. PICK p, ph : p = GetPhysAddr(l, at, 0) /\ ph = p.addr % PageSize
  OBVIOUS
<1>7. ph \in 0 .. PageSize - 1 /\ GivesRest(l, p, x, Least(PageSize - ph, R))
  BY <1>2, <1>3, <1>5, <1>6, FirstPiece
<1>8. p.addr \in Nat
  BY <1>7 DEF GivesRest
<1>9. p.addr % SectorSize = ph % SectorSize
  <2>1. PICK i, v : Divided(p.addr, PageSize, i, v)
    BY <1>1, <1>8, DivMod
  <2>2. v = ph /\ i \in Nat /\ p.addr = PageSize * i + ph
    BY <1>6, <2>1, DivModIs DEF Divided
  <2>3. ph \in Nat
    BY <1>1, <1>7
  <2>4. PICK b, t : Divided(ph, SectorSize, b, t)
    BY <1>1, <2>3, DivMod
  <2>5. PICK j : j = SectorsPerPage * i + b
    OBVIOUS
  <2>6. Divided(p.addr, SectorSize, j, t)
    <3>1. b \in Nat /\ t \in 0 .. SectorSize - 1 /\ ph = SectorSize * b + t
      BY <2>4 DEF Divided
    <3>2. j \in Nat
      BY <1>1, <2>2, <2>5, <3>1
    <3>3. p.addr = SectorSize * j + t
      <4>1. PageSize * i = SectorSize * (SectorsPerPage * i)
        BY <1>1, <2>2
      <4>2. PICK w \in Nat : w = SectorsPerPage * i
        BY <1>1, <2>2
      <4>3. SectorSize * j = SectorSize * w + SectorSize * b
        BY <1>1, <2>5, <3>1, <4>2
      <4> QED
        BY <1>1, <2>2, <3>1, <4>1, <4>2, <4>3
    <3> QED
      BY <1>1, <3>1, <3>2, <3>3 DEF Divided
  <2> QED
    BY <2>4, <2>6, DivModIs
<1>10. CASE ph % SectorSize = 0
  <2>1. CutFits(l, x, left, Direct(p, left)) /\ Whole(p.len)
    BY <1>4, <1>6, <1>7, <1>10, DirectIs
  <2>2. Cut(l, at, left) = Direct(p, left)
    BY <1>6, <1>9, <1>10, <2>1 DEF Cut, Whole
  <2> QED
    BY <2>1, <2>2
<1>11. CASE ph % SectorSize # 0
  <2>1. ph # 0
    <3>1. PICK o : o = 0
      OBVIOUS
    <3>2. Divided(o, SectorSize, o, o)
      BY <1>1, <3>1 DEF Divided
    <3>3. 0 % SectorSize = 0
      BY <3>1, <3>2, DivModIs
    <3> QED
      BY <1>11, <3>3
  <2>2. CutFits(l, x, left, Bounce(l, p, left))
    BY <1>6, <2>1, BounceIs
  <2>3. Cut(l, at, left) = Bounce(l, p, left)
    BY <1>6, <1>9, <1>11 DEF Cut, Whole
  <2> QED
    BY <2>2, <2>3
<1> QED
  BY <1>10, <1>11

(* What the requests of an SRB are about, whatever holds it. *)
Core(g) == [src |-> g.src, page |-> g.page, first |-> g.first, last |-> g.last, bounced |-> g.bounced]
ShapeOf(segs) == [k \in DOMAIN segs |-> Core(segs[k])]
Shape(l) == [r \in DOMAIN l |-> [first |-> l[r].first, segs |-> ShapeOf(l[r].segs)]]

\* The units of the segments of one request, and of each.
Srcs(segs) == [k \in DOMAIN segs |-> segs[k].src]
Src(segs) == FlattenSeq(Srcs(segs))
Sources(h) == [r \in DOMAIN h |-> Src(h[r].segs)]

\* Segments as they should be, and requests, none of them too long, that say where they start.
AreProper(segs) == IsList(segs) /\ \A k \in DOMAIN segs : Proper(segs[k])
Cuts(h) ==
  /\ IsList(h)
  /\ \A r \in DOMAIN h : /\ AreProper(h[r].segs) /\ Len(h[r].segs) <= MaxSegments
                         /\ h[r].first * SectorSize = Len(FlatTo(Sources(h), r - 1))

\* The requests have all there is to transfer.
Complete(h, l) ==
  /\ \A r \in DOMAIN h : Len(h[r].segs) > 0
  /\ FlattenSeq(Sources(h)) = Units(l)

\* PrepareReadWrite is this far, in the list and with the requests.
Reached(x, h, l) ==
  LET n == SectorSize * x.done
      open == x.pc \in {"clear", "cut"}
  IN  /\ x.done \in Nat /\ n <= Len(Units(l)) /\ At(l, x.at, n)
      /\ FlattenSeq(Sources(h)) = Slice(Units(l), 0, n)
      /\ \A r \in DOMAIN h : r < Len(h) \/ ~ open => Len(h[r].segs) > 0
      /\ open => Len(h) > 0 /\ Len(h[Len(h)].segs) < MaxSegments
      /\ open \/ x.pc = "alloc" => n < Len(Units(l))

Filed == {"prepared"} \cup Done
TileInv ==
  /\ bug = "none"
  /\ \A s \in Srbs : /\ list[s] \in Lists[s] /\ Cuts(Shape(requests[s]))
                     /\ status[s] \in Filed => Complete(Shape(requests[s]), list[s])
  /\ \A c \in Cpus : cpu[c].pc \in PreparePcs => Reached(cpu[c], Shape(requests[Mine(c)]), list[Mine(c)])

\* A function on the first numbers is a list.
LEMMA ListOf ==
  ASSUME NEW n \in Nat, NEW l, l = [k \in 1 .. n |-> l[k]]
  PROVE  IsList(l) /\ Len(l) = n
<1>1. PICK S : S = {l[k] : k \in 1 .. n}
  OBVIOUS
<1>2. l \in [1 .. n -> S]
  BY <1>1
<1>3. l \in Seq(S) /\ Len(l) = n
  BY <1>2
<1> QED
  BY <1>3, SeqIsList

\* The units of proper segments.
LEMMA SrcIs ==
  ASSUME NEW segs, AreProper(segs)
  PROVE  Srcs(segs) \in Seq(Seq(Nat)) /\ Len(Srcs(segs)) = Len(segs) /\ Src(segs) \in Seq(Nat)
<1>1. PICK n \in Nat : n = Len(segs)
  BY ListIs DEF AreProper
<1>2. DOMAIN segs = 1 .. n /\ \A k \in 1 .. n : segs[k].src \in Seq(Nat)
  BY <1>1, ListIs DEF AreProper, Proper
<1>3. Srcs(segs) \in [1 .. n -> Seq(Nat)]
  BY <1>2 DEF Srcs
<1>4. Srcs(segs) \in Seq(Seq(Nat)) /\ Len(Srcs(segs)) = n
  BY <1>2, <1>3 DEF Srcs
<1>5. <<>> \in Seq(Nat)
  OBVIOUS
<1> QED
  BY <1>1, <1>4, <1>5, FlattenAppend DEF Src

\* With one more segment they go on with its own.
LEMMA SrcAppend ==
  ASSUME NEW segs, AreProper(segs), NEW g, Proper(g), NEW new, Appended(new, segs, g)
  PROVE  AreProper(new) /\ Src(new) = Src(segs) \o g.src /\ g.src \in Seq(Nat)
<1>1. PICK n \in Nat : n = Len(segs)
  BY ListIs DEF AreProper
<1>2. /\ DOMAIN segs = 1 .. n /\ DOMAIN new = 1 .. n + 1 /\ new[n + 1] = g
      /\ (\A i \in 1 .. n : new[i] = segs[i]) /\ IsList(new)
  BY <1>1, ListIs DEF AreProper, Appended
<1>3. AreProper(new)
  BY <1>2 DEF AreProper
<1>4. PICK ss, tt, u : ss = Srcs(segs) /\ tt = Srcs(new) /\ u = g.src
  OBVIOUS
<1>5. ss \in Seq(Seq(Nat)) /\ Len(ss) = n /\ tt \in Seq(Seq(Nat)) /\ Len(tt) = n + 1 /\ u \in Seq(Nat)
  <2>1. Len(new) = n + 1
    BY <1>1 DEF Appended
  <2> QED
    BY <1>1, <1>3, <1>4, <2>1, SrcIs DEF Proper
<1>6. tt = Append(ss, u)
  <2>1. (\A i \in 1 .. n : tt[i] = ss[i]) /\ tt[n + 1] = u
    BY <1>2, <1>4 DEF Srcs
  <2>2. PICK aa : aa = Append(ss, u)
    OBVIOUS
  <2>3. aa \in Seq(Seq(Nat)) /\ Len(aa) = n + 1 /\ (\A i \in 1 .. n : aa[i] = ss[i]) /\ aa[n + 1] = u
    BY <1>5, <2>2, AppendProperties
  <2>4. ASSUME NEW i \in 1 .. n + 1
        PROVE  aa[i] = tt[i]
    <3>1. i \in 1 .. n \/ i = n + 1
      BY <1>1
    <3>2. CASE i \in 1 .. n
      BY <2>1, <2>3, <3>2
    <3>3. CASE i = n + 1
      BY <2>1, <2>3, <3>3
    <3> QED
      BY <3>1, <3>2, <3>3
  <2> QED
    BY <1>5, <2>2, <2>3, <2>4, SeqEqual
<1> QED
  BY <1>3, <1>4, <1>5, <1>6, FlattenAppend DEF Src

\* The units of the requests.
LEMMA SourcesAre ==
  ASSUME NEW h, IsList(h), \A r \in DOMAIN h : AreProper(h[r].segs)
  PROVE  Sources(h) \in Seq(Seq(Nat)) /\ Len(Sources(h)) = Len(h) /\ \A r \in DOMAIN h : Sources(h)[r] = Src(h[r].segs)
<1>1. PICK n \in Nat : n = Len(h)
  BY ListIs
<1>2. DOMAIN h = 1 .. n /\ \A r \in 1 .. n : Src(h[r].segs) \in Seq(Nat)
  BY <1>1, ListIs, SrcIs
<1>3. Sources(h) \in [1 .. n -> Seq(Nat)]
  BY <1>2 DEF Sources
<1> QED
  BY <1>1, <1>2, <1>3 DEF Sources

\* What the first of these give depends on no other.
LEMMA FlatToSame ==
  ASSUME NEW ss, NEW tt, NEW n \in Nat, \A i \in 1 .. n : tt[i] = ss[i], NEW k \in 0 .. n
  PROVE  FlatTo(tt, k) = FlatTo(ss, k)
<1>1. \A i \in 1 .. k : tt[i] = ss[i]
  OBVIOUS
<1>2. FirstOf(tt, k) = FirstOf(ss, k)
  BY <1>1 DEF FirstOf
<1> QED
  BY <1>2 DEF FlatTo

\* No segments are proper, and have no units.
LEMMA NoSegments ==
  AreProper(<<>>) /\ Src(<<>>) = <<>> /\ Len(<<>>) = 0
<1>1. PICK e : e = <<>>
  OBVIOUS
<1>2. IsList(e) /\ DOMAIN e = {} /\ Len(e) = 0
  BY <1>1 DEF IsList
<1>3. AreProper(e)
  BY <1>2 DEF AreProper
<1>4. Srcs(e) = <<>>
  BY <1>2 DEF Srcs
<1>5. PICK ss : ss = Srcs(e)
  OBVIOUS
<1>6. ss \in Seq(Seq(Nat)) /\ Len(ss) = 0
  BY <1>4, <1>5
<1>7. FlatTo(ss, 0) = <<>> /\ FlatTo(ss, Len(ss)) = FlattenSeq(ss)
  BY <1>6, FlattenStep
<1>8. FlattenSeq(ss) = <<>>
  BY <1>6, <1>7
<1> QED
  BY <1>1, <1>2, <1>3, <1>5, <1>8 DEF Src

\* A request without a segment, that starts where the others end.
LEMMA CutsAppend ==
  ASSUME NEW h, Cuts(h), NEW q, q.segs = <<>>, q.first * SectorSize = Len(FlattenSeq(Sources(h))), NEW new, Appended(new, h, q)
  PROVE  Cuts(new) /\ FlattenSeq(Sources(new)) = FlattenSeq(Sources(h))
<1>1. IsList(h) /\ \A r \in DOMAIN h : AreProper(h[r].segs) /\ Len(h[r].segs) <= MaxSegments /\ h[r].first * SectorSize = Len(FlatTo(Sources(h), r - 1))
  BY DEF Cuts
<1>2. PICK n \in Nat : n = Len(h)
  BY <1>1, ListIs
<1>3. /\ DOMAIN h = 1 .. n /\ DOMAIN new = 1 .. n + 1 /\ new[n + 1] = q
      /\ (\A i \in 1 .. n : new[i] = h[i]) /\ IsList(new) /\ Len(new) = n + 1
  BY <1>1, <1>2, ListIs DEF Appended
<1>4. AreProper(q.segs) /\ Src(q.segs) = <<>> /\ Len(q.segs) = 0
  BY NoSegments
<1>5. \A r \in DOMAIN new : r \in 1 .. n \/ r = n + 1
  BY <1>2, <1>3
<1>6. \A r \in DOMAIN new : AreProper(new[r].segs)
  BY <1>1, <1>3, <1>4, <1>5
<1>7. PICK ss, tt : ss = Sources(h) /\ tt = Sources(new)
  OBVIOUS
<1>8. ss \in Seq(Seq(Nat)) /\ Len(ss) = n /\ \A r \in 1 .. n : ss[r] = Src(h[r].segs)
  BY <1>1, <1>2, <1>3, <1>7, SourcesAre
<1>9. tt \in Seq(Seq(Nat)) /\ Len(tt) = n + 1 /\ \A r \in 1 .. n + 1 : tt[r] = Src(new[r].segs)
  BY <1>3, <1>6, <1>7, SourcesAre
<1>10. (\A r \in 1 .. n : tt[r] = ss[r]) /\ tt[n + 1] = <<>>
  <2>1. n + 1 \in 1 .. n + 1 /\ 1 .. n \subseteq 1 .. n + 1
    BY <1>2
  <2>2. tt[n + 1] = <<>>
    BY <1>3, <1>4, <1>9, <2>1
  <2> QED
    BY <1>3, <1>8, <1>9, <2>1, <2>2
<1>11. \A k \in 0 .. n : FlatTo(tt, k) = FlatTo(ss, k)
  BY <1>2, <1>10, FlatToSame
<1>12. FlatTo(ss, n) = FlattenSeq(ss) /\ FlatTo(ss, n) \in Seq(Nat)
  <2>1. n \in 0 .. Len(ss)
    BY <1>2, <1>8
  <2> QED
    BY <1>8, <2>1, FlattenStep
<1>13. FlattenSeq(tt) = FlattenSeq(ss)
  <2>1. FlatTo(tt, n + 1) = FlattenSeq(tt) /\ FlatTo(tt, n + 1) = FlatTo(tt, (n + 1) - 1) \o tt[n + 1]
    <3>1. n + 1 \in 1 .. Len(tt)
      BY <1>2, <1>9
    <3> QED
      BY <1>9, <3>1, FlattenStep
  <2>2. (n + 1) - 1 = n /\ n \in 0 .. n
    BY <1>2
  <2>3. FlatTo(tt, n) = FlattenSeq(ss)
    BY <1>11, <1>12, <2>2
  <2>4. FlattenSeq(tt) = FlattenSeq(ss) \o <<>>
    BY <1>10, <2>1, <2>2, <2>3
  <2>5. PICK f : f = FlattenSeq(ss)
    OBVIOUS
  <2>6. f \in Seq(Nat)
    BY <1>12, <2>5
  <2>7. f \o <<>> = f
    BY <2>6, ConcatEmptySeq
  <2> QED
    BY <2>4, <2>5, <2>7
<1>14. ASSUME NEW r \in DOMAIN new
       PROVE  AreProper(new[r].segs) /\ Len(new[r].segs) <= MaxSegments /\ new[r].first * SectorSize = Len(FlatTo(tt, r - 1))
  <2>1. CASE r \in 1 .. n
    <3>1. r - 1 \in 0 .. n
      BY <1>2, <2>1
    <3>2. FlatTo(tt, r - 1) = FlatTo(ss, r - 1)
      BY <1>11, <3>1
    <3> QED
      BY <1>1, <1>3, <1>7, <2>1, <3>2
  <2>2. CASE r = n + 1
    <3>1. r - 1 = n /\ n \in 0 .. n
      BY <1>2, <2>2
    <3>2. FlatTo(tt, r - 1) = FlattenSeq(ss)
      BY <1>11, <1>12, <3>1
    <3>3. 0 <= MaxSegments
      BY PrepareAssumption
    <3> QED
      BY <1>3, <1>4, <1>7, <2>2, <3>2, <3>3
  <2> QED
    BY <1>5, <2>1, <2>2
<1> QED
  BY <1>3, <1>7, <1>13, <1>14 DEF Cuts

Regroups(f, a, b) == (f \o a) \o b = f \o (a \o b)

\* Concatenation may be regrouped.
LEMMA Regroup ==
  ASSUME NEW f, NEW a, NEW b, f \in Seq(Nat), a \in Seq(Nat), b \in Seq(Nat)
  PROVE  Regroups(f, a, b)
BY DEF Regroups

\* Another segment for the last request.
LEMMA CutsGrow ==
  ASSUME NEW h, Cuts(h), NEW n, n = Len(h), n > 0, NEW g, Proper(g), NEW segs, Appended(segs, h[n].segs, g),
         Len(h[n].segs) < MaxSegments, NEW q, q.first = h[n].first, q.segs = segs, NEW new, Replaced(new, h, n, q)
  PROVE  Cuts(new) /\ FlattenSeq(Sources(new)) = FlattenSeq(Sources(h)) \o g.src
<1>1. IsList(h) /\ \A r \in DOMAIN h : AreProper(h[r].segs) /\ Len(h[r].segs) <= MaxSegments /\ h[r].first * SectorSize = Len(FlatTo(Sources(h), r - 1))
  BY DEF Cuts
<1>2. n \in Nat /\ n \in 1 .. n /\ DOMAIN h = 1 .. n
  BY <1>1, ListIs
<1>3. DOMAIN new = 1 .. n /\ new[n] = q /\ (\A i \in 1 .. n : i # n => new[i] = h[i]) /\ IsList(new) /\ Len(new) = n
  BY DEF Replaced
<1>4. AreProper(segs) /\ Src(segs) = Src(h[n].segs) \o g.src /\ g.src \in Seq(Nat)
  BY <1>1, <1>2, SrcAppend
<1>5. Len(segs) <= MaxSegments
  <2>1. PICK k \in Nat : k = Len(h[n].segs)
    BY <1>1, <1>2, ListIs DEF AreProper
  <2>2. Len(segs) = k + 1 /\ MaxSegments \in Nat
    BY <2>1, PrepareAssumption DEF Appended
  <2> QED
    BY <2>1, <2>2
<1>6. \A r \in DOMAIN new : AreProper(new[r].segs)
  BY <1>1, <1>2, <1>3, <1>4
<1>7. PICK ss, tt, a, b : ss = Sources(h) /\ tt = Sources(new) /\ a = Src(h[n].segs) /\ b = g.src
  OBVIOUS
<1>8. ss \in Seq(Seq(Nat)) /\ Len(ss) = n /\ \A r \in 1 .. n : ss[r] = Src(h[r].segs)
  BY <1>1, <1>2, <1>7, SourcesAre
<1>9. tt \in Seq(Seq(Nat)) /\ Len(tt) = n /\ \A r \in 1 .. n : tt[r] = Src(new[r].segs)
  BY <1>3, <1>6, <1>7, SourcesAre
<1>10. (\A r \in 1 .. n - 1 : tt[r] = ss[r]) /\ tt[n] = a \o b /\ ss[n] = a /\ a \in Seq(Nat) /\ b \in Seq(Nat)
  <2>1. \A r \in 1 .. n - 1 : r \in 1 .. n /\ r # n
    BY <1>2
  <2>2. tt[n] = a \o b /\ ss[n] = a /\ b \in Seq(Nat)
    BY <1>2, <1>3, <1>4, <1>7, <1>8, <1>9
  <2>3. a \in Seq(Nat)
    BY <1>1, <1>2, <1>7, SrcIs
  <2> QED
    BY <1>3, <1>8, <1>9, <2>1, <2>2, <2>3
<1>11. PICK m \in Nat : m = n - 1
  BY <1>2
<1>12. \A k \in 0 .. m : FlatTo(tt, k) = FlatTo(ss, k)
  BY <1>10, <1>11, FlatToSame
<1>13. PICK f : f = FlatTo(ss, m)
  OBVIOUS
<1>14. f \in Seq(Nat) /\ FlattenSeq(ss) = f \o a
  <2>1. n \in 1 .. Len(ss) /\ m \in 0 .. Len(ss)
    BY <1>2, <1>8, <1>11
  <2>2. FlatTo(ss, n) = FlatTo(ss, n - 1) \o ss[n] /\ FlatTo(ss, Len(ss)) = FlattenSeq(ss) /\ FlatTo(ss, m) \in Seq(Nat)
    BY <1>8, <2>1, FlattenStep
  <2> QED
    BY <1>8, <1>10, <1>11, <1>13, <2>2
<1>15. FlattenSeq(tt) = f \o (a \o b)
  <2>1. n \in 1 .. Len(tt) /\ m \in 0 .. m
    BY <1>2, <1>9, <1>11
  <2>2. FlatTo(tt, n) = FlatTo(tt, n - 1) \o tt[n] /\ FlatTo(tt, Len(tt)) = FlattenSeq(tt)
    BY <1>9, <2>1, FlattenStep
  <2>3. FlatTo(tt, m) = f
    BY <1>12, <1>13, <2>1
  <2> QED
    BY <1>9, <1>10, <1>11, <2>2, <2>3
<1>16. FlattenSeq(tt) = FlattenSeq(ss) \o b
  <2>1. f \in Seq(Nat) /\ a \in Seq(Nat) /\ b \in Seq(Nat)
    BY <1>10, <1>14
  <2>2. Regroups(f, a, b)
    BY <2>1, Regroup
  <2> QED
    BY <1>14, <1>15, <2>2 DEF Regroups
<1>17. ASSUME NEW r \in DOMAIN new
       PROVE  AreProper(new[r].segs) /\ Len(new[r].segs) <= MaxSegments /\ new[r].first * SectorSize = Len(FlatTo(tt, r - 1))
  <2>1. r \in 1 .. n /\ r - 1 \in 0 .. m /\ r \in DOMAIN h
    BY <1>2, <1>3, <1>11
  <2>2. FlatTo(tt, r - 1) = FlatTo(ss, r - 1)
    BY <1>12, <2>1
  <2>3. h[r].first * SectorSize = Len(FlatTo(ss, r - 1)) /\ Len(h[r].segs) <= MaxSegments /\ AreProper(h[r].segs)
    BY <1>1, <1>7, <2>1
  <2>4. CASE r = n
    BY <1>3, <1>4, <1>5, <2>2, <2>3, <2>4
  <2>5. CASE r # n
    BY <1>3, <2>1, <2>2, <2>3, <2>5
  <2> QED
    BY <2>4, <2>5
<1> QED
  BY <1>3, <1>7, <1>16, <1>17 DEF Cuts

-----------------------------------------------------------------------------
(* What the steps do to that. *)

\* A segment without what holds it.
LEMMA CoreIs ==
  ASSUME NEW g
  PROVE  Core(g).src = g.src /\ (Proper(Core(g)) <=> Proper(g))
BY DEF Core, Proper, SegmentUnits, Extent, InPage

\* The segments of a request.
LEMMA ShapeOfIs ==
  ASSUME NEW segs, IsList(segs)
  PROVE  /\ IsList(ShapeOf(segs)) /\ Len(ShapeOf(segs)) = Len(segs) /\ DOMAIN ShapeOf(segs) = DOMAIN segs
         /\ \A k \in DOMAIN segs : ShapeOf(segs)[k] = Core(segs[k])
<1>1. PICK n \in Nat : n = Len(segs) /\ DOMAIN segs = 1 .. n
  BY ListIs
<1>2. PICK l : l = ShapeOf(segs)
  OBVIOUS
<1>3. DOMAIN l = 1 .. n /\ \A k \in 1 .. n : l[k] = Core(segs[k])
  BY <1>1, <1>2 DEF ShapeOf
<1>4. l = [k \in 1 .. n |-> l[k]]
  BY <1>1, <1>2 DEF ShapeOf
<1>5. IsList(l) /\ Len(l) = n
  BY <1>4, ListOf
<1> QED
  BY <1>1, <1>2, <1>3, <1>5

\* The requests of an SRB.
LEMMA ShapeIs ==
  ASSUME NEW l, AreOf(l)
  PROVE  /\ IsList(Shape(l)) /\ Len(Shape(l)) = Len(l) /\ DOMAIN Shape(l) = DOMAIN l
         /\ \A r \in DOMAIN l : /\ Shape(l)[r].first = l[r].first /\ Shape(l)[r].segs = ShapeOf(l[r].segs)
                                /\ Len(ShapeOf(l[r].segs)) = Len(l[r].segs)
<1>1. PICK n \in Nat : n = Len(l) /\ DOMAIN l = 1 .. n
  BY ListIs DEF AreOf
<1>2. PICK h : h = Shape(l)
  OBVIOUS
<1>3. DOMAIN h = 1 .. n /\ \A r \in 1 .. n : h[r] = [first |-> l[r].first, segs |-> ShapeOf(l[r].segs)]
  BY <1>1, <1>2 DEF Shape
<1>4. h = [r \in 1 .. n |-> h[r]]
  BY <1>1, <1>2 DEF Shape
<1>5. IsList(h) /\ Len(h) = n
  BY <1>4, ListOf
<1>6. \A r \in 1 .. n : Len(ShapeOf(l[r].segs)) = Len(l[r].segs)
  BY <1>1, ShapeOfIs DEF AreOf, IsRequest, AreSegments
<1> QED
  BY <1>1, <1>2, <1>3, <1>5, <1>6

\* A segment that is held otherwise.
LEMMA ReplacedShape ==
  ASSUME NEW old, AreSegments(old), NEW k \in DOMAIN old, NEW seg, Core(seg) = Core(old[k]), NEW segs, Replaced(segs, old, k, seg)
  PROVE  ShapeOf(segs) = ShapeOf(old)
<1>1. DOMAIN segs = DOMAIN old /\ segs[k] = seg /\ \A i \in DOMAIN old : i # k => segs[i] = old[i]
  BY ListIs DEF AreSegments, Replaced
<1>2. \A i \in DOMAIN old : Core(segs[i]) = Core(old[i])
  BY <1>1
<1> QED
  BY <1>1, <1>2 DEF ShapeOf

\* A request that is.
LEMMA MadeShape ==
  ASSUME NEW l, NEW r \in DOMAIN l, NEW segs, ShapeOf(segs) = ShapeOf(l[r].segs), NEW m, Made(m, l, r, segs)
  PROVE  Shape(m) = Shape(l)
<1>1. DOMAIN m = DOMAIN l /\ m[r].first = l[r].first /\ m[r].segs = segs /\ \A i \in DOMAIN l : i # r => m[i] = l[i]
  BY DEF Made
<1>2. \A i \in DOMAIN l : m[i].first = l[i].first /\ ShapeOf(m[i].segs) = ShapeOf(l[i].segs)
  BY <1>1
<1> QED
  BY <1>1, <1>2 DEF Shape

\* A request with another answer.
LEMMA AnsweredShape ==
  ASSUME NEW l, NEW r \in DOMAIN l, NEW a, NEW m, Answered(m, l, r, a)
  PROVE  Shape(m) = Shape(l)
<1>1. DOMAIN m = DOMAIN l /\ m[r].first = l[r].first /\ m[r].segs = l[r].segs /\ \A i \in DOMAIN l : i # r => m[i] = l[i]
  BY DEF Answered
<1>2. \A i \in DOMAIN l : m[i].first = l[i].first /\ ShapeOf(m[i].segs) = ShapeOf(l[i].segs)
  BY <1>1
<1> QED
  BY <1>1, <1>2 DEF Shape

SameShapes == \A z \in Srbs : Shape(requests'[z]) = Shape(requests[z])
\* Those of one SRB, then.
LEMMA ChangedShapes ==
  ASSUME NEW s \in Srbs, NEW m, Changed(requests', requests, s, m), Shape(m) = Shape(requests[s])
  PROVE  SameShapes
BY DEF SameShapes, Changed

\* The parts of TileInv.
LEMMA TileParts ==
  ASSUME TileInv
  PROVE  /\ bug = "none"
         /\ \A s \in Srbs : /\ list[s] \in Lists[s] /\ Cuts(Shape(requests[s]))
                            /\ status[s] \in Filed => Complete(Shape(requests[s]), list[s])
         /\ \A c \in Cpus : cpu[c].pc \in PreparePcs => Reached(cpu[c], Shape(requests[Mine(c)]), list[Mine(c)])
BY DEF TileInv

\* A step that cuts nothing: an SRB is prepared when all of it is.
LEMMA SameTiles ==
  ASSUME PInv, TileInv, list' = list, bug' = bug, SameShapes,
         \A z \in Srbs : status'[z] \in Filed => status[z] \in Filed \/ Complete(Shape(requests[z]), list[z]),
         \A d \in Cpus : cpu'[d].pc \in PreparePcs =>
           \/ cpu'[d] = cpu[d]
           \/ cpu'[d].s \in Srbs /\ Reached(cpu'[d], Shape(requests[cpu'[d].s]), list[cpu'[d].s])
  PROVE  TileInv'
<1>1. bug' = "none"
  BY TileParts
<1>2. ASSUME NEW s \in Srbs
      PROVE  /\ list'[s] \in Lists[s] /\ Cuts(Shape(requests'[s]))
             /\ status'[s] \in Filed => Complete(Shape(requests'[s]), list'[s])
  <2>1. Shape(requests'[s]) = Shape(requests[s])
    BY DEF SameShapes
  <2> QED
    BY <2>1, TileParts
<1>3. ASSUME NEW d \in Cpus, cpu'[d].pc \in PreparePcs
      PROVE  Reached(cpu'[d], Shape(requests'[cpu'[d].s]), list'[cpu'[d].s])
  <2>1. cpu'[d].s \in Srbs /\ Reached(cpu'[d], Shape(requests[cpu'[d].s]), list[cpu'[d].s])
    <3>1. CASE cpu'[d] = cpu[d]
      <4>1. cpu[d].pc \in PreparePcs /\ cpu[d].pc # "idle"
        BY <1>3, <3>1 DEF PreparePcs
      <4>2. Mine(d) \in Srbs
        BY <4>1, AtWork
      <4> QED
        BY <3>1, <4>1, <4>2, TileParts DEF Mine
    <3> QED
      BY <1>3, <3>1
  <2>2. Shape(requests'[cpu'[d].s]) = Shape(requests[cpu'[d].s])
    BY <2>1 DEF SameShapes
  <2> QED
    BY <2>1, <2>2
<1> QED
  BY <1>1, <1>2, <1>3 DEF TileInv, Mine

\* A processor goes on without it.
LEMMA MoveTiles ==
  ASSUME PInv, TileInv, list' = list, bug' = bug, SameShapes,
         \A z \in Srbs : status'[z] \in Filed => status[z] \in Filed \/ Complete(Shape(requests[z]), list[z]),
         NEW c \in Cpus, NEW y, cpu' = [cpu EXCEPT ![c] = y],
         y.pc \in PreparePcs => y.s \in Srbs /\ Reached(y, Shape(requests[y.s]), list[y.s])
  PROVE  TileInv'
<1>1. cpu'[c] = y /\ \A d \in Cpus : d # c => cpu'[d] = cpu[d]
  BY Parts DEF Types
<1>2. \A d \in Cpus : cpu'[d].pc \in PreparePcs =>
           \/ cpu'[d] = cpu[d]
           \/ cpu'[d].s \in Srbs /\ Reached(cpu'[d], Shape(requests[cpu'[d].s]), list[cpu'[d].s])
  BY <1>1
<1> QED
  BY <1>2, SameTiles

\* A processor cuts: the requests of its SRB are others.
LEMMA CutTiles ==
  ASSUME PInv, TileInv, list' = list, bug' = bug, NEW c \in Cpus, NEW s \in Srbs, NEW m, Changed(requests', requests, s, m),
         \A z \in Srbs : z # s => status'[z] = status[z], status'[s] \notin Filed, Cuts(Shape(m)),
         \A d \in Cpus : d # c /\ Busy(d) => Mine(d) # s,
         NEW y, cpu' = [cpu EXCEPT ![c] = y], y.pc \in PreparePcs => y.s = s /\ Reached(y, Shape(m), list[s])
  PROVE  TileInv'
<1>1. cpu'[c] = y /\ \A d \in Cpus : d # c => cpu'[d] = cpu[d]
  BY Parts DEF Types
<1>2. bug' = "none"
  BY TileParts
<1>3. requests'[s] = m /\ \A z \in Srbs : z # s => requests'[z] = requests[z]
  BY DEF Changed
<1>4. ASSUME NEW z \in Srbs
      PROVE  /\ list'[z] \in Lists[z] /\ Cuts(Shape(requests'[z]))
             /\ status'[z] \in Filed => Complete(Shape(requests'[z]), list'[z])
  <2>1. CASE z = s
    BY <1>3, <2>1, TileParts
  <2>2. CASE z # s
    BY <1>3, <2>2, TileParts
  <2> QED
    BY <2>1, <2>2
<1>5. ASSUME NEW d \in Cpus, cpu'[d].pc \in PreparePcs
      PROVE  Reached(cpu'[d], Shape(requests'[cpu'[d].s]), list'[cpu'[d].s])
  <2>1. CASE d = c
    BY <1>1, <1>3, <1>5, <2>1
  <2>2. CASE d # c
    <3>1. cpu'[d] = cpu[d] /\ cpu[d].pc \in PreparePcs /\ cpu[d].pc # "idle"
      BY <1>1, <1>5, <2>2 DEF PreparePcs
    <3>2. Mine(d) \in Srbs /\ Mine(d) # s
      BY <2>2, <3>1, AtWork DEF Busy
    <3>3. Reached(cpu[d], Shape(requests[Mine(d)]), list[Mine(d)])
      BY <3>1, TileParts
    <3> QED
      BY <1>3, <3>1, <3>2, <3>3 DEF Mine
  <2> QED
    BY <2>1, <2>2
<1> QED
  BY <1>2, <1>4, <1>5 DEF TileInv, Mine

\* The lists the SRBs come with.
LEMMA ListFits ==
  ASSUME TileInv, NEW s \in Srbs
  PROVE  IsSgl(list[s]) /\ Contiguous(list[s])
<1>1. list[s] \in Lists[s]
  BY TileParts
<1>2. Contiguous(list[s])
  BY <1>1, ListAssumption
<1>3. PICK l, S : l = list[s] /\ S = [addr : 0 .. NumPages * PageSize - 1, len : Nat \ {0}]
  OBVIOUS
<1>4. l \in Seq(S)
  BY <1>1, <1>3, PrepareAssumption
<1>5. PICK T : T = [addr : Nat, len : Nat \ {0}]
  OBVIOUS
<1>6. \A k \in DOMAIN l : l[k] \in T
  <2>1. \A k \in DOMAIN l : l[k] \in S
    BY <1>4, LenProperties, ElementOfSeq
  <2>2. \A x \in S : x \in T
    BY <1>3, <1>5
  <2> QED
    BY <2>1, <2>2
<1>7. l \in Seq(T)
  BY <1>4, <1>6, SeqIsList, ListIsSeq
<1> QED
  BY <1>2, <1>3, <1>5, <1>7 DEF IsSgl

\* The beginning of a list.
LEMMA StartIs ==
  ASSUME NEW l, IsSgl(l), Contiguous(l)
  PROVE  At(l, Start, 0) /\ Len(Units(l)) \in Nat /\ 0 < Len(Units(l))
<1>1. PICK u : u = Units(l)
  OBVIOUS
<1>2. Laid(l, u)
  BY <1>1, UnitsAre
<1>3. l # <<>>
  BY DEF Contiguous
<1>4. PICK n \in Nat : n = Len(l) /\ DOMAIN l = 1 .. n
  BY <1>2 DEF Laid
<1>5. n > 0
  <2>1. n # 0
    BY <1>3, <1>4, EmptySeq DEF IsSgl
  <2> QED
    BY <1>4, <2>1
<1>6. 1 \in DOMAIN l /\ 1 \in 0 .. n /\ 1 - 1 = 0
  BY <1>4, <1>5
<1>7. Off(l, 0) = 0 /\ l[1].len \in Nat \ {0} /\ Off(l, 1) = Off(l, 1 - 1) + l[1].len /\ Off(l, 1) <= Len(u) /\ Len(u) \in Nat
  BY <1>2, <1>4, <1>6 DEF Laid
<1>8. 0 < Len(u)
  BY <1>6, <1>7
<1>9. Start = [elem |-> Start.elem, off |-> Start.off] /\ Start.elem = 1 /\ Start.off = 0
  BY DEF Start
<1>10. At(l, Start, 0)
  <2>1. 0 < l[1].len /\ 0 = Off(l, 1 - 1) + 0
    BY <1>6, <1>7
  <2> QED
    BY <1>6, <1>9, <2>1 DEF At
<1> QED
  BY <1>1, <1>7, <1>8, <1>10

\* The sectors of a list.
LEMMA SectorsAre ==
  ASSUME NEW l, IsSgl(l), Contiguous(l), NEW n, n = Len(Units(l)) \div SectorSize
  PROVE  n \in Nat /\ Len(Units(l)) = SectorSize * n
<1>1. PICK a, b : a = Len(Units(l)) /\ b = SectorSize
  OBVIOUS
<1>2. a \in Nat /\ b \in Nat \ {0}
  BY <1>1, StartIs, Constants
<1>3. PICK i, t : Divided(a, b, i, t)
  BY <1>2, DivMod
<1>4. a \div b = i /\ a % b = t
  BY <1>3, DivModIs
<1>5. a % b = 0
  BY <1>1 DEF Contiguous, Whole
<1>6. i \in Nat /\ a = b * i + 0
  BY <1>3, <1>4, <1>5 DEF Divided
<1>7. b * i \in Nat
  BY <1>2, <1>6
<1> QED
  BY <1>1, <1>4, <1>6, <1>7

\* More sectors are more units.
LEMMA SectorsCompare ==
  ASSUME NEW i \in Nat, NEW j \in Nat
  PROVE  /\ SectorSize * i \in Nat /\ SectorSize * j \in Nat
         /\ (i < j <=> SectorSize * i < SectorSize * j)
<1>1. PICK b : b = SectorSize
  OBVIOUS
<1>2. b \in Nat \ {0}
  BY <1>1, Constants
<1>3. b * i \in Nat /\ b * j \in Nat
  BY <1>2
<1>4. ASSUME i < j
      PROVE  b * i < b * j
  <2>1. PICK w \in Nat : j = i + w /\ w > 0
    <3>1. j - i \in Nat /\ j = i + (j - i) /\ j - i > 0
      BY <1>4
    <3> QED
      BY <3>1
  <2>2. b * j = b * i + b * w
    BY <1>2, <2>1
  <2>3. b * w > 0
    BY <1>2, <2>1
  <2> QED
    BY <1>2, <1>3, <2>1, <2>2, <2>3
<1>5. ASSUME ~ (i < j)
      PROVE  ~ (b * i < b * j)
  <2>1. PICK w \in Nat : i = j + w
    <3>1. i - j \in Nat /\ i = j + (i - j)
      BY <1>5
    <3> QED
      BY <3>1
  <2>2. b * i = b * j + b * w
    BY <1>2, <2>1
  <2>3. b * w \in Nat
    BY <1>2, <2>1
  <2> QED
    BY <1>2, <1>3, <2>1, <2>2, <2>3
<1> QED
  BY <1>1, <1>3, <1>4, <1>5

\* With no requests nothing is cut yet.
LEMMA NothingCut ==
  Cuts(Shape(<<>>)) /\ FlattenSeq(Sources(Shape(<<>>))) = <<>> /\ DOMAIN Shape(<<>>) = {}
<1>1. PICK l, h : l = <<>> /\ h = Shape(l)
  OBVIOUS
<1>2. AreOf(l) /\ DOMAIN l = {} /\ Len(l) = 0
  BY <1>1 DEF AreOf, IsList
<1>3. IsList(h) /\ Len(h) = 0 /\ DOMAIN h = {}
  BY <1>1, <1>2, ShapeIs
<1>4. Cuts(h)
  BY <1>3 DEF Cuts
<1>5. PICK ss : ss = Sources(h)
  OBVIOUS
<1>6. ss \in Seq(Seq(Nat)) /\ Len(ss) = 0
  BY <1>3, <1>5, SourcesAre
<1>7. FlatTo(ss, 0) = <<>> /\ FlatTo(ss, Len(ss)) = FlattenSeq(ss)
  BY <1>6, FlattenStep
<1> QED
  BY <1>1, <1>3, <1>4, <1>5, <1>6, <1>7

\* PrepareReadWrite is where it was, at another step.
LEMMA ReachedMoves ==
  ASSUME NEW x, NEW h, NEW l, Reached(x, h, l), NEW y, y.done = x.done, y.at = x.at,
         y.pc \in {"clear", "cut"} <=> x.pc \in {"clear", "cut"}, y.pc = "alloc" <=> x.pc = "alloc"
  PROVE  Reached(y, h, l)
BY DEF Reached

-----------------------------------------------------------------------------
(* The steps that cut nothing. *)

\* An SRB is taken.
LEMMA TakeTiles ==
  ASSUME PInv, TileInv, NEW c \in Cpus, NEW s \in Srbs, Take(c, s)
  PROVE  TileInv'
<1>1. PICK y, l : y = [Idle EXCEPT !.pc = "alloc", !.s = s] /\ l = list[s]
  OBVIOUS
<1>2. /\ cpu' = [cpu EXCEPT ![c] = y] /\ status' = [status EXCEPT ![s] = "preparing"] /\ status[s] = "fresh"
      /\ requests' = requests /\ list' = list /\ bug' = bug
  BY <1>1 DEF Take
<1>3. y.pc = "alloc" /\ y.s = s /\ y.done = 0 /\ y.at = Start
  BY <1>1 DEF Idle
<1>4. requests[s] = <<>>
  BY <1>2, RequestsAre DEF Stage
<1>5. IsSgl(l) /\ Contiguous(l)
  BY <1>1, ListFits
<1>6. At(l, Start, 0) /\ Len(Units(l)) \in Nat /\ 0 < Len(Units(l))
  BY <1>5, StartIs
<1>7. SectorSize * 0 = 0 /\ Slice(Units(l), 0, 0) = <<>>
  BY Constants DEF Slice
<1>8. PICK h : h = Shape(requests[s])
  OBVIOUS
<1>9. FlattenSeq(Sources(h)) = <<>> /\ DOMAIN h = {}
  BY <1>4, <1>8, NothingCut
<1>10. Reached(y, h, l)
  BY <1>3, <1>6, <1>7, <1>9 DEF Reached
<1>11. \A z \in Srbs : status'[z] \in Filed => status[z] \in Filed
  BY <1>2, Parts DEF Types, Filed, Done
<1>12. SameShapes
  BY <1>2 DEF SameShapes
<1>13. y.pc \in PreparePcs => y.s \in Srbs /\ Reached(y, Shape(requests[y.s]), list[y.s])
  BY <1>1, <1>3, <1>8, <1>10
<1> QED
  BY <1>2, <1>11, <1>12, <1>13, MoveTiles

\* An error, that leaves the segments as they are.
LEMMA FailingTiles ==
  ASSUME PInv, TileInv, NEW c \in Cpus, Failing(c), SameShapes, list' = list, bug' = bug, status' = status
  PROVE  TileInv'
<1>1. PICK x : x = cpu[c]
  OBVIOUS
<1>2. PICK y : y = [x EXCEPT !.pc = "cleanup", !.failing = TRUE, !.r = 1]
  OBVIOUS
<1>3. cpu' = [cpu EXCEPT ![c] = y]
  BY <1>1, <1>2 DEF Failing
<1>4. IsThread(x)
  BY <1>1, Parts DEF Types
<1>5. y.pc = "cleanup"
  BY <1>2, <1>4 DEF IsThread
<1>6. y.pc \notin PreparePcs
  BY <1>5 DEF PreparePcs
<1> QED
  BY <1>3, <1>6, MoveTiles

\* A step of PrepareReadWrite at the same place of the list.
LEMMA GoTiles ==
  ASSUME PInv, TileInv, NEW c \in Cpus, cpu[c].pc \in PreparePcs, NEW pc, Goto(c, pc),
         pc \in {"clear", "cut"} <=> cpu[c].pc \in {"clear", "cut"}, pc = "alloc" <=> cpu[c].pc = "alloc",
         SameShapes, list' = list, bug' = bug, status' = status
  PROVE  TileInv'
<1>1. PICK x : x = cpu[c]
  OBVIOUS
<1>2. PICK y : y = [x EXCEPT !.pc = pc]
  OBVIOUS
<1>3. cpu' = [cpu EXCEPT ![c] = y]
  BY <1>1, <1>2 DEF Goto
<1>4. IsThread(x) /\ x.s \in Srbs
  BY <1>1, MakingNow
<1>5. y.pc = pc /\ y.s = x.s /\ y.done = x.done /\ y.at = x.at
  BY <1>2, <1>4 DEF IsThread
<1>6. Reached(x, Shape(requests[x.s]), list[x.s])
  BY <1>1, TileParts DEF Mine
<1>7. Reached(y, Shape(requests[y.s]), list[y.s])
  BY <1>1, <1>5, <1>6, ReachedMoves
<1>8. y.s \in Srbs
  BY <1>4, <1>5
<1> QED
  BY <1>3, <1>7, <1>8, MoveTiles

\* A step of another part of the driver.
LEMMA OtherTiles ==
  ASSUME PInv, TileInv, NEW c \in Cpus, NEW y, cpu' = [cpu EXCEPT ![c] = y], y.pc \notin PreparePcs, SameShapes, list' = list, bug' = bug,
         \A z \in Srbs : status'[z] \in Filed => status[z] \in Filed
  PROVE  TileInv'
BY MoveTiles

\* The last segment is held otherwise.
LEMMA WithLastShapes ==
  ASSUME PInv, NEW c \in Cpus, cpu[c].pc \in {"get", "copyIn", "grant"}, NEW seg, IsSegment(seg), Core(seg) = Core(LastOf(c)),
         requests' = WithLast(c, seg)
  PROVE  SameShapes
<1>1. PICK x, s : x = cpu[c] /\ s = Mine(c)
  OBVIOUS
<1>2. PICK l, old, n : l = requests[s] /\ old = l[x.r].segs /\ n = Len(old)
  OBVIOUS
<1>3. /\ s \in Srbs /\ AreOf(l) /\ x.r \in DOMAIN l
      /\ AreSegments(old) /\ n \in DOMAIN old /\ LastOf(c) = old[n]
  BY <1>1, <1>2, LastIs
<1>4. PICK m, segs : Relast(m, segs, c, s, l, old, n, seg)
  BY <1>1, <1>2, <1>3, RelastIs
<1>5. requests' = [requests EXCEPT ![s] = m] /\ Made(m, l, x.r, segs) /\ Replaced(segs, old, n, seg)
  BY <1>1, <1>4 DEF Relast
<1>6. ShapeOf(segs) = ShapeOf(old)
  BY <1>3, <1>5, ReplacedShape
<1>7. Shape(m) = Shape(l)
  BY <1>2, <1>3, <1>5, <1>6, MadeShape
<1>8. Changed(requests', requests, s, m)
  BY <1>3, <1>5, RequestsAre, ChangeIs
<1> QED
  BY <1>2, <1>3, <1>7, <1>8, ChangedShapes

\* The fields the steps change are not among these.
LEMMA CoreKept ==
  ASSUME NEW seg, IsSegment(seg)
  PROVE  /\ \A b : Core([seg EXCEPT !.buf = b]) = Core(seg)
         /\ \A b : Core([seg EXCEPT !.granted = b]) = Core(seg)
         /\ Core([seg EXCEPT !.buf = "none", !.mapped = FALSE]) = Core(seg)
BY DEF IsSegment, Core

\* RequestListEmpty is cleared.
LEMMA ClearEventTiles ==
  ASSUME PInv, TileInv, NEW c \in Cpus, ClearEvent(c)
  PROVE  TileInv'
<1>1. cpu[c].pc = "clear" /\ cpu[c].pc \in PreparePcs /\ Goto(c, "cut")
  BY DEF ClearEvent, PreparePcs
<1>2. requests' = requests /\ status' = status /\ list' = list /\ bug' = bug
  BY DEF ClearEvent, srbVars
<1>3. SameShapes
  BY <1>2 DEF SameShapes
<1>4. PICK pc : pc = "cut"
  OBVIOUS
<1> QED
  BY <1>1, <1>2, <1>3, <1>4, GoTiles

\* A segment is given a buffer.
LEMMA BufferGetTiles ==
  ASSUME PInv, TileInv, NEW c \in Cpus, BufferGet(c)
  PROVE  TileInv'
<1>1. cpu[c].pc = "get" /\ cpu[c].pc \in PreparePcs
  BY DEF BufferGet, PreparePcs
<1>2. status' = status /\ list' = list /\ bug' = bug
  BY DEF BufferGet
<1>3. ASSUME NEW b \in Buffers, requests' = WithLast(c, [LastOf(c) EXCEPT !.buf = b]),
             Goto(c, IF Mine(c) \in Writes THEN "copyIn" ELSE "grant")
      PROVE  TileInv'
  <2>1. PICK pc : pc = IF Mine(c) \in Writes THEN "copyIn" ELSE "grant"
    OBVIOUS
  <2>2. pc \in {"copyIn", "grant"} /\ Goto(c, pc)
    BY <1>3, <2>1
  <2>3. PICK g, seg : g = LastOf(c) /\ seg = [g EXCEPT !.buf = b]
    OBVIOUS
  <2>4. PICK l, old, n : l = requests[Mine(c)] /\ old = l[cpu[c].r].segs /\ n = Len(old)
    OBVIOUS
  <2>5. IsSegment(old[n]) /\ Making(cpu[c], l) /\ LastOf(c) = old[n]
    BY <1>1, <2>4, LastIs
  <2>6. IsSegment(g) /\ g.mapped
    BY <1>1, <2>3, <2>4, <2>5 DEF Making
  <2>7. IsSegment(seg) /\ Core(seg) = Core(g)
    BY <2>3, <2>6, SegmentIs, CoreKept
  <2>8. SameShapes
    BY <1>1, <1>3, <2>3, <2>7, WithLastShapes
  <2>9. pc \in {"clear", "cut"} <=> cpu[c].pc \in {"clear", "cut"}
    BY <1>1, <2>2
  <2>10. pc = "alloc" <=> cpu[c].pc = "alloc"
    BY <1>1, <2>2
  <2> QED
    BY <1>1, <1>2, <2>2, <2>8, <2>9, <2>10, GoTiles
<1>4. FreeFits(free, usedList)
  BY Parts DEF PoolFits
<1>5. CASE /\ free # <<>> /\ requests' = WithLast(c, [LastOf(c) EXCEPT !.buf = Head(free)])
           /\ Goto(c, IF Mine(c) \in Writes THEN "copyIn" ELSE "grant")
  <2>1. PICK b, t : b = Head(free) /\ t = PopFreeList(free)
    OBVIOUS
  <2>2. b \in Buffers
    BY <1>4, <1>5, <2>1, PopFits
  <2> QED
    BY <1>3, <1>5, <2>1, <2>2
<1>6. CASE /\ Unallocated # {} /\ requests' = WithLast(c, [LastOf(c) EXCEPT !.buf = CHOOSE b \in Unallocated : TRUE])
           /\ Goto(c, IF Mine(c) \in Writes THEN "copyIn" ELSE "grant")
  <2>1. PICK b : b = CHOOSE a \in Unallocated : TRUE
    OBVIOUS
  <2>2. b \in Unallocated
    BY <1>6, <2>1
  <2>3. b \in Buffers
    BY <2>2 DEF Unallocated
  <2> QED
    BY <1>3, <1>6, <2>1, <2>3
<1>7. CASE Failing(c) /\ UNCHANGED <<requests, free, usedList>>
  <2>1. SameShapes
    BY <1>7 DEF SameShapes
  <2> QED
    BY <1>2, <1>7, <2>1, FailingTiles
<1> QED
  BY <1>5, <1>6, <1>7 DEF BufferGet

\* The data of a WRITE is copied to the buffer.
LEMMA BufferCopyInTiles ==
  ASSUME PInv, TileInv, NEW c \in Cpus, BufferCopyIn(c)
  PROVE  TileInv'
<1>1. cpu[c].pc = "copyIn" /\ cpu[c].pc \in PreparePcs /\ Goto(c, "grant")
  BY DEF BufferCopyIn, PreparePcs
<1>2. requests' = requests /\ status' = status /\ list' = list /\ bug' = bug
  BY DEF BufferCopyIn, srbVars
<1>3. SameShapes
  BY <1>2 DEF SameShapes
<1>4. PICK pc : pc = "grant"
  OBVIOUS
<1> QED
  BY <1>1, <1>2, <1>3, <1>4, GoTiles

\* PrepareReadWrite goes on after a segment, to a request that is not full or to a new one, or is done.
LEMMA GoesOn ==
  ASSUME NEW x, NEW h, NEW l, Reached(x, h, l), x.pc = "grant", Cuts(h), h # <<>>, IsSgl(l), Contiguous(l),
         NEW n, n = Len(Units(l)) \div SectorSize, NEW last, last = h[Len(h)].segs
  PROVE  /\ x.done >= n => Complete(h, l) /\ x.done = n
         /\ \A y : ~ (x.done >= n) /\ y.done = x.done /\ y.at = x.at /\ y.pc = (IF Len(last) = MaxSegments THEN "alloc" ELSE "cut")
                   => Reached(y, h, l)
<1>1. PICK u, d : u = Units(l) /\ d = x.done
  OBVIOUS
<1>2. n \in Nat /\ Len(u) = SectorSize * n
  BY <1>1, SectorsAre
<1>3. /\ d \in Nat /\ SectorSize * d <= Len(u) /\ At(l, x.at, SectorSize * d)
      /\ FlattenSeq(Sources(h)) = Slice(u, 0, SectorSize * d)
      /\ \A r \in DOMAIN h : Len(h[r].segs) > 0
  BY <1>1 DEF Reached
<1>4. SectorSize * d \in Nat /\ SectorSize * n \in Nat /\ (d < n <=> SectorSize * d < SectorSize * n) /\ (n < d <=> SectorSize * n < SectorSize * d)
  BY <1>2, <1>3, SectorsCompare
<1>5. d <= n
  BY <1>2, <1>3, <1>4
<1>6. ASSUME d >= n
      PROVE  Complete(h, l) /\ d = n
  <2>1. d = n
    BY <1>2, <1>3, <1>5, <1>6
  <2>2. u \in Seq(Nat)
    <3>1. Laid(l, u)
      BY <1>1, UnitsAre
    <3> QED
      BY <3>1 DEF Laid
  <2>3. Slice(u, 0, Len(u)) = u
    BY <2>2, SliceAll
  <2> QED
    BY <1>1, <1>2, <1>3, <2>1, <2>3 DEF Complete
<1>7. ASSUME NEW y, ~ (d >= n), y.done = d, y.at = x.at, y.pc = (IF Len(last) = MaxSegments THEN "alloc" ELSE "cut")
      PROVE  Reached(y, h, l)
  <2>1. SectorSize * d < Len(u)
    BY <1>2, <1>3, <1>4, <1>7
  <2>2. IsList(h)
    BY DEF Cuts
  <2>3. PICK k \in Nat : k = Len(h) /\ DOMAIN h = 1 .. k
    BY <2>2, ListIs
  <2>4. k > 0
    <3>1. k # 0
      BY <2>2, <2>3 DEF IsList
    <3> QED
      BY <2>3, <3>1
  <2>5. k \in DOMAIN h
    BY <2>3, <2>4
  <2>6. Len(last) <= MaxSegments /\ AreProper(last)
    BY <2>3, <2>5 DEF Cuts
  <2>7. Len(last) \in Nat /\ MaxSegments \in Nat
    BY <2>6, ListIs, PrepareAssumption DEF AreProper
  <2>8. y.pc \in {"clear", "cut"} => Len(last) < MaxSegments
    BY <1>7, <2>6, <2>7
  <2>9. Len(h) > 0 /\ Len(h[Len(h)].segs) = Len(last)
    BY <2>3, <2>4
  <2> QED
    BY <1>1, <1>3, <1>7, <2>1, <2>8, <2>9 DEF Reached
<1> QED
  BY <1>1, <1>6, <1>7

\* The segment is granted; with the last the SRB is prepared.
LEMMA GrantTiles ==
  ASSUME PInv, TileInv, NEW c \in Cpus, Grant(c)
  PROVE  TileInv'
<1>1. PICK x, s : x = cpu[c] /\ s = Mine(c)
  OBVIOUS
<1>2. PICK l, old, k : l = requests[s] /\ old = l[x.r].segs /\ k = Len(old)
  OBVIOUS
<1>3. cpu[c].pc = "grant" /\ cpu[c].pc \in PreparePcs
  BY DEF Grant, PreparePcs
<1>4. /\ IsThread(x) /\ x.s = s /\ s \in Srbs /\ AreOf(l) /\ Making(x, l) /\ x.r \in DOMAIN l /\ x.r > 0
      /\ LastOf(c) = old[k] /\ IsSegment(old[k])
  BY <1>1, <1>2, <1>3, LastIs
<1>5. list' = list
  BY DEF Grant
<1>6. CASE Failing(c) /\ UNCHANGED <<requests, status, bug>>
  <2>1. SameShapes
    BY <1>6 DEF SameShapes
  <2> QED
    BY <1>5, <1>6, <2>1, FailingTiles
<1>7. ASSUME requests' = WithLast(c, [LastOf(c) EXCEPT !.granted = TRUE])
      PROVE  SameShapes
  <2>1. PICK yes : yes = TRUE
    OBVIOUS
  <2>2. PICK g, seg : g = LastOf(c) /\ seg = [g EXCEPT !.granted = yes]
    OBVIOUS
  <2>3. IsSegment(seg) /\ Core(seg) = Core(g)
    BY <1>4, <2>1, <2>2, SegmentIs, CoreKept
  <2> QED
    BY <1>3, <1>7, <2>1, <2>2, <2>3, WithLastShapes
<1>8. PICK h, u, n, last : h = Shape(l) /\ u = list[s] /\ n = NumSectors(s) /\ last = h[Len(h)].segs
  OBVIOUS
<1>9. n = Len(Units(u)) \div SectorSize /\ IsSgl(u) /\ Contiguous(u)
  BY <1>4, <1>8, ListFits DEF NumSectors
<1>10. Reached(x, h, u) /\ Cuts(h)
  BY <1>1, <1>2, <1>3, <1>4, <1>8, TileParts DEF Mine
<1>11. h # <<>> /\ Len(last) = Len(Request(c).segs)
  <2>1. Len(h) = Len(l) /\ DOMAIN h = DOMAIN l /\ h[x.r].segs = ShapeOf(l[x.r].segs) /\ Len(ShapeOf(l[x.r].segs)) = Len(l[x.r].segs)
    BY <1>4, <1>8, ShapeIs
  <2>2. x.r = Len(h)
    BY <1>4, <2>1 DEF Making
  <2>3. h # <<>>
    BY <1>4, <2>1
  <2>4. Request(c) = l[x.r]
    BY <1>1, <1>2 DEF Request
  <2> QED
    BY <1>8, <2>1, <2>2, <2>3, <2>4
<1>12. /\ x.done >= n => Complete(h, u) /\ x.done = n
       /\ \A y : ~ (x.done >= n) /\ y.done = x.done /\ y.at = x.at /\ y.pc = (IF Len(last) = MaxSegments THEN "alloc" ELSE "cut")
                 => Reached(y, h, u)
  BY <1>1, <1>3, <1>8, <1>9, <1>10, <1>11, GoesOn
<1>13. CASE /\ requests' = WithLast(c, [LastOf(c) EXCEPT !.granted = TRUE])
            /\ cpu[c].done >= NumSectors(Mine(c))
            /\ status' = [status EXCEPT ![Mine(c)] = "prepared"]
            /\ bug' = IF cpu[c].done = NumSectors(Mine(c)) THEN bug ELSE "ASSERT"
            /\ cpu' = [cpu EXCEPT ![c] = Idle]
  <2>1. Complete(h, u) /\ bug' = bug
    BY <1>1, <1>8, <1>12, <1>13
  <2>2. \A z \in Srbs : status'[z] \in Filed => status[z] \in Filed \/ Complete(Shape(requests[z]), list[z])
    <3>1. \A z \in Srbs : z # s => status'[z] = status[z]
      BY <1>1, <1>13, Parts DEF Types
    <3> QED
      BY <1>2, <1>8, <2>1, <3>1
  <2>3. SameShapes
    BY <1>7, <1>13
  <2>4. Idle.pc \notin PreparePcs
    BY DEF Idle, PreparePcs
  <2> QED
    BY <1>5, <1>13, <2>1, <2>2, <2>3, <2>4, MoveTiles
<1>14. CASE /\ requests' = WithLast(c, [LastOf(c) EXCEPT !.granted = TRUE])
            /\ ~ (cpu[c].done >= NumSectors(Mine(c)))
            /\ Goto(c, IF Len(Request(c).segs) = MaxSegments THEN "alloc" ELSE "cut")
            /\ UNCHANGED <<status, bug>>
  <2>1. PICK pc : pc = IF Len(Request(c).segs) = MaxSegments THEN "alloc" ELSE "cut"
    OBVIOUS
  <2>2. PICK y : y = [x EXCEPT !.pc = pc]
    OBVIOUS
  <2>3. cpu' = [cpu EXCEPT ![c] = y]
    BY <1>1, <1>14, <2>1, <2>2 DEF Goto
  <2>4. y.pc = pc /\ y.s = s /\ y.done = x.done /\ y.at = x.at
    BY <1>4, <2>2 DEF IsThread
  <2>5. Reached(y, h, u)
    BY <1>1, <1>8, <1>11, <1>12, <1>14, <2>1, <2>4
  <2>6. SameShapes
    BY <1>7, <1>14
  <2>7. y.s \in Srbs /\ Reached(y, Shape(requests[y.s]), list[y.s])
    BY <1>2, <1>4, <1>8, <2>4, <2>5
  <2> QED
    BY <1>5, <1>14, <2>3, <2>6, <2>7, MoveTiles
<1> QED
  BY <1>6, <1>13, <1>14 DEF Grant

-----------------------------------------------------------------------------
(* The steps that cut. *)

\* One more request.
LEMMA AppendedShape ==
  ASSUME NEW l, AreOf(l), NEW q, NEW m, AreOf(m), Appended(m, l, q)
  PROVE  Appended(Shape(m), Shape(l), [first |-> q.first, segs |-> ShapeOf(q.segs)])
<1>1. PICK n \in Nat : n = Len(l) /\ DOMAIN l = 1 .. n
  BY ListIs DEF AreOf
<1>2. Len(m) = n + 1 /\ DOMAIN m = 1 .. n + 1 /\ m[n + 1] = q /\ \A i \in 1 .. n : m[i] = l[i]
  BY <1>1 DEF Appended
<1>3. PICK g, h : g = Shape(m) /\ h = Shape(l)
  OBVIOUS
<1>4. IsList(g) /\ Len(g) = n + 1 /\ DOMAIN g = 1 .. n + 1 /\ Len(h) = n
  BY <1>1, <1>2, <1>3, ShapeIs
<1>5. \A i \in 1 .. n + 1 : g[i] = [first |-> m[i].first, segs |-> ShapeOf(m[i].segs)]
  BY <1>2, <1>3 DEF Shape
<1>6. \A i \in 1 .. n : h[i] = [first |-> l[i].first, segs |-> ShapeOf(l[i].segs)]
  BY <1>1, <1>3 DEF Shape
<1>7. n + 1 \in 1 .. n + 1 /\ 1 .. n \subseteq 1 .. n + 1
  BY <1>1
<1>8. g[n + 1] = [first |-> q.first, segs |-> ShapeOf(q.segs)]
  BY <1>2, <1>5, <1>7
<1>9. \A i \in 1 .. n : g[i] = h[i]
  BY <1>2, <1>5, <1>6, <1>7
<1> QED
  BY <1>3, <1>4, <1>8, <1>9 DEF Appended

\* One more segment.
LEMMA AppendedSegs ==
  ASSUME NEW old, AreSegments(old), NEW seg, NEW segs, AreSegments(segs), Appended(segs, old, seg)
  PROVE  Appended(ShapeOf(segs), ShapeOf(old), Core(seg))
<1>1. PICK n \in Nat : n = Len(old) /\ DOMAIN old = 1 .. n
  BY ListIs DEF AreSegments
<1>2. Len(segs) = n + 1 /\ DOMAIN segs = 1 .. n + 1 /\ segs[n + 1] = seg /\ \A i \in 1 .. n : segs[i] = old[i]
  BY <1>1 DEF Appended
<1>3. PICK g, h : g = ShapeOf(segs) /\ h = ShapeOf(old)
  OBVIOUS
<1>4. IsList(g) /\ Len(g) = n + 1 /\ DOMAIN g = 1 .. n + 1 /\ Len(h) = n
  BY <1>1, <1>2, <1>3, ShapeOfIs DEF AreSegments
<1>5. \A i \in 1 .. n + 1 : g[i] = Core(segs[i])
  BY <1>2, <1>3 DEF ShapeOf
<1>6. \A i \in 1 .. n : h[i] = Core(old[i])
  BY <1>1, <1>3 DEF ShapeOf
<1>7. n + 1 \in 1 .. n + 1 /\ 1 .. n \subseteq 1 .. n + 1
  BY <1>1
<1> QED
  BY <1>2, <1>3, <1>4, <1>5, <1>6, <1>7 DEF Appended

\* Another request in a place.
LEMMA ReplacedRequest ==
  ASSUME NEW l, AreOf(l), NEW r \in DOMAIN l, NEW segs, NEW m, Made(m, l, r, segs)
  PROVE  Replaced(Shape(m), Shape(l), r, [first |-> l[r].first, segs |-> ShapeOf(segs)])
<1>1. PICK n \in Nat : n = Len(l) /\ DOMAIN l = 1 .. n
  BY ListIs DEF AreOf
<1>2. /\ AreOf(m) /\ Len(m) = n /\ DOMAIN m = 1 .. n /\ m[r].first = l[r].first /\ m[r].segs = segs
      /\ \A i \in 1 .. n : i # r => m[i] = l[i]
  BY <1>1 DEF Made
<1>3. PICK g, h : g = Shape(m) /\ h = Shape(l)
  OBVIOUS
<1>4. IsList(g) /\ Len(g) = n /\ DOMAIN g = 1 .. n /\ Len(h) = n
  BY <1>1, <1>2, <1>3, ShapeIs
<1>5. \A i \in 1 .. n : g[i] = [first |-> m[i].first, segs |-> ShapeOf(m[i].segs)]
  BY <1>2, <1>3 DEF Shape
<1>6. \A i \in 1 .. n : h[i] = [first |-> l[i].first, segs |-> ShapeOf(l[i].segs)]
  BY <1>1, <1>3 DEF Shape
<1>7. g[r] = [first |-> l[r].first, segs |-> ShapeOf(segs)]
  BY <1>1, <1>2, <1>5
<1>8. \A i \in 1 .. n : i # r => g[i] = h[i]
  BY <1>2, <1>5, <1>6
<1> QED
  BY <1>3, <1>4, <1>7, <1>8 DEF Replaced

\* A request is begun, where the others end.
LEMMA AllocRequestTiles ==
  ASSUME PInv, TileInv, NEW c \in Cpus, AllocRequest(c)
  PROVE  TileInv'
<1>1. PICK x, l, s : x = cpu[c] /\ l = requests[Mine(c)] /\ s = Mine(c)
  OBVIOUS
<1>2. cpu[c].pc \in PreparePcs /\ x.pc = "alloc"
  BY <1>1 DEF AllocRequest, PreparePcs
<1>3. /\ IsThread(x) /\ x.s = s /\ s \in Srbs /\ AreOf(l) /\ Making(x, l)
      /\ status[s] = "preparing" /\ \A d \in Cpus : d # c /\ Busy(d) => Mine(d) # s
  BY <1>1, <1>2, MakingNow
<1>4. list' = list /\ bug' = bug /\ status' = status
  BY DEF AllocRequest
<1>5. CASE Failing(c) /\ UNCHANGED <<requests, used>>
  <2>1. SameShapes
    BY <1>5 DEF SameShapes
  <2> QED
    BY <1>4, <1>5, <2>1, FailingTiles
<1>6. CASE /\ requests' = [requests EXCEPT ![Mine(c)] = Append(@, [first |-> cpu[c].done, segs |-> <<>>, answer |-> "none"])]
           /\ cpu' = [cpu EXCEPT ![c].pc = "clear", ![c].r = @ + 1]
  <2>1. PICK y : y = [x EXCEPT !.pc = "clear", !.r = x.r + 1]
    OBVIOUS
  <2>2. cpu' = [cpu EXCEPT ![c] = y]
    BY <1>1, <1>6, <2>1
  <2>3. y.pc = "clear" /\ y.s = s /\ y.done = x.done /\ y.at = x.at
    BY <1>3, <2>1 DEF IsThread
  <2>4. PICK q : q = [first |-> cpu[c].done, segs |-> <<>>, answer |-> "none"]
    OBVIOUS
  <2>5. IsRequest(q) /\ q.segs = <<>> /\ q.first = x.done
    BY <1>1, <2>4, NewRequestIs
  <2>6. PICK m : m = Append(l, q)
    OBVIOUS
  <2>7. AreOf(m) /\ Appended(m, l, q)
    BY <1>3, <2>5, <2>6, RequestAppended
  <2>8. Changed(requests', requests, s, m)
    <3>1. requests' = [requests EXCEPT ![s] = m]
      BY <1>1, <1>6, <2>4, <2>6
    <3> QED
      BY <1>3, <3>1, RequestsAre, ChangeIs
  <2>9. PICK h, g, u, e : h = Shape(l) /\ g = Shape(m) /\ u = list[s] /\ e = [first |-> q.first, segs |-> ShapeOf(q.segs)]
    OBVIOUS
  <2>10. Reached(x, h, u) /\ Cuts(h) /\ Len(Units(u)) \in Nat
    <3>1. Reached(x, h, u) /\ Cuts(h)
      BY <1>1, <1>2, <1>3, <2>9, TileParts DEF Mine
    <3>2. Len(Units(u)) \in Nat
      BY <1>3, <2>9, ListFits, StartIs
    <3> QED
      BY <3>1, <3>2
  <2>11. Appended(g, h, e)
    BY <1>3, <2>7, <2>9, AppendedShape
  <2>12. e.segs = <<>> /\ e.first = x.done
    <3>1. ShapeOf(<<>>) = <<>>
      BY DEF ShapeOf
    <3> QED
      BY <2>5, <2>9, <3>1
  <2>13. PICK n, len : n = SectorSize * x.done /\ len = Len(h)
    OBVIOUS
  <2>14. /\ x.done \in Nat /\ n \in Nat /\ n < Len(Units(u)) /\ At(u, x.at, n)
         /\ FlattenSeq(Sources(h)) = Slice(Units(u), 0, n) /\ \A r \in DOMAIN h : Len(h[r].segs) > 0
    <3>1. x.done \in Nat /\ n < Len(Units(u)) /\ At(u, x.at, n) /\ FlattenSeq(Sources(h)) = Slice(Units(u), 0, n)
      BY <1>2, <2>10, <2>13 DEF Reached
    <3>2. \A r \in DOMAIN h : Len(h[r].segs) > 0
      BY <1>2, <2>10 DEF Reached
    <3>3. n \in Nat
      BY <2>13, <3>1, SectorsCompare
    <3> QED
      BY <3>1, <3>2, <3>3
  <2>15. e.first * SectorSize = Len(FlattenSeq(Sources(h)))
    <3>1. Units(u) \in Seq(Nat)
      BY <1>3, <2>9, ListFits, UnitsAre DEF Laid
    <3>2. 0 + n <= Len(Units(u)) /\ 0 \in Nat
      BY <2>10, <2>14
    <3>3. Len(Slice(Units(u), 0, n)) = n
      BY <2>14, <3>1, <3>2, SliceIs
    <3>4. x.done * SectorSize = n
      BY <2>13, <2>14, Constants
    <3> QED
      BY <2>12, <2>14, <3>3, <3>4
  <2>16. Cuts(g) /\ FlattenSeq(Sources(g)) = FlattenSeq(Sources(h))
    BY <2>10, <2>11, <2>12, <2>15, CutsAppend
  <2>17. /\ len \in Nat /\ DOMAIN h = 1 .. len /\ Len(g) = len + 1 /\ DOMAIN g = 1 .. len + 1 /\ g[len + 1] = e
         /\ \A i \in 1 .. len : g[i] = h[i]
    BY <2>10, <2>11, <2>13, ListIs DEF Cuts, Appended
  <2>18. Reached(y, g, u)
    <3>1. \A r \in DOMAIN g : r < Len(g) => Len(g[r].segs) > 0
      BY <2>14, <2>17
    <3>2. Len(g) > 0 /\ Len(g[Len(g)].segs) < MaxSegments
      BY <2>12, <2>17, PrepareAssumption
    <3> QED
      BY <2>3, <2>10, <2>13, <2>14, <2>16, <3>1, <3>2 DEF Reached
  <2>19. status'[s] \notin Filed /\ \A z \in Srbs : z # s => status'[z] = status[z]
    BY <1>3, <1>4 DEF Filed, Done
  <2> QED
    BY <1>3, <1>4, <2>2, <2>3, <2>8, <2>9, <2>16, <2>18, <2>19, CutTiles
<1> QED
  BY <1>5, <1>6 DEF AllocRequest

\* A list goes on with what Cut gives.
Taken(x, g, z, u, h, new) ==
  /\ Cuts(new)
  /\ \A y : y.pc \in {"grant", "get"} /\ y.done = x.done + z.now /\ y.at = z.next => Reached(y, new, u)

\* So it does.
LEMMA CutGoesOn ==
  ASSUME NEW u, IsSgl(u), Contiguous(u), NEW x, x.pc = "cut", NEW h, Cuts(h), Reached(x, h, u),
         NEW n, n = Len(Units(u)) \div SectorSize, NEW z, z = Cut(u, x.at, n - x.done),
         NEW len, len = Len(h), NEW g, Core(g) = Core(z.seg), NEW segs, Appended(segs, h[len].segs, Core(g)),
         NEW q, q.first = h[len].first, q.segs = segs, NEW new, Replaced(new, h, len, q)
  PROVE  z.ok /\ Taken(x, g, z, u, h, new)
<1>1. PICK k, U : k = SectorSize * x.done /\ U = Units(u)
  OBVIOUS
<1>2. /\ x.done \in Nat /\ At(u, x.at, k) /\ FlattenSeq(Sources(h)) = Slice(U, 0, k) /\ k < Len(U)
  BY <1>1 DEF Reached
<1>3. (\A r \in DOMAIN h : r < Len(h) => Len(h[r].segs) > 0) /\ Len(h) > 0 /\ Len(h[Len(h)].segs) < MaxSegments
  BY DEF Reached
<1>4. n \in Nat /\ Len(U) = SectorSize * n
  BY <1>1, SectorsAre
<1>5. x.done < n
  BY <1>1, <1>2, <1>4, SectorsCompare
<1>6. PICK left \in Nat \ {0} : left = n - x.done
  BY <1>2, <1>4, <1>5
<1>7. n = x.done + left
  BY <1>2, <1>4, <1>6
<1>8. Len(U) = k + SectorSize * left /\ k \in Nat /\ k % SectorSize = 0
  <2>1. SectorSize * (x.done + left) = SectorSize * x.done + SectorSize * left
    BY <1>2, <1>6, Constants
  <2>2. Divided(k, SectorSize, x.done, 0)
    BY <1>1, <1>2, Constants DEF Divided
  <2>3. k % SectorSize = 0
    BY <2>2, DivModIs
  <2>4. k \in Nat
    BY <1>1, <1>2, SectorsCompare
  <2> QED
    BY <1>1, <1>4, <1>7, <2>1, <2>3, <2>4
<1>9. CutOf(u, k, left)
  BY <1>1, <1>6, <1>8 DEF CutOf
<1>10. CutFits(u, k, left, z)
  <2>1. z = Cut(u, x.at, left)
    BY <1>6
  <2> QED
    BY <1>2, <1>9, <2>1, CutGives
<1>11. PICK now, w : now = z.now /\ w = SectorSize * now
  OBVIOUS
<1>12. /\ z.ok /\ now \in Nat \ {0} /\ now <= left
       /\ Proper(z.seg) /\ z.seg.src = Slice(U, k, w) /\ At(u, z.next, k + w)
  BY <1>1, <1>10, <1>11 DEF CutFits
<1>13. Proper(Core(g)) /\ Core(g).src = Slice(U, k, w)
  <2>1. Proper(Core(z.seg)) /\ Core(z.seg).src = z.seg.src
    BY <1>12, CoreIs
  <2> QED
    BY <1>12, <2>1
<1>14. Cuts(new) /\ FlattenSeq(Sources(new)) = Slice(U, 0, k) \o Slice(U, k, w)
  <2>1. PICK gg : gg = Core(g)
    OBVIOUS
  <2>2. Proper(gg) /\ Appended(segs, h[len].segs, gg) /\ len > 0 /\ Len(h[len].segs) < MaxSegments
    BY <1>3, <1>13, <2>1
  <2>3. Cuts(new) /\ FlattenSeq(Sources(new)) = FlattenSeq(Sources(h)) \o gg.src
    BY <2>2, CutsGrow
  <2> QED
    BY <1>2, <1>13, <2>1, <2>3
<1>15. w \in Nat /\ k + w <= Len(U) /\ Len(U) \in Nat /\ U \in Seq(Nat)
  <2>1. U \in Seq(Nat) /\ Len(U) \in Nat
    BY <1>1, UnitsAre DEF Laid
  <2>2. w \in Nat
    BY <1>11, <1>12, SectorsCompare
  <2>3. w <= SectorSize * left
    <3>1. PICK a \in Nat : left = now + a
      <4>1. left - now \in Nat /\ left = now + (left - now)
        BY <1>6, <1>12
      <4> QED
        BY <4>1
    <3>2. SectorSize * (now + a) = SectorSize * now + SectorSize * a
      BY <1>12, <3>1, Constants
    <3>3. SectorSize * a \in Nat
      BY <3>1, SectorsCompare
    <3> QED
      BY <1>11, <2>2, <3>1, <3>2, <3>3
  <2>4. SectorSize * left \in Nat
    BY <1>6, SectorsCompare
  <2> QED
    BY <1>8, <2>1, <2>2, <2>3, <2>4
<1>16. FlattenSeq(Sources(new)) = Slice(U, 0, k + w)
  <2>1. 0 + k + w <= Len(U) /\ 0 \in Nat /\ 0 + k = k
    BY <1>8, <1>15
  <2>2. Slice(U, 0, k) \o Slice(U, 0 + k, w) = Slice(U, 0, k + w)
    BY <1>8, <1>15, <2>1, SlicesAdd
  <2> QED
    BY <1>14, <2>1, <2>2
<1>17. \A r \in DOMAIN new : Len(new[r].segs) > 0
  <2>1. PICK a \in Nat : a = len /\ DOMAIN h = 1 .. a
    BY ListIs DEF Cuts
  <2>2. DOMAIN new = 1 .. a /\ new[a] = q /\ \A i \in 1 .. a : i # a => new[i] = h[i]
    BY <2>1 DEF Replaced
  <2>3. Len(segs) > 0
    <3>1. a \in DOMAIN h
      BY <1>3, <2>1
    <3>2. IsList(h[len].segs)
      BY <2>1, <3>1 DEF Cuts, AreProper
    <3>3. Len(h[len].segs) \in Nat /\ Len(segs) = Len(h[len].segs) + 1
      BY <3>2, ListIs DEF Appended
    <3> QED
      BY <3>3
  <2>4. \A r \in 1 .. a : r # a => Len(h[r].segs) > 0
    BY <1>3, <2>1
  <2> QED
    BY <2>2, <2>3, <2>4
<1>18. ASSUME NEW y, y.pc \in {"grant", "get"}, y.done = x.done + z.now, y.at = z.next
       PROVE  Reached(y, new, u)
  <2>1. y.done \in Nat /\ SectorSize * y.done = k + w
    <3>1. SectorSize * (x.done + now) = SectorSize * x.done + SectorSize * now
      BY <1>2, <1>12, Constants
    <3>2. y.done = x.done + now
      BY <1>11, <1>18
    <3> QED
      BY <1>1, <1>2, <1>11, <1>12, <3>1, <3>2
  <2>2. PICK d : d = k + w
    OBVIOUS
  <2>3. SectorSize * y.done = d /\ d <= Len(U) /\ At(u, y.at, d) /\ FlattenSeq(Sources(new)) = Slice(U, 0, d)
    BY <1>12, <1>15, <1>16, <1>18, <2>1, <2>2
  <2>4. y.pc \notin {"clear", "cut"} /\ y.pc # "alloc"
    BY <1>18
  <2> QED
    BY <1>1, <1>17, <2>1, <2>3, <2>4 DEF Reached
<1> QED
  BY <1>12, <1>14, <1>18 DEF Taken

\* A segment is cut.
LEMMA CutSegmentTiles ==
  ASSUME PInv, TileInv, NEW c \in Cpus, CutSegment(c)
  PROVE  TileInv'
<1>1. PICK x, l, s : x = cpu[c] /\ l = requests[Mine(c)] /\ s = Mine(c)
  OBVIOUS
<1>2. cpu[c].pc \in PreparePcs /\ x.pc = "cut"
  BY <1>1 DEF CutSegment, PreparePcs
<1>3. /\ IsThread(x) /\ x.s = s /\ s \in Srbs /\ AreOf(l) /\ Making(x, l)
      /\ status[s] = "preparing" /\ \A d \in Cpus : d # c /\ Busy(d) => Mine(d) # s
  BY <1>1, <1>2, MakingNow
<1>4. list' = list /\ status' = status
  BY DEF CutSegment
<1>5. PICK u, z : u = list[s] /\ z = Cut(list[s], cpu[c].at, NumSectors(s) - cpu[c].done)
  OBVIOUS
<1>6. bug' = (IF z.ok THEN bug ELSE "ASSERT")
  BY <1>1, <1>5 DEF CutSegment
<1>7. PICK seg, y :
        /\ IsSegment(seg) /\ Core(seg) = Core(z.seg)
        /\ requests' = [requests EXCEPT ![s][x.r].segs = Append(@, seg)]
        /\ cpu' = [cpu EXCEPT ![c] = y]
        /\ y.pc \in {"grant", "get"} => y.done = x.done + z.now /\ y.at = z.next
        /\ y.pc \in {"grant", "get", "cleanup"} /\ y.s = s
  <2>1. PICK seg : seg = z.seg
    OBVIOUS
  <2>2. IsSegment(seg) /\ seg.bounced \in BOOLEAN
    <3>1. PICK at, left : at = cpu[c].at /\ left = NumSectors(s) - cpu[c].done
      OBVIOUS
    <3>2. seg = Cut(u, at, left).seg
      BY <1>5, <2>1, <3>1
    <3>3. IsSegment(seg)
      BY <3>2, CutIs
    <3> QED
      BY <3>3 DEF IsSegment
  <2>3. PICK new : new = [seg EXCEPT !.mapped = seg.bounced]
    OBVIOUS
  <2>4. IsSegment(new) /\ Core(new) = Core(seg)
    <3>1. IsSegment(new)
      <4>1. seg.buf = "none"
        BY <2>1, <1>5, CutIs
      <4> QED
        BY <2>2, <2>3, <4>1 DEF IsSegment
    <3>2. Core(new) = Core(seg)
      BY <2>2, <2>3 DEF IsSegment, Core
    <3> QED
      BY <3>1, <3>2
  <2>5. CASE /\ requests' = [requests EXCEPT ![s][x.r].segs = Append(@, new)]
             /\ cpu' = [cpu EXCEPT ![c].pc = IF seg.bounced THEN "get" ELSE "grant", ![c].at = z.next,
                                   ![c].done = @ + z.now]
    <3>1. PICK pc, d : d = x.done + z.now /\ pc = IF seg.bounced THEN "get" ELSE "grant"
      OBVIOUS
    <3>2. PICK y : y = [x EXCEPT !.pc = pc, !.at = z.next, !.done = d]
      OBVIOUS
    <3>3. cpu' = [cpu EXCEPT ![c] = y]
      BY <1>1, <2>5, <3>1, <3>2
    <3>4. y.pc = pc /\ y.done = d /\ y.at = z.next /\ y.s = s
      BY <1>3, <3>2 DEF IsThread
    <3> QED
      BY <2>1, <2>4, <2>5, <3>1, <3>3, <3>4
  <2>6. CASE requests' = [requests EXCEPT ![s][x.r].segs = Append(@, seg)] /\ Failing(c)
    <3>1. PICK y : y = [x EXCEPT !.pc = "cleanup", !.failing = TRUE, !.r = 1]
      OBVIOUS
    <3>2. cpu' = [cpu EXCEPT ![c] = y]
      BY <1>1, <2>6, <3>1 DEF Failing
    <3>3. y.pc = "cleanup" /\ y.s = s
      BY <1>3, <3>1 DEF IsThread
    <3> QED
      BY <2>1, <2>2, <2>6, <3>2, <3>3
  <2> QED
    BY <1>1, <1>5, <2>1, <2>3, <2>5, <2>6 DEF CutSegment
<1>8. x.r \in DOMAIN l /\ x.r > 0 /\ x.r = Len(l)
  BY <1>2, <1>3, ListIs DEF Making, AreOf
<1>9. PICK old, segs : old = l[x.r].segs /\ segs = Append(old, seg)
  OBVIOUS
<1>10. AreSegments(old)
  BY <1>3, <1>8, <1>9 DEF AreOf, IsRequest
<1>11. AreSegments(segs) /\ Appended(segs, old, seg)
  BY <1>7, <1>9, <1>10, SegmentsAppended
<1>12. PICK q, m : q = [l[x.r] EXCEPT !.segs = segs] /\ m = [l EXCEPT ![x.r] = q]
  OBVIOUS
<1>13. Made(m, l, x.r, segs)
  BY <1>3, <1>8, <1>11, <1>12, Makes
<1>14. Changed(requests', requests, s, m)
  <2>1. requests' = [requests EXCEPT ![s] = m]
    BY <1>1, <1>7, <1>9, <1>12
  <2> QED
    BY <1>3, <2>1, RequestsAre, ChangeIs
<1>15. PICK h, len, new, e : h = Shape(l) /\ len = Len(h) /\ new = Shape(m) /\ e = [first |-> l[x.r].first, segs |-> ShapeOf(segs)]
  OBVIOUS
<1>16. Reached(x, h, u) /\ Cuts(h) /\ IsSgl(u) /\ Contiguous(u)
  <2>1. Reached(x, h, u) /\ Cuts(h)
    BY <1>1, <1>2, <1>3, <1>5, <1>15, TileParts DEF Mine
  <2>2. IsSgl(u) /\ Contiguous(u)
    BY <1>3, <1>5, ListFits
  <2> QED
    BY <2>1, <2>2
<1>17. len = x.r /\ h[len].first = l[x.r].first /\ h[len].segs = ShapeOf(old)
  BY <1>3, <1>8, <1>9, <1>15, ShapeIs
<1>18. Appended(ShapeOf(segs), h[len].segs, Core(seg))
  BY <1>10, <1>11, <1>17, AppendedSegs
<1>19. Replaced(new, h, len, e)
  BY <1>3, <1>8, <1>13, <1>15, <1>17, ReplacedRequest
<1>20. z.ok /\ Taken(x, seg, z, u, h, new)
  <2>1. PICK n : n = Len(Units(u)) \div SectorSize
    OBVIOUS
  <2>2. z = Cut(u, x.at, n - x.done)
    BY <1>1, <1>5, <2>1 DEF NumSectors
  <2>3. PICK es : es = ShapeOf(segs)
    OBVIOUS
  <2>4. e.first = h[len].first /\ e.segs = es /\ Appended(es, h[len].segs, Core(seg))
    BY <1>15, <1>17, <1>18, <2>3
  <2>5. Core(seg) = Core(z.seg)
    BY <1>7
  <2> QED
    BY <1>2, <1>15, <1>16, <1>19, <2>1, <2>2, <2>4, <2>5, CutGoesOn
<1>21. bug' = bug
  BY <1>6, <1>20
<1>22. Cuts(new) /\ (y.pc \in PreparePcs => y.s = s /\ Reached(y, new, u))
  BY <1>7, <1>20 DEF Taken, PreparePcs
<1>23. status'[s] \notin Filed /\ \A zz \in Srbs : zz # s => status'[zz] = status[zz]
  BY <1>3, <1>4 DEF Filed, Done
<1> QED
  BY <1>3, <1>4, <1>5, <1>7, <1>14, <1>15, <1>21, <1>22, <1>23, CutTiles

-----------------------------------------------------------------------------
(* The answers, and what they give back. *)

\* A grant is given back.
LEMMA ReleaseTiles ==
  ASSUME PInv, TileInv, NEW c \in Cpus, Release(c)
  PROVE  TileInv'
<1>1. PICK x, s : x = cpu[c] /\ s = Mine(c)
  OBVIOUS
<1>2. PICK l, r : l = requests[s] /\ r = x.r
  OBVIOUS
<1>3. cpu[c].pc \in CleanPcs /\ r \in DOMAIN l /\ Holders(l[r]) # {}
  BY <1>1, <1>2 DEF Release, CleanPcs, Request
<1>4. IsThread(x) /\ x.s = s /\ s \in Srbs /\ AreOf(l)
  BY <1>1, <1>2, <1>3, CleaningNow
<1>5. PICK q, old, k : q = l[r] /\ old = q.segs /\ k = FirstHolder(q)
  OBVIOUS
<1>6. AreSegments(old) /\ k \in DOMAIN old /\ IsSegment(old[k])
  BY <1>3, <1>4, <1>5, FirstIs DEF AreOf, IsRequest, AreSegments
<1>7. PICK no : no = FALSE
  OBVIOUS
<1>8. PICK seg : seg = [old[k] EXCEPT !.granted = no]
  OBVIOUS
<1>9. IsSegment(seg) /\ Core(seg) = Core(old[k])
  BY <1>6, <1>7, <1>8, SegmentIs, CoreKept
<1>10. SetSeg(c, k, seg) /\ cpu' = [cpu EXCEPT ![c].pc = "put", ![c].k = k]
  BY <1>1, <1>2, <1>5, <1>7, <1>8 DEF Release, Request
<1>11. PICK m, segs : Reset(m, segs, c, s, l, old, k, seg)
  BY <1>1, <1>2, <1>3, <1>4, <1>5, <1>6, <1>9, <1>10, SetSegIs
<1>12. requests' = [requests EXCEPT ![s] = m] /\ Made(m, l, r, segs) /\ Replaced(segs, old, k, seg)
  BY <1>1, <1>2, <1>11 DEF Reset
<1>13. Shape(m) = Shape(l)
  BY <1>3, <1>5, <1>6, <1>9, <1>12, ReplacedShape, MadeShape
<1>14. SameShapes
  <2>1. Changed(requests', requests, s, m)
    BY <1>4, <1>12, RequestsAre, ChangeIs
  <2> QED
    BY <1>2, <1>4, <1>13, <2>1, ChangedShapes
<1>15. PICK y : y = [x EXCEPT !.pc = "put", !.k = k]
  OBVIOUS
<1>16. cpu' = [cpu EXCEPT ![c] = y]
  BY <1>1, <1>10, <1>15
<1>17. y.pc \notin PreparePcs
  BY <1>4, <1>15 DEF IsThread, PreparePcs
<1>18. list' = list /\ bug' = bug /\ status' = status
  BY DEF Release
<1> QED
  BY <1>14, <1>16, <1>17, <1>18, OtherTiles

\* A buffer is given back, one that is used.
LEMMA BufferPutTiles ==
  ASSUME PInv, TileInv, NEW c \in Cpus, BufferPut(c)
  PROVE  TileInv'
<1>1. PICK x, s : x = cpu[c] /\ s = Mine(c)
  OBVIOUS
<1>2. PICK l, r, k : l = requests[s] /\ r = x.r /\ k = x.k
  OBVIOUS
<1>3. cpu[c].pc \in CleanPcs /\ x.pc = "put" /\ x.pc # "idle"
  BY <1>1 DEF BufferPut, CleanPcs
<1>4. r \in DOMAIN l /\ k \in DOMAIN l[r].segs
  BY <1>1, <1>2, <1>3, AtWork DEF Works, PutFits
<1>5. IsThread(x) /\ x.s = s /\ s \in Srbs /\ AreOf(l) /\ r \in Nat
  BY <1>1, <1>2, <1>3, <1>4, CleaningNow
<1>6. PICK q, old, b : q = l[r] /\ old = q.segs /\ b = old[k].buf
  OBVIOUS
<1>7. AreSegments(old) /\ k \in DOMAIN old /\ IsSegment(old[k]) /\ k \in Nat /\ b \in Buffers \cup {"none"}
  BY <1>4, <1>5, <1>6, ListIs DEF AreOf, IsRequest, AreSegments, IsSegment
<1>8. PICK seg : seg = [old[k] EXCEPT !.buf = "none", !.mapped = FALSE]
  OBVIOUS
<1>9. IsSegment(seg) /\ Core(seg) = Core(old[k])
  BY <1>7, <1>8, SegmentIs, CoreKept
<1>10. /\ SetSeg(c, k, seg) /\ Goto(c, "cleanup")
       /\ bug' = IF b \in usedList \cup {"none"} THEN bug ELSE "ASSERT"
  BY <1>1, <1>2, <1>6, <1>8 DEF BufferPut, Request
<1>11. PICK m, segs : Reset(m, segs, c, s, l, old, k, seg)
  BY <1>1, <1>2, <1>4, <1>5, <1>6, <1>7, <1>9, <1>10, SetSegIs
<1>12. requests' = [requests EXCEPT ![s] = m] /\ Made(m, l, r, segs) /\ Replaced(segs, old, k, seg)
  BY <1>1, <1>2, <1>11 DEF Reset
<1>13. Shape(m) = Shape(l)
  BY <1>4, <1>6, <1>7, <1>9, <1>12, ReplacedShape, MadeShape
<1>14. SameShapes
  <2>1. Changed(requests', requests, s, m)
    BY <1>5, <1>12, RequestsAre, ChangeIs
  <2> QED
    BY <1>2, <1>5, <1>13, <2>1, ChangedShapes
<1>15. bug' = bug
  <2>1. CASE b = "none"
    BY <1>10, <2>1
  <2>2. CASE b \in Buffers
    <3>1. PICK h : h = <<s, r, k, b>>
      OBVIOUS
    <3>2. Names(l, r, k, b)
      BY <1>4, <1>6 DEF Names
    <3>3. h \in UsersIn(requests) /\ h[4] = b
      BY <1>2, <1>5, <1>7, <2>2, <3>1, <3>2 DEF UsersIn
    <3>4. Named(usedList, UsersIn(requests))
      BY Parts DEF PoolFits
    <3>5. b \in usedList
      BY <3>3, <3>4 DEF Named
    <3> QED
      BY <1>10, <3>5
  <2> QED
    BY <1>7, <2>1, <2>2
<1>16. PICK y : y = [x EXCEPT !.pc = "cleanup"]
  OBVIOUS
<1>17. cpu' = [cpu EXCEPT ![c] = y]
  BY <1>1, <1>10, <1>16 DEF Goto
<1>18. y.pc \notin PreparePcs
  BY <1>5, <1>16 DEF IsThread, PreparePcs
<1>19. list' = list /\ status' = status
  BY DEF BufferPut
<1> QED
  BY <1>14, <1>15, <1>17, <1>18, <1>19, OtherTiles

\* A request with another answer is cut as it was.
LEMMA AnsweredShapes ==
  ASSUME PInv, NEW s \in Srbs, NEW r \in DOMAIN requests[s], NEW a \in Answers, requests' = [requests EXCEPT ![s][r].answer = a]
  PROVE  SameShapes
<1>1. PICK l : l = requests[s]
  OBVIOUS
<1>2. PICK q, m : q = [l[r] EXCEPT !.answer = a] /\ m = [l EXCEPT ![r] = q]
  OBVIOUS
<1>3. AreOf(l) /\ r \in DOMAIN l
  BY <1>1, RequestsAre
<1>4. Answered(m, l, r, a)
  BY <1>2, <1>3, AnswerIs
<1>5. Shape(m) = Shape(l)
  BY <1>3, <1>4, AnsweredShape
<1>6. Changed(requests', requests, s, m)
  <2>1. requests' = [requests EXCEPT ![s] = m]
    BY <1>1, <1>2
  <2> QED
    BY <2>1, RequestsAre, ChangeIs
<1> QED
  BY <1>1, <1>5, <1>6, ChangedShapes

\* A request is off the list.
LEMMA FreeRequestTiles ==
  ASSUME PInv, TileInv, NEW c \in Cpus, FreeRequest(c)
  PROVE  TileInv'
<1>1. PICK x, s : x = cpu[c] /\ s = Mine(c)
  OBVIOUS
<1>2. PICK l, r : l = requests[s] /\ r = x.r
  OBVIOUS
<1>3. cpu[c].pc \in CleanPcs /\ r \in DOMAIN l
  BY <1>1, <1>2 DEF FreeRequest, CleanPcs
<1>4. IsThread(x) /\ s \in Srbs
  BY <1>1, <1>2, <1>3, CleaningNow
<1>5. PICK a, pc : a = (IF l[r].answer = "error" THEN "failed" ELSE "freed") /\ pc = (IF used = 1 THEN "set" ELSE "next")
  OBVIOUS
<1>6. a \in Answers /\ pc \notin PreparePcs
  BY <1>5 DEF Gone, Answers, PreparePcs
<1>7. requests' = [requests EXCEPT ![s][r].answer = a]
  BY <1>1, <1>2, <1>5 DEF FreeRequest
<1>8. SameShapes
  BY <1>2, <1>3, <1>4, <1>6, <1>7, AnsweredShapes
<1>9. PICK y : y = [x EXCEPT !.pc = pc]
  OBVIOUS
<1>10. cpu' = [cpu EXCEPT ![c] = y] /\ y.pc \notin PreparePcs
  BY <1>1, <1>4, <1>5, <1>6, <1>9 DEF FreeRequest, Goto, IsThread
<1>11. list' = list /\ bug' = bug /\ status' = status
  BY DEF FreeRequest
<1> QED
  BY <1>8, <1>10, <1>11, OtherTiles

\* The event is set.
LEMMA SetEventTiles ==
  ASSUME PInv, TileInv, NEW c \in Cpus, SetEvent(c)
  PROVE  TileInv'
<1>1. PICK y : y = [cpu[c] EXCEPT !.pc = "next"]
  OBVIOUS
<1>2. IsThread(cpu[c])
  BY Parts DEF Types
<1>3. cpu' = [cpu EXCEPT ![c] = y] /\ y.pc \notin PreparePcs
  BY <1>1, <1>2 DEF SetEvent, Goto, IsThread, PreparePcs
<1>4. list' = list /\ bug' = bug /\ status' = status /\ SameShapes
  BY DEF SetEvent, srbVars, SameShapes
<1> QED
  BY <1>3, <1>4, OtherTiles

\* The next request of an SRB that failed, or the end of an answer of one that is prepared.
LEMMA ContinueTiles ==
  ASSUME PInv, TileInv, NEW c \in Cpus, Continue(c)
  PROVE  TileInv'
<1>1. PICK x, s : x = cpu[c] /\ s = Mine(c)
  OBVIOUS
<1>2. PICK l : l = requests[s]
  OBVIOUS
<1>3. x.pc = "next" /\ cpu[c].pc # "idle" /\ x.pc \notin PreparePcs
  BY <1>1 DEF Continue, PreparePcs
<1>4. IsThread(x) /\ x.s = s /\ s \in Srbs /\ Works(x, l, status[s], ringLock = c)
  BY <1>1, <1>2, <1>3, AtWork DEF Mine
<1>5. list' = list /\ bug' = bug /\ SameShapes
  BY DEF Continue, SameShapes
<1>6. CASE x.failing
  <2>1. PICK y : y = [x EXCEPT !.pc = "cleanup", !.r = x.r + 1]
    OBVIOUS
  <2>2. cpu' = [cpu EXCEPT ![c] = y] /\ status' = status
    BY <1>1, <1>6, <2>1 DEF Continue
  <2>3. y.pc \notin PreparePcs
    BY <1>4, <2>1 DEF IsThread, PreparePcs
  <2> QED
    BY <1>5, <2>2, <2>3, OtherTiles
<1>7. CASE ~ x.failing
  <2>1. status[s] = "prepared"
    BY <1>3, <1>4, <1>7 DEF Works, Preparing, Undoing
  <2>2. cpu' = [cpu EXCEPT ![c] = Idle]
    BY <1>1, <1>7 DEF Continue
  <2>3. \A z \in Srbs : z # s => status'[z] = status[z]
    BY <1>1, <1>7, Parts DEF Continue, Types
  <2>4. \A z \in Srbs : status'[z] \in Filed => status[z] \in Filed
    BY <2>1, <2>3 DEF Filed
  <2>5. Idle.pc \notin PreparePcs
    BY DEF Idle, PreparePcs
  <2> QED
    BY <1>5, <2>2, <2>4, <2>5, OtherTiles
<1> QED
  BY <1>4, <1>6, <1>7 DEF IsThread

\* The SRB that failed is back at the head of FreshSrbs, with nothing cut.
LEMMA PutBackTiles ==
  ASSUME PInv, TileInv, NEW c \in Cpus, PutBack(c)
  PROVE  TileInv'
<1>1. PICK s, m : s = Mine(c) /\ m = <<>>
  OBVIOUS
<1>2. cpu[c].pc # "idle"
  BY DEF PutBack
<1>3. s \in Srbs /\ \A d \in Cpus : d # c /\ Busy(d) => Mine(d) # s
  BY <1>1, <1>2, AtWork
<1>4. /\ list' = list /\ bug' = bug /\ cpu' = [cpu EXCEPT ![c] = Idle]
      /\ status' = [status EXCEPT ![s] = "fresh"] /\ requests' = [requests EXCEPT ![s] = m]
  BY <1>1 DEF PutBack
<1>5. Changed(requests', requests, s, m)
  BY <1>3, <1>4, RequestsAre, ChangeIs
<1>6. status'[s] \notin Filed /\ \A z \in Srbs : z # s => status'[z] = status[z]
  BY <1>3, <1>4, Parts DEF Types, Filed, Done
<1>7. Cuts(Shape(m))
  BY <1>1, NothingCut
<1>8. Idle.pc \notin PreparePcs
  BY DEF Idle, PreparePcs
<1> QED
  BY <1>3, <1>4, <1>5, <1>6, <1>7, <1>8, CutTiles

\* An idle processor takes RingLock, and an answer.
LEMMA RespondTiles ==
  ASSUME PInv, TileInv, NEW c \in Cpus, NEW s \in Srbs, NEW r \in DOMAIN requests[s], Respond(c, s, r)
  PROVE  TileInv'
<1>1. PICK y : y = [Idle EXCEPT !.pc = "cleanup", !.s = s, !.r = r]
  OBVIOUS
<1>2. cpu' = [cpu EXCEPT ![c] = y] /\ y.pc \notin PreparePcs
  BY <1>1 DEF Respond, Idle, PreparePcs
<1>3. list' = list /\ bug' = bug /\ status' = status /\ SameShapes
  BY DEF Respond, srbVars, SameShapes
<1> QED
  BY <1>2, <1>3, OtherTiles

\* A step that leaves the processors, the lists and the SRBs alone.
LEMMA StillTiles ==
  ASSUME PInv, TileInv, list' = list, bug' = bug, cpu' = cpu, status' = status, SameShapes
  PROVE  TileInv'
BY SameTiles

\* The backend answers.
LEMMA AnswerTiles ==
  ASSUME PInv, TileInv, NEW s \in Srbs, NEW r \in DOMAIN requests[s], Answer(s, r)
  PROVE  TileInv'
<1>1. PICK a \in {"okay", "error"} : requests' = [requests EXCEPT ![s][r].answer = a]
  BY DEF Answer
<1>2. SameShapes
  BY <1>1, AnsweredShapes DEF Answers
<1>3. list' = list /\ bug' = bug /\ cpu' = cpu /\ status' = status
  BY DEF Answer
<1> QED
  BY <1>2, <1>3, StillTiles

-----------------------------------------------------------------------------
\* At first nothing is cut.
LEMMA InitTiles ==
  ASSUME Init
  PROVE  TileInv
<1>1. /\ status = [s \in Srbs |-> "fresh"] /\ requests = [s \in Srbs |-> <<>>] /\ cpu = [c \in Cpus |-> Idle] /\ bug = "none"
      /\ \A s \in Srbs : list[s] \in Lists[s]
  BY DEF Init
<1>2. \A s \in Srbs : requests[s] = <<>> /\ status[s] \notin Filed
  BY <1>1 DEF Filed, Done
<1>3. \A c \in Cpus : cpu[c].pc \notin PreparePcs
  BY <1>1 DEF Idle, PreparePcs
<1> QED
  BY <1>1, <1>2, <1>3, NothingCut DEF TileInv

\* No step breaks it.
LEMMA NextTiles ==
  ASSUME PInv, TileInv, [Next]_vars
  PROVE  TileInv'
<1>1. ASSUME NEW c \in Cpus, Step(c)
      PROVE  TileInv'
  BY <1>1, TakeTiles, AllocRequestTiles, ClearEventTiles, CutSegmentTiles, BufferGetTiles, BufferCopyInTiles, GrantTiles,
     RespondTiles, ReleaseTiles, BufferPutTiles, FreeRequestTiles, SetEventTiles, ContinueTiles, PutBackTiles DEF Step
<1>2. ASSUME NEW s \in Srbs, NEW r \in DOMAIN requests[s], Answer(s, r)
      PROVE  TileInv'
  BY <1>2, AnswerTiles
<1>3. CASE Wake \/ Reap \/ Alert \/ Join \/ FreeAll \/ UNCHANGED vars
  <2>1. list' = list /\ bug' = bug /\ cpu' = cpu /\ status' = status /\ requests' = requests
    BY <1>3 DEF Wake, Reap, Alert, Join, FreeAll, vars, srbVars
  <2>2. SameShapes
    BY <2>1 DEF SameShapes
  <2> QED
    BY <2>1, <2>2, StillTiles
<1> QED
  BY <1>1, <1>2, <1>3 DEF Next

\* It holds always.
THEOREM TilesHold == Spec => [](PInv /\ TileInv)
<1>1. Init => TileInv
  BY InitTiles
<1>2. PInv /\ TileInv /\ [Next]_vars => TileInv'
  BY NextTiles
<1> QED
  BY <1>1, <1>2, PrepareHolds, PTL DEF Spec

-----------------------------------------------------------------------------
(* What it means for the segments, whichever request they are in. *)

\* The first k of a list, and of one that follows another.
LEMMA FirstsGrow ==
  ASSUME NEW T, NEW a \in Seq(T), NEW b \in Seq(T), NEW k \in 1 .. Len(b), NEW f, f = FirstOf(b, k - 1), NEW g, g = FirstOf(b, k)
  PROVE  /\ f \in Seq(T) /\ g \in Seq(T) /\ a \o f \in Seq(T) /\ a \o g \in Seq(T)
         /\ Appended(g, f, b[k]) /\ Appended(a \o g, a \o f, b[k]) /\ b[k] \in T
<1>1. PICK n \in Nat : n = k - 1
  OBVIOUS
<1>2. k = n + 1 /\ Len(b) \in Nat /\ n + 1 <= Len(b) /\ n <= Len(b)
  BY <1>1
<1>3. \A i \in 1 .. n + 1 : b[i] \in T
  BY <1>2
<1>4. f = [i \in 1 .. n |-> b[i]] /\ g = [i \in 1 .. n + 1 |-> b[i]]
  BY <1>1, <1>2 DEF FirstOf
<1>5. f \in Seq(T) /\ Len(f) = n /\ g \in Seq(T) /\ Len(g) = n + 1
  BY <1>1, <1>3, <1>4
<1>6. IsList(g)
  BY <1>5, SeqIsList
<1>7. Appended(g, f, b[k])
  <2>1. n + 1 \in 1 .. n + 1 /\ 1 .. n \subseteq 1 .. n + 1
    BY <1>1
  <2>2. \A i \in 1 .. n : g[i] = f[i]
    BY <1>4, <2>1
  <2>3. DOMAIN g = 1 .. n + 1 /\ g[n + 1] = b[k]
    BY <1>2, <1>4, <2>1
  <2> QED
    BY <1>5, <1>6, <2>2, <2>3 DEF Appended
<1>8. PICK c, d : c = a \o f /\ d = a \o g
  OBVIOUS
<1>9. Joined(c, a, f, T)
  BY <1>5, <1>8, ConcatIs
<1>10. Joined(d, a, g, T)
  BY <1>5, <1>8, ConcatIs
<1>11. PICK m \in Nat : m = Len(a)
  OBVIOUS
<1>12. c \in Seq(T) /\ Len(c) = m + n /\ (\A i \in 1 .. m : c[i] = a[i]) /\ (\A i \in 1 .. n : c[m + i] = f[i])
  BY <1>5, <1>9, <1>11 DEF Joined
<1>13. d \in Seq(T) /\ Len(d) = m + (n + 1) /\ (\A i \in 1 .. m : d[i] = a[i]) /\ (\A i \in 1 .. n + 1 : d[m + i] = g[i])
  BY <1>5, <1>10, <1>11 DEF Joined
<1>14. Appended(d, c, b[k])
  <2>1. IsList(d)
    BY <1>13, SeqIsList
  <2>2. Len(d) = Len(c) + 1 /\ DOMAIN d = 1 .. Len(c) + 1
    BY <1>1, <1>11, <1>12, <1>13
  <2>3. d[Len(c) + 1] = b[k]
    <3>1. n + 1 \in 1 .. n + 1 /\ Len(c) + 1 = m + (n + 1)
      BY <1>1, <1>11, <1>12
    <3>2. d[m + (n + 1)] = g[n + 1]
      BY <1>13, <3>1
    <3>3. g[n + 1] = b[n + 1]
      BY <1>4, <3>1
    <3> QED
      BY <1>2, <3>1, <3>2, <3>3
  <2>4. ASSUME NEW i \in 1 .. Len(c)
        PROVE  d[i] = c[i]
    <3>1. CASE i \in 1 .. m
      BY <1>12, <1>13, <3>1
    <3>2. CASE i \notin 1 .. m
      <4>1. PICK j \in 1 .. n : i = m + j
        <5>1. i - m \in 1 .. n /\ i = m + (i - m)
          BY <1>1, <1>11, <1>12, <2>4, <3>2
        <5> QED
          BY <5>1
      <4>2. j \in 1 .. n + 1 /\ d[m + j] = g[j]
        BY <1>1, <1>13
      <4>3. c[m + j] = f[j] /\ g[j] = f[j]
        BY <1>4, <1>12, <4>2
      <4> QED
        BY <4>1, <4>2, <4>3
    <3> QED
      BY <3>1, <3>2
  <2> QED
    BY <2>1, <2>2, <2>3, <2>4 DEF Appended
<1>15. b[k] \in T
  OBVIOUS
<1> QED
  BY <1>5, <1>7, <1>8, <1>12, <1>13, <1>14, <1>15

\* All of these are proper.
AllProper(T) == \A g \in T : Proper(g)

\* A sequence of proper segments.
LEMMA ProperSeq ==
  ASSUME NEW T, AllProper(T), NEW a \in Seq(T)
  PROVE  AreProper(a)
<1>1. IsList(a)
  BY SeqIsList
<1>2. \A k \in DOMAIN a : a[k] \in T
  OBVIOUS
<1> QED
  BY <1>1, <1>2 DEF AreProper, AllProper

\* The units of a, and then of b.
SrcsJoin(c, a, b) == Src(c) = Src(a) \o Src(b)

\* Segments that follow others.
LEMMA SrcConcat ==
  ASSUME NEW T, AllProper(T), NEW a \in Seq(T), NEW b \in Seq(T)
  PROVE  SrcsJoin(a \o b, a, b)
<1> DEFINE Bad == {k \in 0 .. Len(b) : ~ SrcsJoin(a \o FirstOf(b, k), a, FirstOf(b, k))}
<1>1. Len(b) \in Nat
  OBVIOUS
<1>2. SUFFICES Bad = {}
  <2>1. FirstOf(b, Len(b)) = b
    BY DEF FirstOf
  <2>2. Len(b) \in 0 .. Len(b)
    BY <1>1
  <2>3. Bad = {} => SrcsJoin(a \o FirstOf(b, Len(b)), a, FirstOf(b, Len(b)))
    BY <2>2
  <2> QED
    BY <2>1, <2>3
<1>3. ASSUME Bad # {}
      PROVE  FALSE
  <2>1. Bad \in SUBSET Nat
    BY <1>1
  <2>2. PICK k \in Bad : \A j \in Bad : k <= j
    <3>1. PICK B : B = Bad
      OBVIOUS
    <3>2. \E k \in B : \A j \in B : k <= j
      BY <1>3, <2>1, <3>1, LeastIs
    <3> QED
      BY <3>1, <3>2
  <2>3. k \in 0 .. Len(b) /\ ~ SrcsJoin(a \o FirstOf(b, k), a, FirstOf(b, k))
    BY <2>2
  <2>4. CASE k = 0
    <3>1. FirstOf(b, k) = <<>>
      BY <2>4 DEF FirstOf
    <3>2. a \o <<>> = a
      OBVIOUS
    <3>3. Src(a) \in Seq(Nat) /\ Src(<<>>) = <<>>
      BY ProperSeq, SrcIs, NoSegments
    <3>4. PICK w : w = Src(a)
      OBVIOUS
    <3>5. w \o <<>> = w
      BY <3>3, <3>4
    <3> QED
      BY <2>3, <3>1, <3>2, <3>3, <3>4, <3>5 DEF SrcsJoin
  <2>5. CASE k # 0
    <3>1. k \in 1 .. Len(b) /\ k - 1 \in 0 .. Len(b)
      BY <1>1, <2>3, <2>5
    <3>2. PICK f, g, e : f = FirstOf(b, k - 1) /\ g = FirstOf(b, k) /\ e = b[k]
      OBVIOUS
    <3>3. PICK c, d : c = a \o f /\ d = a \o g
      OBVIOUS
    <3>4. f \in Seq(T) /\ g \in Seq(T) /\ c \in Seq(T) /\ d \in Seq(T) /\ Appended(g, f, e) /\ Appended(d, c, e) /\ e \in T
      BY <3>1, <3>2, <3>3, FirstsGrow
    <3>5. SrcsJoin(c, a, f)
      <4>1. k - 1 \notin Bad
        BY <2>1, <2>2, <2>3, <2>5
      <4> QED
        BY <3>1, <3>2, <3>3, <4>1
    <3>6. Proper(e) /\ AreProper(f) /\ AreProper(c) /\ AreProper(a)
      BY <3>4, ProperSeq DEF AllProper
    <3>7. Src(g) = Src(f) \o e.src /\ e.src \in Seq(Nat)
      BY <3>4, <3>6, SrcAppend
    <3>8. Src(d) = Src(c) \o e.src
      BY <3>4, <3>6, SrcAppend
    <3>9. PICK v, w, z : v = Src(a) /\ w = Src(f) /\ z = e.src
      OBVIOUS
    <3>10. v \in Seq(Nat) /\ w \in Seq(Nat) /\ z \in Seq(Nat)
      BY <3>6, <3>7, <3>9, SrcIs
    <3>11. Regroups(v, w, z)
      BY <3>10, Regroup
    <3>12. (v \o w) \o z = v \o (w \o z)
      BY <3>11 DEF Regroups
    <3>13. Src(c) = v \o w
      BY <3>5, <3>9 DEF SrcsJoin
    <3>14. Src(d) = v \o Src(g)
      BY <3>7, <3>8, <3>9, <3>12, <3>13
    <3> QED
      BY <2>3, <3>2, <3>3, <3>9, <3>14 DEF SrcsJoin
  <2> QED
    BY <2>4, <2>5
<1> QED
  BY <1>3

\* The units of each of these.
SrcEach(ss) == [r \in DOMAIN ss |-> Src(ss[r])]
SrcFlat(ss, k) == Src(FlatTo(ss, k)) = FlatTo(SrcEach(ss), k)

\* The units of all the segments are those of the requests, one after the other.
LEMMA SrcFlatten ==
  ASSUME NEW T, AllProper(T), NEW ss \in Seq(Seq(T))
  PROVE  Src(FlattenSeq(ss)) = FlattenSeq(SrcEach(ss)) /\ FlattenSeq(ss) \in Seq(T)
<1>1. PICK n \in Nat : n = Len(ss) /\ DOMAIN ss = 1 .. n
  OBVIOUS
<1>2. PICK tt : tt = SrcEach(ss)
  OBVIOUS
<1>3. tt = [r \in 1 .. n |-> Src(ss[r])] /\ \A r \in 1 .. n : ss[r] \in Seq(T) /\ Src(ss[r]) \in Seq(Nat)
  BY <1>1, <1>2, ProperSeq, SrcIs DEF SrcEach
<1>4. tt \in Seq(Seq(Nat)) /\ Len(tt) = n
  BY <1>1, <1>3
<1>5. /\ FlatTo(ss, 0) = <<>> /\ FlatTo(ss, n) = FlattenSeq(ss)
      /\ \A k \in 1 .. n : FlatTo(ss, k) = FlatTo(ss, k - 1) \o ss[k]
      /\ \A k \in 0 .. n : FlatTo(ss, k) \in Seq(T)
  BY <1>1, FlattenStep
<1>6. /\ FlatTo(tt, 0) = <<>> /\ FlatTo(tt, n) = FlattenSeq(tt)
      /\ \A k \in 1 .. n : FlatTo(tt, k) = FlatTo(tt, k - 1) \o tt[k]
  BY <1>4, FlattenStep
<1> DEFINE Bad == {k \in 0 .. n : ~ SrcFlat(ss, k)}
<1>7. ASSUME Bad # {}
      PROVE  FALSE
  <2>1. Bad \in SUBSET Nat
    BY <1>1
  <2>2. PICK k \in Bad : \A j \in Bad : k <= j
    <3>1. PICK B : B = Bad
      OBVIOUS
    <3>2. \E k \in B : \A j \in B : k <= j
      BY <1>7, <2>1, <3>1, LeastIs
    <3> QED
      BY <3>1, <3>2
  <2>3. k \in 0 .. n /\ ~ SrcFlat(ss, k)
    BY <2>2
  <2>4. CASE k = 0
    BY <1>2, <1>5, <1>6, <2>3, <2>4, NoSegments DEF SrcFlat
  <2>5. CASE k # 0
    <3>1. k \in 1 .. n /\ k - 1 \in 0 .. n
      BY <1>1, <2>3, <2>5
    <3>2. PICK f, g : f = FlatTo(ss, k - 1) /\ g = ss[k]
      OBVIOUS
    <3>3. f \in Seq(T) /\ g \in Seq(T) /\ FlatTo(ss, k) = f \o g
      BY <1>3, <1>5, <3>1, <3>2
    <3>4. SrcFlat(ss, k - 1)
      <4>1. k - 1 \notin Bad
        BY <2>1, <2>2, <2>3, <2>5
      <4> QED
        BY <3>1, <4>1
    <3>5. Src(f) = FlatTo(tt, k - 1)
      BY <1>2, <3>2, <3>4 DEF SrcFlat
    <3>6. SrcsJoin(f \o g, f, g)
      BY <3>3, SrcConcat
    <3>7. Src(f \o g) = Src(f) \o Src(g)
      BY <3>6 DEF SrcsJoin
    <3>8. tt[k] = Src(g)
      BY <1>3, <3>1, <3>2
    <3>9. FlatTo(tt, k) = FlatTo(tt, k - 1) \o tt[k]
      BY <1>6, <3>1
    <3>10. Src(FlatTo(ss, k)) = FlatTo(tt, k)
      BY <3>3, <3>5, <3>7, <3>8, <3>9
    <3> QED
      BY <1>2, <2>3, <3>10 DEF SrcFlat
  <2> QED
    BY <2>4, <2>5
<1>8. SrcFlat(ss, n)
  <2>1. n \in 0 .. n /\ n \notin Bad
    BY <1>1, <1>7
  <2> QED
    BY <2>1
<1>9. FlattenSeq(ss) \in Seq(T)
  <2>1. n \in 0 .. n
    BY <1>1
  <2> QED
    BY <1>5, <2>1
<1> QED
  BY <1>2, <1>5, <1>6, <1>8, <1>9 DEF SrcFlat

\* The segments of the requests of an SRB, and the units of each request.
SegsOf(l) == [r \in DOMAIN l |-> l[r].segs]
Tiled(l, u) ==
  LET all == FlattenSeq(SegsOf(l))
  IN  /\ FlattenSeq([k \in DOMAIN all |-> SegmentUnits(all[k])]) = Units(u)
      /\ \A k \in DOMAIN all : Proper(all[k])

\* Proper segments are so whatever holds them.
LEMMA ShapeProper ==
  ASSUME NEW segs, IsList(segs), AreProper(ShapeOf(segs))
  PROVE  AreProper(segs) /\ Srcs(ShapeOf(segs)) = Srcs(segs)
<1>1. PICK n \in Nat : n = Len(segs) /\ DOMAIN segs = 1 .. n
  BY ListIs
<1>2. PICK h : h = ShapeOf(segs)
  OBVIOUS
<1>3. DOMAIN h = DOMAIN segs /\ \A k \in DOMAIN segs : h[k] = Core(segs[k])
  BY <1>2, ShapeOfIs
<1>4. \A k \in DOMAIN segs : Proper(segs[k])
  <2>1. ASSUME NEW k \in DOMAIN segs
        PROVE  Proper(segs[k])
    <3>1. Proper(h[k]) /\ h[k] = Core(segs[k])
      BY <1>2, <1>3 DEF AreProper
    <3> QED
      BY <3>1, CoreIs
  <2> QED
    BY <2>1
<1>5. Srcs(h) = Srcs(segs)
  <2>1. \A k \in DOMAIN segs : h[k].src = segs[k].src
    BY <1>3, CoreIs
  <2> QED
    BY <1>3, <2>1 DEF Srcs
<1> QED
  BY <1>2, <1>4, <1>5 DEF AreProper

\* The requests of an SRB that is cut as it should be.
LEMMA ShapeSources ==
  ASSUME NEW l, AreOf(l), Cuts(Shape(l))
  PROVE  /\ \A r \in DOMAIN l : AreProper(l[r].segs) /\ Len(l[r].segs) <= MaxSegments
         /\ Sources(Shape(l)) = [r \in DOMAIN l |-> Src(l[r].segs)]
<1>1. PICK h : h = Shape(l)
  OBVIOUS
<1>2. /\ DOMAIN h = DOMAIN l
      /\ \A r \in DOMAIN l : h[r].segs = ShapeOf(l[r].segs) /\ Len(ShapeOf(l[r].segs)) = Len(l[r].segs)
  BY <1>1, ShapeIs
<1>3. ASSUME NEW r \in DOMAIN l
      PROVE  AreProper(l[r].segs) /\ Len(l[r].segs) <= MaxSegments /\ Src(h[r].segs) = Src(l[r].segs)
  <2>1. PICK segs : segs = l[r].segs
    OBVIOUS
  <2>2. IsList(segs)
    BY <2>1 DEF AreOf, IsRequest, AreSegments
  <2>3. AreProper(ShapeOf(segs)) /\ Len(segs) <= MaxSegments
    BY <1>1, <1>2, <2>1 DEF Cuts
  <2>4. AreProper(segs) /\ Srcs(ShapeOf(segs)) = Srcs(segs)
    BY <2>2, <2>3, ShapeProper
  <2>5. Src(ShapeOf(segs)) = Src(segs)
    BY <2>4 DEF Src
  <2> QED
    BY <1>2, <2>1, <2>3, <2>4, <2>5
<1>4. Sources(h) = [r \in DOMAIN l |-> Src(l[r].segs)]
  BY <1>2, <1>3 DEF Sources
<1> QED
  BY <1>1, <1>3, <1>4

\* When they are complete they are the units of the list.
LEMMA ListIsTiled ==
  ASSUME NEW l, AreOf(l), NEW u, Cuts(Shape(l)), Complete(Shape(l), u)
  PROVE  Tiled(l, u)
<1>1. PICK n \in Nat : n = Len(l) /\ DOMAIN l = 1 .. n
  BY ListIs DEF AreOf
<1>2. PICK ss : ss = SegsOf(l)
  OBVIOUS
<1>3. ss = [r \in 1 .. n |-> l[r].segs]
  BY <1>1, <1>2 DEF SegsOf
<1>4. \A r \in 1 .. n : AreProper(ss[r])
  BY <1>1, <1>3, ShapeSources
<1>5. PICK T : T = UNION {{ss[r][k] : k \in DOMAIN ss[r]} : r \in 1 .. n}
  OBVIOUS
<1>6. \A r \in 1 .. n : \A k \in DOMAIN ss[r] : ss[r][k] \in T
  BY <1>5
<1>7. AllProper(T)
  <2>1. ASSUME NEW g \in T
        PROVE  Proper(g)
    <3>1. PICK r \in 1 .. n : \E k \in DOMAIN ss[r] : g = ss[r][k]
      BY <1>5
    <3>2. PICK k \in DOMAIN ss[r] : g = ss[r][k]
      BY <3>1
    <3> QED
      BY <1>4, <3>2 DEF AreProper
  <2> QED
    BY <2>1 DEF AllProper
<1>8. \A r \in 1 .. n : ss[r] \in Seq(T)
  BY <1>4, <1>6, ListIsSeq DEF AreProper
<1>9. ss \in Seq(Seq(T)) /\ DOMAIN ss = DOMAIN l
  BY <1>1, <1>3, <1>8
<1>10. PICK all : all = FlattenSeq(ss)
  OBVIOUS
<1>11. Src(all) = FlattenSeq(SrcEach(ss)) /\ all \in Seq(T)
  BY <1>7, <1>9, <1>10, SrcFlatten
<1>12. SrcEach(ss) = Sources(Shape(l))
  <2>1. SrcEach(ss) = [r \in DOMAIN l |-> Src(l[r].segs)]
    BY <1>1, <1>3 DEF SrcEach
  <2> QED
    BY <2>1, ShapeSources
<1>13. \A k \in DOMAIN all : Proper(all[k])
  BY <1>7, <1>11 DEF AllProper
<1>14. [k \in DOMAIN all |-> SegmentUnits(all[k])] = Srcs(all)
  BY <1>13 DEF Srcs, Proper
<1>15. FlattenSeq([k \in DOMAIN all |-> SegmentUnits(all[k])]) = Units(u)
  <2>1. FlattenSeq(Srcs(all)) = Src(all)
    BY DEF Src
  <2>2. FlattenSeq(SrcEach(ss)) = Units(u)
    BY <1>12 DEF Complete
  <2> QED
    BY <1>11, <1>14, <2>1, <2>2
<1> QED
  BY <1>2, <1>10, <1>13, <1>15 DEF Tiled

\* Where the r-th request of these starts.
StartsAt(l, r) ==
  l[r].first * SectorSize = Len(FlattenSeq([p \in 1 .. r - 1 |-> FlattenSeq([k \in DOMAIN l[p].segs |-> l[p].segs[k].src])]))

\* So it does, with as many segments as it may have.
LEMMA RequestFits ==
  ASSUME NEW l, AreOf(l), NEW u, Cuts(Shape(l)), Complete(Shape(l), u), NEW r \in DOMAIN l
  PROVE  Len(l[r].segs) \in 1 .. MaxSegments /\ StartsAt(l, r)
<1>1. PICK h : h = Shape(l)
  OBVIOUS
<1>2. DOMAIN h = DOMAIN l /\ h[r].first = l[r].first /\ h[r].segs = ShapeOf(l[r].segs) /\ Len(ShapeOf(l[r].segs)) = Len(l[r].segs)
  BY <1>1, ShapeIs
<1>3. Len(l[r].segs) > 0 /\ Len(l[r].segs) <= MaxSegments /\ l[r].first * SectorSize = Len(FlatTo(Sources(h), r - 1))
  BY <1>1, <1>2 DEF Complete, Cuts
<1>4. Len(l[r].segs) \in Nat
  BY DEF AreOf, IsRequest, AreSegments, IsList
<1>5. Len(l[r].segs) \in 1 .. MaxSegments
  BY <1>3, <1>4, PrepareAssumption
<1>6. PICK n \in Nat : n = Len(l) /\ DOMAIN l = 1 .. n
  BY ListIs DEF AreOf
<1>7. \A p \in 1 .. r - 1 : p \in DOMAIN l
  BY <1>6
<1>8. Sources(h) = [p \in DOMAIN l |-> Src(l[p].segs)]
  BY <1>1, ShapeSources
<1>9. FirstOf(Sources(h), r - 1) = [p \in 1 .. r - 1 |-> FlattenSeq([k \in DOMAIN l[p].segs |-> l[p].segs[k].src])]
  BY <1>7, <1>8 DEF FirstOf, Src, Srcs
<1>10. StartsAt(l, r)
  BY <1>3, <1>9 DEF StartsAt, FlatTo
<1> QED
  BY <1>5, <1>10

\* The property the runs check, of any state the invariants describe.
LEMMA InvTiles ==
  ASSUME PInv, TileInv
  PROVE  RequestsTile
<1>1. bug = "none"
  BY TileParts
<1>2. ASSUME NEW s \in Srbs, status[s] \in {"prepared", "good", "error"}
      PROVE  /\ FlattenSeq([k \in DOMAIN Listed(s) |-> SegmentUnits(Listed(s)[k])]) = Units(list[s])
             /\ \A k \in DOMAIN Listed(s) : Listed(s)[k].last < SectorsPerPage /\ Cardinality(Extent(Listed(s)[k])) = Len(Listed(s)[k].src)
             /\ \A r \in DOMAIN requests[s] : Len(requests[s][r].segs) \in 1 .. MaxSegments /\ StartsAt(requests[s], r)
  <2>1. PICK l, u : l = requests[s] /\ u = list[s]
    OBVIOUS
  <2>2. AreOf(l)
    BY <2>1, RequestsAre
  <2>3. Cuts(Shape(l)) /\ Complete(Shape(l), u)
    BY <1>2, <2>1, TileParts DEF Filed, Done
  <2>4. Tiled(l, u)
    BY <2>2, <2>3, ListIsTiled
  <2>5. PICK all : all = Listed(s)
    OBVIOUS
  <2>6. all = FlattenSeq(SegsOf(l))
    BY <2>1, <2>5 DEF Listed, SegsOf
  <2>7. FlattenSeq([k \in DOMAIN all |-> SegmentUnits(all[k])]) = Units(u) /\ \A k \in DOMAIN all : Proper(all[k])
    BY <2>4, <2>6 DEF Tiled
  <2>8. \A k \in DOMAIN all : all[k].last < SectorsPerPage /\ Cardinality(Extent(all[k])) = Len(all[k].src)
    BY <2>7 DEF Proper
  <2>9. \A r \in DOMAIN l : Len(l[r].segs) \in 1 .. MaxSegments /\ StartsAt(l, r)
    BY <2>2, <2>3, RequestFits
  <2> QED
    BY <2>1, <2>5, <2>7, <2>8, <2>9
<1> QED
  BY <1>1, <1>2 DEF RequestsTile, StartsAt

\* The segments of an SRB that is prepared are, in their order, the units of its
\* scatter-gather list, each once, and the ASSERTs hold, for any lists of buffers that
\* are virtually contiguous and of whole sectors, and any sizes (pdo.c:884-1128).
THEOREM RequestsAreTiled == Spec => []RequestsTile
<1>1. PInv /\ TileInv => RequestsTile
  BY InvTiles
<1> QED
  BY <1>1, TilesHold, PTL
=============================================================================
