------------------------------ MODULE CrashIo -------------------------------
(***************************************************************************)
(* The crash-dump driver at work (src/xencrsh/pdo.c, queue.c, buffer.c,    *)
(* gnttab.c, frontend.c 110-306, fdo.c 284-483, driver.c 141-217), on the  *)
(* disk that CrashFrontend brings up.                                      *)
(*                                                                         *)
(* The dump stack calls HwStartIo and polls HwInterrupt, from one thread   *)
(* with every other processor frozen: nothing of the driver runs           *)
(* concurrently, and it takes no locks.  The backend is a process of its   *)
(* own that shares the ring.                                               *)
(*                                                                         *)
(* A data SRB is a sequence of segments, TRUE for one that needs a bounce  *)
(* buffer, cut into at most two requests of SegsPerRequest segments.       *)
(***************************************************************************)
EXTENDS CrashFrontend, SequencesExt

CONSTANTS
  Srbs,           \* the SRBs the dump stack sends
  Shapes,         \* the segments a data SRB may have
  SegsPerRequest, \* BLKIF_MAX_SEGMENTS_PER_REQUEST
  NumBuffers,     \* NUM_BUFFERS
  NumGrants,      \* GNTTAB_ENTRY_PER_FRAME - GNTTAB_RESERVED_ENTRY_COUNT, but for the ring's
  NrEnts,         \* FrontRing.nr_ents
  IndexLimit,     \* 2^w, for ring indices of w bits
  MaxCalls        \* bound: SRBs that are issued

\* MaximumTransferLength keeps an SRB within two requests.
ASSUME CrashIoAssumption ==
  /\ IsFiniteSet(Srbs) /\ "none" \notin Srbs
  /\ SegsPerRequest \in Nat \ {0}
  /\ \A shape \in Shapes : shape \in Seq(BOOLEAN) /\ Len(shape) \in 1 .. 2 * SegsPerRequest
  /\ {NumBuffers, NumGrants, MaxCalls} \subseteq Nat \ {0}
  /\ NrEnts \in Nat \ {0}
  /\ IndexLimit \in Nat /\ IndexLimit % NrEnts = 0 /\ IndexLimit >= 2 * NrEnts

VARIABLES
  srb,      \* the SRBs and their extensions
  queue,    \* FreshSrbs, PreparedSrbs, SubmittedSrbs and ShutdownSrbs
  buffers,  \* the free list of __Buffer
  grants,   \* the free list of GnttabContext
  shared,   \* the shared ring
  priv,     \* FrontRing: req_prod_pvt, rsp_cons
  ipc,      \* where the driver is: "idle" between two calls of the dump stack, "fault" after
            \* a use of the ring that is not there
  then,     \* "startIo", or where it goes on after FrontendEvtchnCallback
  scan,     \* rsp_cons and rsp_prod of FrontendCompleteResponses
  resetting,\* the SRB of the reset in progress, or "none"
  backend,  \* the backend's thread: mode, event, req_cons, requests in progress
  calls     \* SRBs that were issued

ioVars == <<srb, queue, buffers, grants, shared, priv, ipc, then, scan, resetting, backend, calls>>
-----------------------------------------------------------------------------
Queues == {"fresh", "prepared", "submitted", "shutdown"}
DataKinds == {"readWrite", "sync"}
Plus(i, n) == (i + n) % IndexLimit
Minus(i, j) == (i + IndexLimit - j) % IndexLimit
Slot(i) == i % NrEnts
NoSlot == [type |-> "zero", s |-> "none", r |-> 0]

NoScan == [cons |-> 0, prod |-> 0]
NewSrb == [kind |-> "none", shape |-> <<>>, segs |-> <<>>, left |-> 0, state |-> "out", after |-> {}]

\* BufferInitialize and GnttabInitialize.
IoInit ==
  /\ srb = [s \in Srbs |-> NewSrb]
  /\ queue = [q \in Queues |-> <<>>]
  /\ buffers = 1 .. NumBuffers
  /\ grants = 1 .. NumGrants
  /\ shared = [slot |-> [i \in 0 .. NrEnts - 1 |-> NoSlot],
               reqProd |-> 0, reqEvent |-> 1, rspProd |-> 0]
  /\ priv = [reqProd |-> 0, rspCons |-> 0]
  /\ ipc = "idle" /\ then = "idle"
  /\ scan = NoScan
  /\ resetting = "none"
  /\ backend = [mode |-> "asleep", event |-> FALSE, reqCons |-> 0, doing |-> {}]
  /\ calls = 0
-----------------------------------------------------------------------------
(* Segments, requests and what they hold. *)

NrRequests(n) == (n + SegsPerRequest - 1) \div SegsPerRequest
\* The request a segment belongs to.
RequestOf(k) == (k - 1) \div SegsPerRequest + 1

\* The segments that must bounce.
Bounced(shape) == {k \in DOMAIN shape : shape[k]}
\* Some of those that are free, each for one segment.
OneEach(ks, free) == CHOOSE f \in [ks -> free] : IsInjective(f)

\* PrepareReadWrite gets a buffer for each segment that must bounce, and a grant for each.
Affordable(shape) ==
  Cardinality(Bounced(shape)) <= Cardinality(buffers) /\ Cardinality(DOMAIN shape) <= Cardinality(grants)
\* MmMapLockedPagesSpecifyCache, for the segments that bounce, may fail.
Mappings(shape) == IF Bounced(shape) = {} THEN {TRUE} ELSE BOOLEAN
NewSegs(shape) ==
  LET gref == OneEach(DOMAIN shape, grants)
      buf == OneEach(Bounced(shape), buffers)
  IN  [k \in DOMAIN shape |-> [gref |-> gref[k], buf |-> IF shape[k] THEN buf[k] ELSE 0]]

Grefs(segs, ks) == {segs[k].gref : k \in ks} \ {0}
Bufs(segs, ks) == {segs[k].buf : k \in ks} \ {0}
NoSeg == [gref |-> 0, buf |-> 0]
SegsOf(s, r) == {k \in DOMAIN srb[s].segs : RequestOf(k) = r}

\* QueueInsertTail, QueuePop and QueueRemove, and the state that names the queue.
Queued(qs, q, s) == [qs EXCEPT ![q] = Append(@, s)]
Popped(qs, q) == [qs EXCEPT ![q] = Tail(@)]
Without(qs, q, s) == [qs EXCEPT ![q] = RemoveAt(@, CHOOSE i \in DOMAIN @ : @[i] = s)]
Pending == {s \in Srbs : srb[s].kind \in DataKinds /\ srb[s].state \in Queues}

\* FdoCompleteSrb.  With which SrbStatus is left out.
Done(x) == [NewSrb EXCEPT !.after = x.after]

\* EventChannelSend: the event wakes the backend's thread, or is pending until it sleeps.
Notified(b) == IF b.mode = "asleep" THEN [b EXCEPT !.mode = "awake"] ELSE [b EXCEPT !.event = TRUE]
Io(l) == ipc' = l
-----------------------------------------------------------------------------
(* HwBuildIo and HwStartIo. *)

CanStart(s) == /\ fpc = "up" /\ target # "none"
               /\ ipc = "idle"
               /\ srb[s].state = "out"
               /\ calls < MaxCalls /\ calls' = calls + 1

\* An SRB that comes again is another one to those issued before it.
With(s, x) == [y \in Srbs |-> IF y = s THEN x ELSE [srb[y] EXCEPT !.after = @ \ {s}]]
Issued(kind, shape) == [NewSrb EXCEPT !.kind = kind, !.shape = shape]

\* PrepareReadWrite and PrepareSyncCache: the SRB goes to PreparedSrbs.
Prepared(s, srbs, q) ==
  LET sync == srbs[s].kind = "sync"
      segs == IF sync THEN <<>> ELSE NewSegs(srbs[s].shape)
      left == IF sync THEN 1 ELSE NrRequests(Len(srbs[s].shape))
  IN  /\ srb' = [srbs EXCEPT ![s] = [@ EXCEPT !.segs = segs, !.left = left, !.state = "prepared"]]
      /\ queue' = Queued(q, "prepared", s)
      /\ buffers' = buffers \ Bufs(segs, DOMAIN segs)
      /\ grants' = grants \ Grefs(segs, DOMAIN segs)

\* PdoReadWrite and PdoSyncCache of a target that is connected.
StartData(s) ==
  /\ CanStart(s) /\ connected
  /\ \E shape \in Shapes \cup {<<>>} : \E mdl \in Mappings(shape) :
       LET x == Issued(IF shape = <<>> THEN "sync" ELSE "readWrite", shape)
       IN  IF shape = <<>> \/ (mdl /\ Affordable(shape))
           THEN /\ Prepared(s, With(s, x), queue)
                /\ Io("submit") /\ then' = "startIo"
                /\ UNCHANGED backend
           ELSE /\ srb' = With(s, [x EXCEPT !.state = "fresh"])
                /\ queue' = Queued(queue, "fresh", s)
                /\ backend' = Notified(backend)
                /\ UNCHANGED <<buffers, grants, ipc, then>>
  /\ UNCHANGED <<shared, priv, scan, resetting>>

\* An SRB that PdoStartIo completes at once: a target not connected, sectors beyond the
\* end, or a command that reads no disk.
StartOther(s) ==
  /\ CanStart(s)
  /\ srb' = With(s, Done(Issued("other", <<>>)))
  /\ UNCHANGED <<queue, buffers, grants, shared, priv, ipc, then, scan, resetting, backend>>

\* FLUSH and SHUTDOWN: PdoQueueShutdown.
StartFlush(s) ==
  /\ CanStart(s)
  /\ srb' = With(s, [Issued("flush", <<>>) EXCEPT !.after = Pending, !.state = "shutdown"])
  /\ queue' = Queued(queue, "shutdown", s)
  /\ backend' = IF connected THEN Notified(backend) ELSE backend
  /\ UNCHANGED <<buffers, grants, shared, priv, ipc, then, scan, resetting>>

\* RESET_DEVICE and RESET_BUS: PdoReset completes what is on FreshSrbs, and waits.
StartReset(s) ==
  /\ CanStart(s)
  /\ LET issued == With(s, [Issued("reset", <<>>) EXCEPT !.state = "reset"])
     IN  srb' = [x \in Srbs |-> IF issued[x].state = "fresh" THEN Done(issued[x]) ELSE issued[x]]
  /\ queue' = [queue EXCEPT !["fresh"] = <<>>]
  /\ resetting' = s
  /\ Io("reset")
  /\ UNCHANGED <<buffers, grants, shared, priv, then, scan, backend>>
-----------------------------------------------------------------------------
(* FrontendEvtchnCallback: from HwInterrupt, or from PdoReset. *)

\* FrontendCompleteResponses takes rsp_prod, and goes through the responses up to it.
Scan(cons) == Io("response") /\ scan' = [cons |-> cons, prod |-> shared.rspProd]

\* Without a ring, rsp_prod is read through NULL.
Callback(next) ==
  /\ then' = next
  /\ IF ring.page THEN Scan(priv.rspCons) ELSE Io("fault") /\ UNCHANGED scan

Interrupt ==
  /\ fpc = "up" /\ target # "none"
  /\ ipc = "idle"
  /\ Callback("idle")
  /\ UNCHANGED <<srb, queue, buffers, grants, shared, priv, resetting, backend>>

\* A mutant: the loop ends before the last segment.
CleanupButLast(s, r) == SegsOf(s, r) \ {Len(srb[s].segs)}

\* __CleanupRequest: the segments it ungrants and whose buffers it frees.
CleanupRequest(s, r) == SegsOf(s, r)

\* PdoCompleteSubmittedRequest.  An error of the backend is logged, no more.
Completed(x, ks) ==
  LET y == [x EXCEPT !.left = @ - 1, !.segs = [k \in DOMAIN @ |-> IF k \in ks THEN NoSeg ELSE @[k]]]
  IN  IF y.left = 0 THEN Done(y) ELSE y

Response ==
  /\ ipc = "response"
  /\ scan.cons # scan.prod
  /\ LET rsp == shared.slot[Slot(scan.cons)]
         s == rsp.s
         ks == CleanupRequest(s, rsp.r)
     IN  IF s = "none"
         THEN UNCHANGED <<srb, queue, buffers, grants>>
         ELSE /\ srb' = [srb EXCEPT ![s] = Completed(@, ks)]
              /\ buffers' = buffers \cup Bufs(srb[s].segs, ks)
              /\ grants' = grants \cup Grefs(srb[s].segs, ks)
              /\ queue' = IF srb'[s].state = "out" THEN Without(queue, "submitted", s) ELSE queue
  /\ shared' = [shared EXCEPT !.slot[Slot(scan.cons)] = NoSlot]
  /\ scan' = [scan EXCEPT !.cons = Plus(@, 1)]
  /\ UNCHANGED <<priv, ipc, then, resetting, backend>>

\* The responses are done: __FinalCheckForResponses looks, asks for an event
\* (rsp_event, left out: the driver is polled), and looks again.
FinalCheck ==
  /\ ipc = "response"
  /\ scan.cons = scan.prod
  /\ priv' = [priv EXCEPT !.rspCons = scan.cons]
  /\ IF shared.rspProd # scan.cons THEN Scan(scan.cons) ELSE Io("recheck") /\ scan' = NoScan
  /\ UNCHANGED <<srb, queue, buffers, grants, shared, then, resetting, backend>>

Rechecked(l) == IF shared.rspProd # priv.rspCons THEN Scan(priv.rspCons) ELSE Io(l) /\ UNCHANGED scan

Recheck ==
  /\ ipc = "recheck"
  /\ Rechecked(IF queue["fresh"] # <<>> THEN "fresh" ELSE "submit")
  /\ UNCHANGED <<srb, queue, buffers, grants, shared, priv, then, resetting, backend>>

\* PdoPrepareFresh: an SRB that still cannot be prepared is on no queue any more.
PrepareFresh ==
  /\ ipc = "fresh"
  /\ LET s == Head(queue["fresh"])
         q == Popped(queue, "fresh")
     IN  \E mdl \in Mappings(srb[s].shape) :
           IF mdl /\ Affordable(srb[s].shape)
           THEN Prepared(s, srb, q)
           ELSE /\ srb' = [srb EXCEPT ![s].state = "lost"]
                /\ queue' = q
                /\ UNCHANGED <<buffers, grants>>
  /\ Io(IF queue'["fresh"] # <<>> THEN "fresh" ELSE "submit")
  /\ UNCHANGED <<shared, priv, then, scan, resetting, backend>>

\* A mutant: the responses not yet read are not counted.
CanSubmitPublished(n) == NrEnts - Minus(priv.reqProd, shared.rspProd) > n

\* FrontendCanSubmitRequest.
CanSubmit(n) == NrEnts - Minus(priv.reqProd, priv.rspCons) > n

Written(s, n) == [i \in DOMAIN shared.slot |->
                    LET rs == {r \in 1 .. n : Slot(Plus(priv.reqProd, r - 1)) = i}
                    IN  IF rs = {} THEN shared.slot[i]
                        ELSE [type |-> "request", s |-> s, r |-> CHOOSE r \in rs : TRUE]]

\* A mutant: the index must be the one asked for.
MustNotifyOld(old, new) == new = shared.reqEvent

MustNotify(old, new) == Minus(new, shared.reqEvent) < Minus(new, old)

\* PdoSubmitPrepared, for one SRB: FrontendInsertRequestOnRing for each request, and
\* FrontendPushRequestAndCheckNotify.
Submit ==
  /\ ipc = "submit"
  /\ queue["prepared"] # <<>>
  /\ LET s == Head(queue["prepared"])
         n == srb[s].left
         new == Plus(priv.reqProd, n)
     IN  /\ CanSubmit(n)
         /\ shared' = [shared EXCEPT !.slot = Written(s, n), !.reqProd = new]
         /\ priv' = [priv EXCEPT !.reqProd = new]
         /\ queue' = Queued(Popped(queue, "prepared"), "submitted", s)
         /\ srb' = [srb EXCEPT ![s].state = "submitted"]
         /\ backend' = IF MustNotify(shared.reqProd, new) THEN Notified(backend) ELSE backend
  /\ UNCHANGED <<buffers, grants, ipc, then, scan, resetting>>

\* PdoCompleteShutdown waits for the other queues.
NoneBefore == \A q \in Queues \ {"shutdown"} : queue[q] = <<>>

\* The queue is empty, or the ring is full: PdoStartIo returns, or the callback ends with
\* PdoCompleteShutdown.
SubmitEnds ==
  /\ ipc = "submit"
  /\ queue["prepared"] # <<>> => ~CanSubmit(srb[Head(queue["prepared"])].left)
  /\ IF then # "startIo" /\ NoneBefore
     THEN /\ srb' = [s \in Srbs |-> IF srb[s].state = "shutdown" THEN Done(srb[s]) ELSE srb[s]]
          /\ queue' = [queue EXCEPT !["shutdown"] = <<>>]
     ELSE UNCHANGED <<srb, queue>>
  /\ Io(IF then = "startIo" THEN "idle" ELSE then)
  /\ then' = "idle"
  /\ UNCHANGED <<buffers, grants, shared, priv, scan, resetting, backend, calls>>
-----------------------------------------------------------------------------
(* PdoReset: callbacks until PreparedSrbs and SubmittedSrbs are empty, and one more. *)

Waiting == queue["prepared"] # <<>> \/ queue["submitted"] # <<>>

ResetLoop ==
  /\ ipc = "reset"
  /\ Callback(IF Waiting THEN "resetSend" ELSE "resetEnd")
  /\ UNCHANGED <<srb, queue, buffers, grants, shared, priv, resetting, backend>>

ResetSend ==
  /\ ipc = "resetSend"
  /\ backend' = Notified(backend)
  /\ Io("reset")
  /\ UNCHANGED <<srb, queue, buffers, grants, shared, priv, then, scan, resetting>>

ResetEnd ==
  /\ ipc = "resetEnd"
  /\ backend' = Notified(backend)
  /\ srb' = [srb EXCEPT ![resetting] = Done(@)]
  /\ resetting' = "none"
  /\ Io("idle")
  /\ UNCHANGED <<queue, buffers, grants, shared, priv, then, scan>>
-----------------------------------------------------------------------------
(* The backend's thread: woken by an event, it takes requests, answers them in any      *)
(* order, and sleeps after RING_FINAL_CHECK_FOR_REQUESTS.                               *)

Serves == mapped[dump] = "new" /\ back[dump] = "connected"
\* No call of the driver depends on the event the backend sends for its responses.
driverIo == <<srb, queue, buffers, grants, priv, ipc, then, scan, resetting>>

\* What stays in the slot of a request that was taken is left out.
BackendTakes ==
  /\ backend.mode = "awake"
  /\ backend.reqCons # shared.reqProd
  /\ LET req == shared.slot[Slot(backend.reqCons)]
     IN  /\ backend' = [backend EXCEPT !.doing = @ \cup {[s |-> req.s, r |-> req.r]}, !.reqCons = Plus(@, 1)]
         /\ shared' = [shared EXCEPT !.slot[Slot(backend.reqCons)] = NoSlot]
  /\ UNCHANGED driverIo

\* req_event, and a last look.
BackendAsks ==
  /\ backend.mode = "awake" /\ backend.reqCons = shared.reqProd
  /\ shared' = [shared EXCEPT !.reqEvent = Plus(backend.reqCons, 1)]
  /\ backend' = [backend EXCEPT !.mode = "checking"]
  /\ UNCHANGED driverIo

BackendSleeps ==
  /\ backend.mode = "checking"
  /\ LET goesOn == backend.reqCons # shared.reqProd
     IN  backend' = [backend EXCEPT !.mode = IF goesOn \/ backend.event THEN "awake" ELSE "asleep",
                                    !.event = goesOn /\ backend.event]
  /\ UNCHANGED <<shared, driverIo>>

\* The disk has done a request, or failed it: the driver makes nothing of the difference.
BackendAnswers ==
  /\ \E q \in backend.doing :
       /\ backend' = [backend EXCEPT !.doing = @ \ {q}]
       /\ shared' = [shared EXCEPT !.slot[Slot(shared.rspProd)] = [type |-> "response", s |-> q.s, r |-> q.r],
                                   !.rspProd = Plus(@, 1)]
  /\ UNCHANGED driverIo
-----------------------------------------------------------------------------
HwStartIo == \E s \in Srbs : StartData(s) \/ StartOther(s) \/ StartFlush(s) \/ StartReset(s)
EvtchnCallback == Response \/ FinalCheck \/ Recheck \/ PrepareFresh \/ Submit \/ SubmitEnds
Reset == ResetLoop \/ ResetSend \/ ResetEnd
Serving == Serves /\ (BackendTakes \/ BackendAsks \/ BackendSleeps \/ BackendAnswers)

Continuing == Interrupt \/ EvtchnCallback \/ Reset
IoNext == HwStartIo \/ ((Continuing \/ Serving) /\ UNCHANGED calls)

vars == <<feVars, ioVars>>
Init == FrontendInit /\ IoInit
Next == (FrontendNext /\ UNCHANGED ioVars) \/ (IoNext /\ UNCHANGED feVars)
Spec == Init /\ [][Next]_vars

\* The driver's thread goes on while it has a step; the dump stack polls while it waits;
\* a backend acts on what it is told and answers what it takes.
FairSpec ==
  /\ Spec
  /\ WF_vars(FdoInitialize /\ UNCHANGED ioVars)
  /\ \A d \in Disks : WF_vars(Backend(d) /\ UNCHANGED ioVars)
  /\ WF_vars(Continuing /\ UNCHANGED <<calls, feVars>>)
  /\ WF_vars(Serves /\ (BackendTakes \/ BackendAsks \/ BackendSleeps) /\ UNCHANGED <<calls, feVars>>)
  /\ WF_vars(Serves /\ BackendAnswers /\ UNCHANGED <<calls, feVars>>)
-----------------------------------------------------------------------------
(* Properties. *)

Requests(s) == {[s |-> s, r |-> r] : r \in 1 .. NrRequests(Len(srb[s].shape))}
               \cup IF srb[s].kind = "sync" THEN {[s |-> s, r |-> 1]} ELSE {}
\* The ring's requests that the backend has not taken, in order, and its answers not yet read.
Unread == [k \in 1 .. Minus(shared.reqProd, backend.reqCons) |-> shared.slot[Slot(Plus(backend.reqCons, k - 1))]]
ReadUpTo == IF ipc = "response" THEN scan.cons ELSE priv.rspCons
Unseen == [k \in 1 .. Minus(shared.rspProd, ReadUpTo) |-> shared.slot[Slot(Plus(ReadUpTo, k - 1))]]
Call(x) == [s |-> x.s, r |-> x.r]
WithBackend == {Call(Unread[k]) : k \in DOMAIN Unread} \cup backend.doing
InFlight == WithBackend \cup {Call(Unseen[k]) : k \in DOMAIN Unseen}

IoTypeOK ==
  /\ \A s \in Srbs : /\ srb[s].kind \in {"none", "readWrite", "sync", "flush", "reset", "other"}
                     /\ srb[s].state \in {"out", "lost", "reset"} \cup Queues
                     /\ srb[s].left \in 0 .. 2 /\ srb[s].after \subseteq Srbs
                     /\ \A k \in DOMAIN srb[s].segs : srb[s].segs[k] \in [gref : 0 .. NumGrants, buf : 0 .. NumBuffers]
  /\ queue \in [Queues -> Seq(Srbs)]
  /\ buffers \subseteq 1 .. NumBuffers /\ grants \subseteq 1 .. NumGrants
  /\ {shared.reqProd, shared.reqEvent, shared.rspProd} \subseteq 0 .. IndexLimit - 1
  /\ {priv.reqProd, priv.rspCons, scan.cons, scan.prod, backend.reqCons} \subseteq 0 .. IndexLimit - 1
  /\ resetting \in Srbs \cup {"none"} /\ backend.mode \in {"awake", "checking", "asleep"}

(* The ring carries each request of the submitted SRBs that is not yet answered, once,  *)
(* and nothing else: no slot is overwritten before it is read, in either direction, and *)
(* no answer is taken twice or for an SRB that was completed (frontend.c:163-306,       *)
(* pdo.c:560-590).                                                                      *)
RingCarries ==
  LET unread == Unread
      unseen == Unseen
      flight == InFlight
      count == Len(unread) + Cardinality(backend.doing) + Len(unseen)
  IN  /\ count = Cardinality(flight) /\ count <= NrEnts
      /\ \A k \in DOMAIN unread : unread[k].type = "request"
      /\ \A k \in DOMAIN unseen : unseen[k].type = "response"
      /\ \A s \in Srbs :
           LET mine == {q \in flight : q.s = s}
           IN  /\ Cardinality(mine) = IF srb[s].state = "submitted" THEN srb[s].left ELSE 0
               /\ mine \subseteq Requests(s)

(* The pages the backend may read or write are granted, and their bounce buffers are    *)
(* theirs alone, from before the request is on the ring until its answer is read        *)
(* (pdo.c:206-233, 358-509, 613-662).                                                   *)
GrantedWhileWithBackend ==
  \A q \in InFlight : \A k \in SegsOf(q.s, q.r) :
    LET seg == srb[q.s].segs[k]
    IN  /\ seg.gref \in 1 .. NumGrants \ grants
        /\ srb[q.s].shape[k] => seg.buf \in 1 .. NumBuffers \ buffers
        /\ \A x \in Srbs : \A j \in DOMAIN srb[x].segs : <<x, j>> # <<q.s, k>> =>
             srb[x].segs[j].gref # seg.gref /\ (seg.buf # 0 => srb[x].segs[j].buf # seg.buf)

(* Grants and buffers are each on their free list or held by one segment: the errors of *)
(* PrepareReadWrite and the completions give back all and only what was taken           *)
(* (pdo.c:445-490, buffer.c:100-148, gnttab.c:168-213).                                 *)
NothingLeaks ==
  /\ grants \cup UNION {Grefs(srb[s].segs, DOMAIN srb[s].segs) : s \in Srbs} = 1 .. NumGrants
  /\ buffers \cup UNION {Bufs(srb[s].segs, DOMAIN srb[s].segs) : s \in Srbs} = 1 .. NumBuffers
  /\ \A s \in Srbs : srb[s].state \in {"out", "fresh", "lost"} =>
       Grefs(srb[s].segs, DOMAIN srb[s].segs) = {} /\ Bufs(srb[s].segs, DOMAIN srb[s].segs) = {}

(* Every page and grant has one owner at any time, the backend's until it has answered  *)
(* (pdo.c:206-233, 358-509).                                                            *)
MemoryOwned == IoTypeOK /\ GrantedWhileWithBackend /\ NothingLeaks

(* A FLUSH or SHUTDOWN is completed when every SRB issued before it is off the queues:  *)
(* what the dump wrote is on the disk (pdo.c:592-611).                                  *)
FlushAfterData ==
  \A s \in Srbs : srb[s].state = "out" =>
    \A x \in srb[s].after : srb[x].state \in {"out", "lost"}

(* What the driver hands to the backend is taken once, and in time for the flush that   *)
(* comes after it (pdo.c:560-611, frontend.c:163-306).                                  *)
TrafficSound == RingCarries /\ FlushAfterData

(* An SRB that a connected target takes leaves the driver in the end: behind a full     *)
(* ring, for want of buffers, behind other SRBs or with the backend, whose thread misses*)
(* no notification between its last look at the ring and its sleep (frontend.c:224-306, *)
(* pdo.c:534-611, 1020-1056).                                                           *)
SrbsEnd ==
  \A s \in Srbs : connected /\ srb[s].state \in Queues \cup {"reset"} ~> srb[s].state \in {"out", "lost"}
=============================================================================
