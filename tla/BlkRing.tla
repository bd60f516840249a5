------------------------------- MODULE BlkRing -------------------------------
(***************************************************************************)
(* The shared blkif ring and its notifications: the macros of              *)
(* include/xen/io/ring.h as frontend.c uses them, memory access by memory  *)
(* access, and the event channel that queues EvtchnDpc.                    *)
(*                                                                         *)
(* Requests and responses share the slots of one ring of RingSize entries. *)
(* The frontend publishes requests through req_prod, the backend responses *)
(* through rsp_prod; each end sleeps after it has asked, through rsp_event *)
(* or req_event, for a notification of the next entry.                     *)
(*                                                                         *)
(* A CPU runs StartIo's submit loop or the DPC.  RingLock covers putting   *)
(* requests on the ring and reading responses, but not FrontendPushRequests*)
(* (frontend.c:540).  The backend is external: it follows the protocol.    *)
(***************************************************************************)
EXTENDS Naturals, Sequences, FiniteSets

CONSTANTS
  Cpus,       \* the virtual CPUs
  Ids,        \* addresses of XENVBD_REQUESTs, the id of a request on the ring
  RingSize,   \* RING_SIZE, a power of two in the code
  IndexSpan,  \* the indices wrap at this: 2^32 in the code
  MaxBatch,   \* bound: the requests one SRB is cut into
  None        \* no CPU, no id

ASSUME RingAssumption ==
  /\ None \notin Cpus \cup Ids
  /\ RingSize \in Nat \ {0} /\ MaxBatch \in Nat \ {0}
  /\ IndexSpan \in Nat /\ IndexSpan % RingSize = 0 /\ IndexSpan >= 2 * RingSize

VARIABLES
  slots,                \* sring->ring: an id in each slot
  reqProd, reqEvent,    \* sring->req_prod, req_event
  rspProd, rspEvent,    \* sring->rsp_prod, rsp_event
  reqProdPvt, rspCons,  \* FrontRing.req_prod_pvt, rsp_cons
  pc,                   \* per CPU: where it is
  inDpc,                \* per CPU: it runs EvtchnDpcFunc
  inUse,                \* ids of requests allocated and not yet freed
  old, new,             \* per CPU: __old and __new of RING_PUSH_REQUESTS
  cons, limit,          \* the local rsp_cons and rsp_prod of the response loop
  ringLock,             \* the CPU holding RingLock across steps
  dpc,                  \* EvtchnDpc is queued
  pending, masked,      \* the event channel
  backend               \* the backend: its indices, steps and outstanding ids

sring == <<slots, reqProd, reqEvent, rspProd, rspEvent>>
front == <<reqProdPvt, rspCons, inUse, pc, inDpc, old, new, cons, limit, ringLock, dpc>>
event == <<pending, masked>>
vars == <<sring, front, event, backend>>

Index == 0 .. IndexSpan - 1

Plus(i, n) == (i + n) % IndexSpan
Minus(i, j) == (i + IndexSpan - j) % IndexSpan
Slot(i) == i % RingSize

Pcs == {"Idle", "PushRead", "PushWrite", "PushCheck", "Snapshot", "Consume",
        "SetEvent", "Recheck", "Submit", "Unmask"}

TypeOK ==
  /\ slots \in [0 .. RingSize - 1 -> Ids \cup {None}]
  /\ {reqProd, reqEvent, rspProd, rspEvent, reqProdPvt, rspCons, cons, limit} \subseteq Index
  /\ inUse \subseteq Ids
  /\ pc \in [Cpus -> Pcs] /\ inDpc \in [Cpus -> BOOLEAN]
  /\ old \in [Cpus -> Index] /\ new \in [Cpus -> Index]
  /\ ringLock \in Cpus \cup {None}
  /\ {dpc, pending, masked} \subseteq BOOLEAN
  /\ backend \in [reqCons : Index, rspPvt : Index, taken : SUBSET Ids, kicked : BOOLEAN,
                  taker : {"Sleep", "Take", "Recheck"},
                  answer : {"Idle", "Publish", "Check"}, was : Index]

\* SHARED_RING_INIT, FRONT_RING_INIT; FrontendEnable has triggered the event.
Init ==
  /\ slots = [i \in 0 .. RingSize - 1 |-> None]
  /\ reqProd = 0 /\ rspProd = 0 /\ reqEvent = 1 /\ rspEvent = 1
  /\ reqProdPvt = 0 /\ rspCons = 0 /\ cons = 0 /\ limit = 0
  /\ inUse = {}
  /\ pc = [c \in Cpus |-> "Idle"] /\ inDpc = [c \in Cpus |-> FALSE]
  /\ old = [c \in Cpus |-> 0] /\ new = [c \in Cpus |-> 0]
  /\ ringLock = None /\ dpc = TRUE /\ pending = FALSE /\ masked = FALSE
  /\ backend = [reqCons |-> 0, rspPvt |-> 0, taken |-> {}, kicked |-> FALSE,
                taker |-> "Sleep", answer |-> "Idle", was |-> 0]

-----------------------------------------------------------------------------
\* Locals that are no longer used are set to 0.
Goto(c, l) == pc' = [pc EXCEPT ![c] = l]


\* Mutant of Available: the difference of the indices does not wrap.
AvailableNoWrap ==
  IF reqProdPvt >= rspCons THEN RingSize - (reqProdPvt - rspCons) ELSE RingSize

\* __FrontendCanSubmitRequest
Available == Minus(RingSize, Minus(reqProdPvt, rspCons))

\* FrontendSubmitRequest: the requests of one SRB, all or none of them.
SubmitRequests(c) ==
  /\ pc[c] \in {"Idle", "Submit"} /\ ringLock = None
  /\ \E n \in 1 .. MaxBatch : \E ids \in [1 .. n -> Ids \ inUse] :
       /\ \A i, j \in 1 .. n : ids[i] = ids[j] => i = j
       /\ Available > n
       /\ inUse' = inUse \cup {ids[i] : i \in 1 .. n}
       /\ slots' = [x \in 0 .. RingSize - 1 |->
            IF \E k \in 1 .. n : Slot(reqProdPvt + k - 1) = x
            THEN ids[CHOOSE k \in 1 .. n : Slot(reqProdPvt + k - 1) = x] ELSE slots[x]]
       /\ reqProdPvt' = Plus(reqProdPvt, n)
  /\ Goto(c, "PushRead")
  /\ UNCHANGED <<reqProd, reqEvent, rspProd, rspEvent, rspCons, inDpc, old, new, cons,
                 limit, ringLock, dpc, event, backend>>

\* FrontendPushRequests: __old and __new are read, req_prod is written ...
PushRead(c) ==
  /\ pc[c] = "PushRead"
  /\ old' = [old EXCEPT ![c] = reqProd]
  /\ new' = [new EXCEPT ![c] = reqProdPvt]
  /\ Goto(c, "PushWrite")
  /\ UNCHANGED <<sring, reqProdPvt, rspCons, inUse, inDpc, cons, limit, ringLock, dpc,
                 event, backend>>

PushWrite(c) ==
  /\ pc[c] = "PushWrite"
  /\ reqProd' = new[c]
  /\ Goto(c, "PushCheck")
  /\ UNCHANGED <<slots, reqEvent, rspProd, rspEvent, reqProdPvt, rspCons, inUse, inDpc,
                 old, new, cons, limit, ringLock, dpc, event, backend>>

\* The event index asks to be told of one of the entries from was up to now.
Notify(was, now, evt) == Minus(now, evt) < Minus(now, was)

\* ... and then req_event decides whether the backend is notified.
PushCheck(c) ==
  /\ pc[c] = "PushCheck"
  /\ backend' = [backend EXCEPT !.kicked = @ \/ Notify(old[c], new[c], reqEvent)]
  /\ old' = [old EXCEPT ![c] = 0] /\ new' = [new EXCEPT ![c] = 0]
  /\ Goto(c, IF inDpc[c] THEN "Submit" ELSE "Idle")
  /\ UNCHANGED <<sring, reqProdPvt, rspCons, inUse, inDpc, cons, limit, ringLock, dpc,
                 event>>

-----------------------------------------------------------------------------
\* The event channel and the DPC.

\* EvtchnInterruptFunc.  The channel was opened to be masked on delivery.
Interrupt ==
  /\ pending /\ ~masked
  /\ pending' = FALSE /\ masked' = TRUE /\ dpc' = TRUE
  /\ UNCHANGED <<sring, reqProdPvt, rspCons, inUse, pc, inDpc, old, new, cons, limit,
                 ringLock, backend>>

StartDpc(c) ==
  /\ pc[c] = "Idle" /\ dpc
  /\ dpc' = FALSE
  /\ inDpc' = [inDpc EXCEPT ![c] = TRUE]
  /\ Goto(c, "Snapshot")
  /\ UNCHANGED <<sring, reqProdPvt, rspCons, inUse, old, new, cons, limit, ringLock,
                 event, backend>>

\* Mutant of Snapshot: the loop is bounded by req_prod.
SnapshotOfRequests(c) ==
  /\ pc[c] = "Snapshot" /\ ringLock \in {None, c}
  /\ ringLock' = c /\ cons' = rspCons /\ limit' = reqProd
  /\ Goto(c, "Consume")
  /\ UNCHANGED <<sring, reqProdPvt, rspCons, inUse, inDpc, old, new, dpc, event, backend>>

\* __FrontendCompleteResponses: rsp_prod and rsp_cons are copied ...
Snapshot(c) ==
  /\ pc[c] = "Snapshot" /\ ringLock \in {None, c}
  /\ ringLock' = c /\ cons' = rspCons /\ limit' = rspProd
  /\ Goto(c, "Consume")
  /\ UNCHANGED <<sring, reqProdPvt, rspCons, inUse, inDpc, old, new, dpc, event, backend>>

\* ... the responses up to the copy are read, and their slots zeroed ...
Consume(c) ==
  /\ pc[c] = "Consume"
  /\ \/ /\ cons # limit
        /\ inUse' = inUse \ {slots[Slot(cons)]}
        /\ slots' = [slots EXCEPT ![Slot(cons)] = None]
        /\ cons' = Plus(cons, 1)
        /\ UNCHANGED <<pc, rspCons, limit>>
     \/ /\ cons = limit
        /\ rspCons' = cons /\ cons' = 0 /\ limit' = 0
        /\ Goto(c, IF rspProd # cons THEN "Snapshot" ELSE "SetEvent")
        /\ UNCHANGED <<inUse, slots>>
  /\ UNCHANGED <<reqProd, reqEvent, rspProd, rspEvent, reqProdPvt, inDpc, old, new,
                 ringLock, dpc, event, backend>>

\* ... and RING_FINAL_CHECK_FOR_RESPONSES looks for more, asks to be notified of
\* the next one, and looks again.
SetEvent(c) ==
  /\ pc[c] = "SetEvent"
  /\ rspEvent' = Plus(rspCons, 1)
  /\ Goto(c, "Recheck")
  /\ UNCHANGED <<slots, reqProd, reqEvent, rspProd, reqProdPvt, rspCons, inUse, inDpc, old,
                 new, cons, limit, ringLock, dpc, event, backend>>

\* Mutant of Recheck: the second look is left out.
RecheckSkipped(c) ==
  /\ pc[c] = "Recheck"
  /\ ringLock' = None /\ Goto(c, "Submit")
  /\ UNCHANGED <<sring, reqProdPvt, rspCons, inUse, inDpc, old, new, cons, limit, dpc,
                 event, backend>>

Recheck(c) ==
  /\ pc[c] = "Recheck"
  /\ \/ rspProd # rspCons /\ Goto(c, "Snapshot") /\ UNCHANGED ringLock
     \/ rspProd = rspCons /\ ringLock' = None /\ Goto(c, "Submit")
  /\ UNCHANGED <<sring, reqProdPvt, rspCons, inUse, inDpc, old, new, cons, limit, dpc,
                 event, backend>>

\* PdoSubmitPrepared has nothing more that fits.
LeaveSubmit(c) ==
  /\ pc[c] = "Submit"
  /\ Goto(c, "Unmask")
  /\ UNCHANGED <<sring, reqProdPvt, rspCons, inUse, inDpc, old, new, cons, limit, ringLock,
                 dpc, event, backend>>

\* __EvtchnPending: a pending event is found by Unmask, which repeats the callback,
\* or raises an interrupt once the channel is unmasked.
Unmask(c) ==
  /\ pc[c] = "Unmask" /\ ringLock = None
  /\ \/ /\ pending
        /\ pending' = FALSE
        /\ Goto(c, "Snapshot")
        /\ UNCHANGED <<masked, inDpc>>
     \/ /\ masked' = FALSE
        /\ inDpc' = [inDpc EXCEPT ![c] = FALSE]
        /\ Goto(c, "Idle")
        /\ UNCHANGED pending
  /\ UNCHANGED <<sring, reqProdPvt, rspCons, inUse, old, new, cons, limit, ringLock, dpc,
                 backend>>

-----------------------------------------------------------------------------
\* The backend: one action per step of its request loop and of its answers.  A
\* request is taken out of its slot: nothing may read the slot before the answer.

Take ==
  /\ \/ /\ backend.taker = "Sleep" /\ backend.kicked
        /\ backend' = [backend EXCEPT !.taker = "Take", !.kicked = FALSE]
        /\ UNCHANGED <<slots, reqEvent>>
     \/ /\ backend.taker = "Take" /\ backend.reqCons # reqProd
        /\ backend' = [backend EXCEPT
             !.taken = @ \cup {slots[Slot(backend.reqCons)]}, !.reqCons = Plus(@, 1)]
        /\ slots' = [slots EXCEPT ![Slot(backend.reqCons)] = None]
        /\ UNCHANGED reqEvent
     \/ /\ backend.taker = "Take" /\ backend.reqCons = reqProd
        /\ reqEvent' = Plus(backend.reqCons, 1)
        /\ backend' = [backend EXCEPT !.taker = "Recheck"]
        /\ UNCHANGED slots
     \/ /\ backend.taker = "Recheck"
        /\ backend' = [backend EXCEPT
             !.taker = IF backend.reqCons # reqProd THEN "Take" ELSE "Sleep"]
        /\ UNCHANGED <<slots, reqEvent>>
  /\ UNCHANGED <<reqProd, rspProd, rspEvent, front, event>>

Answer(id) ==
  /\ id \in backend.taken /\ backend.answer \in {"Idle", "Publish"}
  /\ slots' = [slots EXCEPT ![Slot(backend.rspPvt)] = id]
  /\ backend' = [backend EXCEPT !.taken = @ \ {id}, !.rspPvt = Plus(@, 1),
                                !.answer = "Publish"]
  /\ UNCHANGED <<reqProd, reqEvent, rspProd, rspEvent, front, event>>

\* RING_PUSH_RESPONSES_AND_CHECK_NOTIFY
Publish ==
  /\ \/ /\ backend.answer = "Publish"
        /\ rspProd' = backend.rspPvt
        /\ backend' = [backend EXCEPT !.answer = "Check", !.was = rspProd]
        /\ UNCHANGED pending
     \/ /\ backend.answer = "Check"
        /\ pending' = (pending \/ Notify(backend.was, rspProd, rspEvent))
        /\ backend' = [backend EXCEPT !.answer = "Idle", !.was = 0]
        /\ UNCHANGED rspProd
  /\ UNCHANGED <<slots, reqProd, reqEvent, rspEvent, front, masked>>

-----------------------------------------------------------------------------
Run(c) ==
  \/ PushRead(c) \/ PushWrite(c) \/ PushCheck(c)
  \/ StartDpc(c) \/ Snapshot(c) \/ Consume(c) \/ SetEvent(c) \/ Recheck(c)
  \/ LeaveSubmit(c) \/ Unmask(c)

Next ==
  \/ \E c \in Cpus : SubmitRequests(c) \/ Run(c)
  \/ Interrupt \/ Take \/ (\E id \in Ids : Answer(id)) \/ Publish

Spec == Init /\ [][Next]_vars

\* A CPU at DISPATCH_LEVEL runs on; interrupts are delivered; the backend goes on
\* taking requests when notified, answers each,
\* whatever other requests it answers meanwhile, and publishes its answers.
Fairness ==
  /\ \A c \in Cpus : WF_vars(Run(c))
  /\ WF_vars(Interrupt) /\ WF_vars(Take) /\ WF_vars(Publish)
  /\ \A id \in Ids : SF_vars(Answer(id))

FairSpec == Spec /\ Fairness

-----------------------------------------------------------------------------
\* "The requestor (front end) never has more than RING_SIZE()-1 outstanding
\* requests" (ring.h:151): neither by the frontend's indices nor, from req_prod
\* and its own index, as the backend sees it.
OutstandingBounded ==
  /\ Minus(reqProdPvt, rspCons) < RingSize
  /\ Minus(reqProd, backend.reqCons) < RingSize

\* The ids in the slots from index i up to index j.
Between(i, j) == [k \in 1 .. Minus(j, i) |-> slots[Slot(i + k - 1)]]

\* Where the response loop has got to.
ReadUpTo == IF \E c \in Cpus : pc[c] = "Consume" THEN cons ELSE rspCons

\* The ring is a first-in first-out channel of requests and one of responses over
\* the same slots: no slot is reused before its contents are read.
Channel == INSTANCE BlkChannel WITH
  Capacity  <- RingSize - 1,
  requests  <- Between(backend.reqCons, reqProdPvt),
  taken     <- backend.taken,
  responses <- Between(ReadUpTo, backend.rspPvt)

IsChannel == Channel!Spec

\* A response is read for a request that is allocated, and each request has one.
InUseIsOutstanding == inUse = Channel!InUse

\* Both bounds and the channel's view hold over every wrap of the indices (ring.h:149-152).
IndicesSound == TypeOK /\ OutstandingBounded /\ InUseIsOutstanding

\* No notification is lost in either direction: every request put on the ring is
\* taken, answered, and its response read.
EveryRequestAnswered == \A id \in Ids : id \in inUse ~> id \notin inUse
=============================================================================
