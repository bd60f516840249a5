----------------------------- MODULE CrashStore -----------------------------
(***************************************************************************)
(* The XenStore client of the crash-dump driver (src/xencrsh/store.c).     *)
(*                                                                         *)
(* The client is one thread that polls: a call puts its request on the     *)
(* request ring, as far as it fits, sends an event, takes what there is on *)
(* the response ring, sends another event, and stalls until the answer is  *)
(* whole.  xenstored runs in another domain, at any time, and sleeps when  *)
(* it has nothing to do until an event comes.                              *)
(*                                                                         *)
(* A message is cut into units: its header, then its payload; a slot of a  *)
(* ring holds one unit.  The free-running indices wrap at IndexLimit.      *)
(* The driver starts on the ring of the kernel that has just crashed:      *)
(* OldSession says whether that kernel was in the middle of a message.     *)
(***************************************************************************)
EXTENDS Integers, Sequences, FiniteSets

CONSTANTS
  RingSize,      \* XENSTORE_RING_SIZE, in units
  IndexLimit,    \* 2^w, for indices of w bits
  MaxCalls,      \* bound: calls made by the driver
  MaxWatches,    \* bound: watch events of the watches the old kernel registered
  MaxNoMemory,   \* bound: allocations that fail
  OldSession     \* "quiet" | "busy"

ASSUME CrashStoreAssumption ==
  /\ RingSize \in Nat \ {0}
  /\ IndexLimit \in Nat /\ IndexLimit % RingSize = 0 /\ IndexLimit >= 2 * RingSize
  /\ {MaxCalls, MaxWatches, MaxNoMemory} \subseteq Nat
  /\ OldSession \in {"quiet", "busy"}

VARIABLES
  req, rsp,      \* the two rings of StoreContext.Shared: slots, prod, cons
  pc,            \* where the client's thread is
  call,          \* the call in progress, with its STORE_REQUEST
  incoming,      \* StoreContext.Response: the units received so far
  written, read, \* did this round of StorePoll move anything
  sequence,      \* the static Sequence of StorePrepareRequest
  calls,         \* calls made
  noMemory,      \* allocations that failed
  owned,         \* what the austere heap holds, by owner
  leaked,        \* blocks that nothing points at any more
  bug,           \* the ASSERT that failed and stopped the machine, or "None"
  daemon         \* xenstored: awake, the request it is reading, what it has to write

storeVars == <<req, rsp, pc, call, incoming, written, read, sequence, calls, noMemory,
               owned, leaked, bug, daemon>>
-----------------------------------------------------------------------------
(* Messages and rings. *)

Kinds == {"read", "directory", "write", "printf", "remove", "start", "end"}

\* The payload of a request: path, value, or transaction argument.
RequestLen(kind) == CASE kind \in {"read", "directory", "remove"} -> 1
                      [] kind \in {"write", "printf"} -> 2
                      [] OTHER -> 1

\* What xenstored may answer, as the length of the payload: a value may be empty.
AnswerLens(kind) == CASE kind \in {"read", "directory"} -> {0, 2}
                      [] OTHER -> {1}

\* The errors it may answer: "again" is EAGAIN, its answer to the end of a transaction
\* that has to be retried; "error" is any other.
Errors == {"again", "error"}
ErrorsTo(kind) == IF kind = "end" THEN Errors ELSE {"error"}

Message(id, type, len) == [id |-> id, type |-> type, len |-> len]
Unit(m, k) == [m |-> m, part |-> k]
Units(m) == [k \in 1 .. m.len + 1 |-> Unit(m, k)]
Whole(us) == us # <<>> /\ us[1].part = 1 /\ Len(us) = us[1].m.len + 1

EmptyRing == [slot |-> [i \in 0 .. RingSize - 1 |-> <<>>], prod |-> 0, cons |-> 0]

Advance(i, n) == (i + n) % IndexLimit
Used(r) == (r.prod + IndexLimit - r.cons) % IndexLimit
\* A mutant: a slot too many.
AvailableOneMore(r) == (r.cons + RingSize + 1 + IndexLimit - r.prod) % IndexLimit

Available(r) == (r.cons + RingSize + IndexLimit - r.prod) % IndexLimit
Least(a, b) == IF a < b THEN a ELSE b

\* __StoreCopyToRing: as many of the units as there is room for.
CopyToRing(r, us) ==
  LET n == Least(Len(us), Available(r))
      \* which of the units goes to slot i, if any
      At(i) == {k \in 1 .. n : Advance(r.prod, k - 1) % RingSize = i}
  IN  [ring |-> [r EXCEPT !.slot = [i \in DOMAIN r.slot |->
                                      IF At(i) = {} THEN r.slot[i] ELSE us[CHOOSE k \in At(i) : TRUE]],
                          !.prod = Advance(r.prod, n)],
       copied |-> n]

\* __StoreCopyFromRing: as many units as there are, and at most max.
CopyFromRing(r, max) ==
  LET n == Least(max, Used(r))
  IN  [ring |-> [r EXCEPT !.cons = Advance(r.cons, n)],
       units |-> [k \in 1 .. n |-> r.slot[Advance(r.cons, k - 1) % RingSize]]]
-----------------------------------------------------------------------------
(* The heap: "value" are buffers a caller of StoreRead owns, "tx" open        *)
(* transactions, "buffer" that of StoreVPrintf, "payload" that of a response. *)

Owners == {"value", "tx", "buffer", "payload"}
Take(owner) == [owned EXCEPT ![owner] = @ + 1]
Give(owner) == [owned EXCEPT ![owner] = @ - 1]

NoCall == [kind |-> "none", state |-> "INVALID", m |-> Message(0, "none", 0),
           sent |-> 0, response |-> <<>>]
Request == Units(call.m)

OldRequest == Message(0, "read", 2)
OldAnswer == Message(0, "read", 1)

\* xenstored, when the driver clears the ring.  A kernel that was in the middle of a
\* request may leave the request half read, or an answer unwritten or half written.
Leftovers ==
  IF OldSession = "quiet"
  THEN {[inbuf |-> <<>>, out |-> <<>>]}
  ELSE {[inbuf |-> SubSeq(Units(OldRequest), 1, n), out |-> <<>>] : n \in 1 .. 2}
         \cup {[inbuf |-> <<>>, out |-> SubSeq(Units(OldAnswer), n, 2)] : n \in 1 .. 2}

\* StoreInitialize: the shared page is cleared and an event sent.
Init ==
  /\ req = EmptyRing /\ rsp = EmptyRing
  /\ pc = "idle"
  /\ call = NoCall
  /\ incoming = <<>>
  /\ written = FALSE /\ read = FALSE
  /\ sequence = 0
  /\ calls = 0 /\ noMemory = 0
  /\ owned = [o \in Owners |-> 0]
  /\ leaked = [watch |-> 0, retry |-> 0]
  /\ bug = "None"
  /\ daemon \in {[awake |-> TRUE, inbuf |-> l.inbuf, out |-> l.out, watches |-> 0] : l \in Leftovers}
-----------------------------------------------------------------------------
(* The calls: StoreRead, StoreWrite, StorePrintf, StoreRemove, StoreDirectory, *)
(* StoreTransactionStart and StoreTransactionEnd.                              *)

Goto(l) == pc' = l
Running == bug = "None"

\* StorePrepareRequest, and StoreSubmitRequest up to its loop.
Prepare(kind) ==
  /\ sequence' = sequence + 1
  /\ call' = [call EXCEPT !.kind = kind, !.state = "SUBMITTED", !.sent = 0,
                          !.m = Message(sequence + 1, IF kind = "printf" THEN "write" ELSE kind, RequestLen(kind))]
  /\ Goto("send")

\* What a call allocates before it sends anything.
FirstBlock(kind) == CASE kind = "printf" -> {"buffer"} [] kind = "start" -> {"tx"} [] OTHER -> {}

Call(kind) ==
  /\ Running /\ pc = "idle"
  /\ calls < MaxCalls
  /\ kind = "end" => owned["tx"] > 0
  /\ calls' = calls + 1
  /\ \A o \in FirstBlock(kind) : owned' = Take(o)
  /\ FirstBlock(kind) = {} => owned' = owned
  /\ Prepare(kind)
  /\ UNCHANGED <<req, rsp, incoming, written, read, noMemory, leaked, bug, daemon>>

\* The first allocation fails: the call returns STATUS_NO_MEMORY and sends nothing.
CallFails(kind) ==
  /\ Running /\ pc = "idle"
  /\ calls < MaxCalls
  /\ FirstBlock(kind) # {}
  /\ noMemory < MaxNoMemory
  /\ calls' = calls + 1
  /\ noMemory' = noMemory + 1
  /\ UNCHANGED <<req, rsp, pc, call, incoming, written, read, sequence, owned, leaked, bug, daemon>>

\* The caller of StoreRead or StoreDirectory frees the value.
FreeValue ==
  /\ Running /\ pc = "idle"
  /\ owned["value"] > 0
  /\ owned' = Give("value")
  /\ UNCHANGED <<req, rsp, pc, call, incoming, written, read, sequence, calls, noMemory, leaked, bug, daemon>>
-----------------------------------------------------------------------------
(* StorePoll. *)

EventChannelSend == daemon' = [daemon EXCEPT !.awake = TRUE]

\* StoreSendRequests: what fits of the request; it moves to PendingList once whole.
Send ==
  /\ Running /\ pc = "send"
  /\ LET rest == SubSeq(Request, call.sent + 1, Len(Request))
         c == CopyToRing(req, rest)
     IN  IF call.state = "SUBMITTED"
         THEN /\ req' = c.ring
              /\ call' = [call EXCEPT !.sent = @ + c.copied,
                                      !.state = IF c.copied = Len(rest) THEN "PENDING" ELSE @]
              /\ written' = (c.copied # 0)
         ELSE /\ written' = FALSE
              /\ UNCHANGED <<req, call>>
  /\ Goto("sent")
  /\ UNCHANGED <<rsp, incoming, read, sequence, calls, noMemory, owned, leaked, bug, daemon>>

Sent ==
  /\ Running /\ pc = "sent"
  /\ IF written THEN EventChannelSend ELSE UNCHANGED daemon
  /\ read' = FALSE
  /\ Goto(IF Len(incoming) > 0 THEN "payload" ELSE "header")
  /\ UNCHANGED <<req, rsp, call, incoming, written, sequence, calls, noMemory, owned, leaked, bug>>

ValidHeader(u) == u.part = 1

\* StoreReceiveResponse, the header, if it has come.
HeaderComes ==
  LET c == CopyFromRing(rsp, 1)
  IN  /\ rsp' = c.ring
      /\ incoming' = c.units
      /\ read' = (c.units # <<>>)

\* It is verified, and its payload allocated.
ReceiveHeader ==
  /\ Running /\ pc = "header"
  /\ HeaderComes
  /\ bug' = IF incoming' # <<>> /\ ~ValidHeader(incoming'[1]) THEN "VerifyHeader" ELSE bug
  /\ owned' = IF incoming' # <<>> /\ incoming'[1].m.len > 0 THEN Take("payload") ELSE owned
  /\ Goto(CASE incoming' = <<>> -> "received"
            [] Whole(incoming') -> "process"
            [] OTHER -> "payload")
  /\ UNCHANGED <<req, call, written, sequence, calls, noMemory, leaked, daemon>>

\* There is no memory for the payload: ASSERT(... .Data != NULL).
PayloadNoMemory ==
  /\ Running /\ pc = "header"
  /\ HeaderComes
  /\ incoming' # <<>> /\ ValidHeader(incoming'[1]) /\ incoming'[1].m.len > 0
  /\ noMemory < MaxNoMemory
  /\ noMemory' = noMemory + 1
  /\ bug' = "NoPayload"
  /\ UNCHANGED <<req, pc, call, written, sequence, calls, owned, leaked, daemon>>

\* The payload, as far as it has come.
ReceivePayload ==
  /\ Running /\ pc = "payload"
  /\ LET c == CopyFromRing(rsp, incoming[1].m.len + 1 - Len(incoming))
     IN  /\ rsp' = c.ring
         /\ incoming' = incoming \o c.units
         /\ read' = (read \/ c.units # <<>>)
         /\ Goto(IF Len(incoming') = incoming[1].m.len + 1 THEN "process" ELSE "received")
  /\ UNCHANGED <<req, call, written, sequence, calls, noMemory, owned, leaked, bug, daemon>>

Awaited(h) == call.state = "PENDING" /\ h.id = call.m.id

\* StoreProcessResponse: a watch event is forgotten, and its payload with it; anything
\* else completes the pending request of that id.
Process ==
  /\ Running /\ pc = "process"
  /\ LET h == incoming[1].m
     IN  IF h.type = "watch"
         THEN /\ owned' = Give("payload")
              /\ leaked' = [leaked EXCEPT !.watch = @ + 1]
              /\ UNCHANGED <<call, bug>>
         ELSE /\ bug' = IF Awaited(h) THEN bug ELSE "FindRequest"
              /\ call' = IF Awaited(h) THEN [call EXCEPT !.state = "COMPLETED", !.response = incoming] ELSE call
              /\ UNCHANGED <<owned, leaked>>
  /\ incoming' = <<>>
  /\ Goto("received")
  /\ UNCHANGED <<req, rsp, written, read, sequence, calls, noMemory, daemon>>

\* A mutant: no event after a read.
SentNoEvent ==
  /\ Running /\ pc = "received"
  /\ UNCHANGED daemon
  /\ Goto(IF written \/ read \/ call.state # "COMPLETED" THEN "send" ELSE "check")
  /\ UNCHANGED <<req, rsp, call, incoming, written, read, sequence, calls, noMemory, owned, leaked, bug>>

\* The end of a round of StorePoll, and of StoreSubmitRequest's loop once the request is
\* complete; otherwise the thread stalls for STORE_PERIOD and polls again.
Received ==
  /\ Running /\ pc = "received"
  /\ IF read THEN EventChannelSend ELSE UNCHANGED daemon
  /\ Goto(IF written \/ read \/ call.state # "COMPLETED" THEN "send" ELSE "check")
  /\ UNCHANGED <<req, rsp, call, incoming, written, read, sequence, calls, noMemory, owned, leaked, bug>>
-----------------------------------------------------------------------------
(* __StoreCheckResponse and the end of each call. *)

Answer == call.response[1].m
Failed == Answer.type \in Errors
\* A mutant: a failed call does not free the response.
UnloadSuccess(o) == IF Answer.len > 0 /\ ~Failed THEN [o EXCEPT !["payload"] = @ - 1] ELSE o

Unload(o) == IF Answer.len > 0 THEN [o EXCEPT !["payload"] = @ - 1] ELSE o

Return ==
  /\ call' = NoCall
  /\ Goto("idle")
  /\ UNCHANGED <<req, rsp, incoming, written, read, sequence, calls, daemon>>

TypeMatches == Failed \/ Answer.type = call.m.type

\* StoreRead and StoreDirectory copy the payload to a buffer of the caller's.
ReadReturns ==
  /\ Running /\ pc = "check" /\ call.kind \in {"read", "directory"}
  /\ bug' = IF TypeMatches THEN bug ELSE "Type"
  /\ owned' = Unload(IF Failed THEN owned ELSE Take("value"))
  /\ Return
  /\ UNCHANGED <<leaked, noMemory>>

\* ... and return STATUS_NO_MEMORY when there is none.
ReadNoMemory ==
  /\ Running /\ pc = "check" /\ call.kind \in {"read", "directory"}
  /\ ~Failed
  /\ noMemory < MaxNoMemory
  /\ noMemory' = noMemory + 1
  /\ owned' = Unload(owned)
  /\ Return
  /\ UNCHANGED <<leaked, bug>>

WriteReturns ==
  /\ Running /\ pc = "check" /\ call.kind \in {"write", "printf", "remove"}
  /\ bug' = IF TypeMatches THEN bug ELSE "Type"
  /\ owned' = Unload(IF call.kind = "printf" THEN Give("buffer") ELSE owned)
  /\ Return
  /\ UNCHANGED <<leaked, noMemory>>

StartReturns ==
  /\ Running /\ pc = "check" /\ call.kind = "start"
  /\ bug' = IF TypeMatches THEN bug ELSE "Type"
  /\ owned' = Unload(IF Failed THEN Give("tx") ELSE owned)
  /\ Return
  /\ UNCHANGED <<leaked, noMemory>>

\* StoreTransactionEnd frees the transaction, but not when it has to be retried.
EndReturns ==
  /\ Running /\ pc = "check" /\ call.kind = "end"
  /\ Answer.type # "error"
  /\ bug' = IF TypeMatches THEN bug ELSE "Type"
  /\ owned' = Unload(Give("tx"))
  /\ leaked' = [leaked EXCEPT !.retry = IF Failed THEN @ + 1 ELSE @]
  /\ Return
  /\ UNCHANGED noMemory

\* Any other error: ASSERT3U(status, ==, STATUS_RETRY).
EndNotRetry ==
  /\ Running /\ pc = "check" /\ call.kind = "end"
  /\ Answer.type = "error"
  /\ bug' = "NotRetry"
  /\ UNCHANGED <<req, rsp, pc, call, incoming, written, read, sequence, calls, noMemory, owned, leaked, daemon>>
-----------------------------------------------------------------------------
(* xenstored. *)

\* It reads what there is of a request, up to its end, and answers a whole one.
DaemonReads ==
  /\ Running /\ daemon.awake
  /\ Used(req) > 0
  /\ LET max == IF daemon.inbuf = <<>> THEN 1 ELSE daemon.inbuf[1].m.len + 1 - Len(daemon.inbuf)
         c == CopyFromRing(req, max)
         got == daemon.inbuf \o c.units
         m == got[1].m
     IN  /\ req' = c.ring
         /\ IF Len(got) < m.len + 1
            THEN daemon' = [daemon EXCEPT !.inbuf = got]
            ELSE \E a \in {Message(m.id, m.type, l) : l \in AnswerLens(m.type)}
                          \cup {Message(m.id, e, 1) : e \in ErrorsTo(m.type)} :
                   daemon' = [daemon EXCEPT !.inbuf = <<>>, !.out = @ \o Units(a)]
  /\ UNCHANGED <<rsp, pc, call, incoming, written, read, sequence, calls, noMemory, owned, leaked, bug>>

\* It writes what fits of its answers, and sends an event that the client never looks at.
DaemonWrites ==
  /\ Running /\ daemon.awake
  /\ daemon.out # <<>>
  /\ Available(rsp) > 0
  /\ \E n \in 1 .. Least(Len(daemon.out), Available(rsp)) :
       LET c == CopyToRing(rsp, SubSeq(daemon.out, 1, n))
       IN  /\ rsp' = c.ring
           /\ daemon' = [daemon EXCEPT !.out = SubSeq(@, n + 1, Len(@))]
  /\ UNCHANGED <<req, pc, call, incoming, written, read, sequence, calls, noMemory, owned, leaked, bug>>

DaemonSleeps ==
  /\ Running /\ daemon.awake
  /\ Used(req) = 0
  /\ daemon.out = <<>> \/ Available(rsp) = 0
  /\ daemon' = [daemon EXCEPT !.awake = FALSE]
  /\ UNCHANGED <<req, rsp, pc, call, incoming, written, read, sequence, calls, noMemory, owned, leaked, bug>>

\* Another domain writes a node that the old kernel watched.
WatchFires ==
  /\ Running
  /\ daemon.watches < MaxWatches
  /\ daemon' = [daemon EXCEPT !.awake = TRUE, !.watches = @ + 1,
                              !.out = @ \o Units(Message(0, "watch", 1))]
  /\ UNCHANGED <<req, rsp, pc, call, incoming, written, read, sequence, calls, noMemory, owned, leaked, bug>>
-----------------------------------------------------------------------------
Caller == \E k \in Kinds : Call(k) \/ CallFails(k)
Poll == Send \/ Sent \/ ReceiveHeader \/ PayloadNoMemory \/ ReceivePayload \/ Process \/ Received
Returns == ReadReturns \/ ReadNoMemory \/ WriteReturns \/ StartReturns \/ EndReturns \/ EndNotRetry
Daemon == DaemonReads \/ DaemonWrites \/ DaemonSleeps

Next == Caller \/ FreeValue \/ Poll \/ Returns \/ Daemon \/ WatchFires

Spec == Init /\ [][Next]_storeVars

(* The client's thread never waits for anything but time, and xenstored runs. *)
FairSpec == Spec /\ WF_storeVars(Poll) /\ WF_storeVars(Returns) /\ WF_storeVars(Daemon)
-----------------------------------------------------------------------------
(* Properties. *)

InRing(r) == [k \in 1 .. Used(r) |-> r.slot[Advance(r.cons, k - 1) % RingSize]]

TypeOK ==
  /\ {req.prod, req.cons, rsp.prod, rsp.cons} \subseteq 0 .. IndexLimit - 1
  /\ pc \in {"idle", "send", "sent", "header", "payload", "process", "received", "check"}
  /\ call.state \in {"INVALID", "SUBMITTED", "PENDING", "COMPLETED"}
  /\ call.sent \in 0 .. Len(Request)
  /\ {written, read, daemon.awake} \subseteq BOOLEAN
  /\ owned \in [Owners -> Nat]
  /\ leaked \in [{"watch", "retry"} -> Nat]

(* The two byte streams: what xenstored has read of the request and what is on the     *)
(* ring are what the client has sent so far, in order; what the client has of the      *)
(* answers, what is on the ring and what xenstored has to write are whole messages,    *)
(* the one answer to a request that has been read among them.  Partial copies, a full  *)
(* ring and wrapping indices (store.c:196-242, 304-351) must lose, repeat or tear      *)
(* nothing.                                                                            *)
RequestStream ==
  LET s == daemon.inbuf \o InRing(req)
  IN  IF call.state \in {"SUBMITTED", "PENDING"}
      THEN s = SubSeq(Request, 1, call.sent) \/ (s = <<>> /\ call.sent = Len(Request))
      ELSE s = <<>>

\* Every unit is in its place in a whole message.
Untorn(s) ==
  \A k \in 1 .. Len(s) :
    LET m == s[k].m
        before == k - s[k].part
    IN  /\ s[k].part <= m.len + 1 /\ before \in 0 .. Len(s) - (m.len + 1)
        /\ \A j \in 1 .. m.len + 1 : s[before + j] = Unit(m, j)

AnswerStream ==
  LET s == incoming \o InRing(rsp) \o daemon.out
      answers == {k \in DOMAIN s : s[k].part = 1 /\ s[k].m.type # "watch"}
  IN  /\ Untorn(s)
      /\ \A k \in answers : s[k].m.id = call.m.id
      /\ Cardinality(answers) =
           IF call.state = "PENDING" /\ daemon.inbuf \o InRing(req) = <<>> THEN 1 ELSE 0

StreamsIntact == Running => RequestStream /\ AnswerStream

(* While no message of the old kernel is in flight, two ASSERTs of the client can      *)
(* fail: no memory is left for a payload (store.c:408), and the end of a transaction   *)
(* is answered with an error that is not EAGAIN (store.c:1033).  No other one does,    *)
(* whatever watch events come and whichever call fails (store.c:401, 466-467, 525).    *)
Excepted == {"NoPayload", "NotRetry"}
NoBugcheck == bug \in {"None"} \cup Excepted

(* Without the two exceptions: what an ASSERT at store.c:408 and 1033 takes for granted. *)
AssertsHold == bug = "None"

(* Until one of those two stops the machine, nothing is torn; and nothing is ever      *)
(* taken for what it is not (store.c:176-531).                                         *)
RingsSound == TypeOK /\ StreamsIntact /\ NoBugcheck

(* A payload is allocated exactly while a response that has one is being received or   *)
(* is in the hands of the call that waits for it, on the failure paths of the calls    *)
(* too; those of watch events are lost (store.c:407, 459-477, 583-596).                *)
HasPayload(us) == IF us # <<>> /\ us[1].m.len > 0 THEN 1 ELSE 0
PayloadsHeld == Running => owned["payload"] = HasPayload(incoming) + HasPayload(call.response)

(* A call that has been submitted returns, or an ASSERT stops the machine: neither     *)
(* side waits for an event the other does not send, even when request and answer do    *)
(* not fit their rings (store.c:491, 499).                                             *)
CallsReturn == (call.state = "SUBMITTED") ~> (pc = "idle" \/ ~Running)
=============================================================================
