------------------------------- MODULE SrbPath -------------------------------
(***************************************************************************)
(* The SRB data path of one xenvbd target (src/xenvbd/pdo.c, queue.c,      *)
(* frontend.c, fdo.c): how a SCSI request block issued by StorPort travels *)
(* through the queues FreshSrbs, PreparedSrbs and SubmittedSrbs and the    *)
(* blkif ring to its completion, while the event-channel DPC, a target     *)
(* reset, a D0<->D3 power transition and a suspend/resume act on the same  *)
(* queues and the same ring.                                               *)
(*                                                                         *)
(* A CPU is the program counter of the code it runs at DISPATCH_LEVEL.     *)
(* Nothing at DISPATCH_LEVEL is preempted by a DPC, by StartIo or by a     *)
(* thread, so on one CPU the only interleaving is with the backend and     *)
(* with the power thread while it is at PASSIVE_LEVEL; with several CPUs   *)
(* StorSynchronizeFullDuplex (fdo.c:1379) lets them all run the path.      *)
(***************************************************************************)
EXTENDS Naturals, Sequences, FiniteSets, SequencesExt

CONSTANTS
  Cpus,                \* the virtual CPUs
  ReadWrites,          \* SRBs carrying SCSIOP_READ or SCSIOP_WRITE
  Syncs,               \* SRBs carrying SCSIOP_SYNCHRONIZE_CACHE
  Flushes,             \* SRB_FUNCTION_FLUSH and SRB_FUNCTION_SHUTDOWN SRBs
  NumRequests,         \* blkif requests each data SRB is cut into
  RingSize,            \* FrontRing.nr_ents
  Answers,             \* bound: the statuses the backend answers with
  MaxPrepareFailures,  \* bound: failed PrepareReadWrite/PrepareSyncCache calls
  MaxResets,           \* bound: SRB_FUNCTION_RESET_DEVICE, RESET_BUS calls
  MaxPowerCycles,      \* bound: D0 -> D3 -> D0 cycles
  MaxSuspends,         \* bound: suspend/resume (migration) cycles
  None                 \* no CPU, no SRB, no queue

Data == ReadWrites \cup Syncs
Srbs == Data \cup Flushes
QueueNames == {"Fresh", "Prepared", "Submitted", "Shutdown"}

ASSUME ConstantsAssumption ==
  /\ None \notin Cpus \cup Srbs \cup QueueNames
  /\ Flushes \cap Data = {}
  /\ ReadWrites \cap Syncs = {}
  /\ NumRequests \in [Data -> Nat \ {0}]
  /\ \A s \in Syncs : NumRequests[s] = 1
  /\ RingSize \in Nat
  /\ Answers \subseteq {"Okay", "Error", "NotSupp"}
  /\ MaxPrepareFailures \in Nat
  /\ MaxResets \in Nat
  /\ MaxPowerCycles \in Nat
  /\ MaxSuspends \in Nat

VARIABLES
  queue,       \* the four SRB queues
  queueHead,   \* SrbExt->QueueHead: the queue an SRB says it is on
  requests,    \* SrbExt->RequestList: indices of the requests not yet answered
  srbStatus,   \* Srb->SrbStatus
  done,        \* history: the completions StorPort was given for each SRB
  issued,      \* history: SRBs handed to FdoBuildIo
  answers,     \* history: the backend's answers to an SRB's current requests
  pc, cur, ret,\* per CPU: where it is, the SRB in its hands, its caller
  ringLock,    \* the CPU holding Frontend->RingLock across steps
  ringUp,      \* Frontend->SharedRing # NULL
  reqs,        \* requests put on the ring since it was made
  pushed,      \* how many of them req_prod has published
  rsps,        \* responses the backend has put on the ring
  rspCons,     \* FrontRing.rsp_cons
  backend,     \* the backend is connected to this ring
  connected,   \* Frontend->Caps.Connected
  barrier,     \* Frontend->Features.Barrier
  dpc,         \* EvtchnDpc is queued, or the event is pending
  paused,      \* Pdo->Paused > 0
  power,       \* where the power thread is
  bugcheck,    \* an ASSERT failed or a NULL ring was touched
  budget       \* what is left of the four bounds

srbVars  == <<queue, queueHead, requests, srbStatus, done, issued, answers>>
cpuVars  == <<pc, cur, ret>>
ringVars == <<ringUp, reqs, pushed, rsps, rspCons, backend>>
vars == <<srbVars, cpuVars, ringLock, ringVars, connected, barrier, dpc,
          paused, power, bugcheck, budget>>

-----------------------------------------------------------------------------
ScsiStatus == {"Good", "Aborted"}
SrbStatus == {"Invalid", "Success", "Error"}

\* Steps at which the CPU has taken cur[c] off every queue and still owns it.
Holding == {"Prepare", "PrepFresh", "Submit", "PutBack", "Queue"}

\* FrontendSetState runs under StateLock, hence at DISPATCH_LEVEL.
SettingState == {"Disable", "Close", "FreeRing", "NewRing", "Enable"}

Pcs == Holding \cup SettingState \cup
  {"Idle", "Pop", "Mark", "Push", "Complete", "Consume", "Stray", "PopFresh",
   "PeekShutdown", "PeekFresh", "PeekPrepared", "PeekSubmitted",
   "PopShutdown", "Unmask", "ResetFresh", "ResetPeek"}

PowerStates == {"D0", "Pausing", "Drained", "Closing", "AbortFresh", "AbortPrepared",
                "AbortSubmitted", "D3", "Opening", "Unpausing"}

Budgets == [prepare : 0 .. MaxPrepareFailures, reset : 0 .. MaxResets,
            power : 0 .. MaxPowerCycles, suspend : 0 .. MaxSuspends]

\* Flush and shutdown SRBs wait in ShutdownSrbs, the others never do.
Carries(q) == IF q = "Shutdown" THEN Flushes ELSE Data

QueueTypes ==
  /\ queue \in [QueueNames -> Seq(Srbs)]
  /\ \A q \in QueueNames : queue[q] \in Seq(Carries(q))
  /\ queueHead \in [Srbs -> QueueNames \cup {None}]

SrbTypes ==
  /\ requests \in [Data -> SUBSET Nat]
  /\ srbStatus \in [Srbs -> SrbStatus]
  /\ done \in [Srbs -> Seq([srb : SrbStatus, scsi : ScsiStatus])]
  /\ issued \subseteq Srbs
  /\ answers \subseteq Data \X Nat \X Answers

CpuTypes ==
  /\ pc \in [Cpus -> Pcs]
  /\ cur \in [Cpus -> Srbs \cup {None}]
  /\ \A c \in Cpus : pc[c] \in Holding \cup {"Mark"} => cur[c] \in Data
  /\ ret \in [Cpus -> {"StartIo", "Dpc", "Reset", "ResetEnd"}]

RingTypes ==
  /\ ringLock \in Cpus \cup {None}
  /\ ringUp \in BOOLEAN /\ backend \in BOOLEAN
  /\ reqs \in Seq(Data \X Nat)
  /\ pushed \in 0 .. Len(reqs)
  /\ rsps \in Seq(Data \X Nat \X Answers)
  /\ rspCons \in Nat

FlagTypes ==
  /\ connected \in BOOLEAN /\ barrier \in BOOLEAN
  /\ dpc \in BOOLEAN /\ paused \in BOOLEAN /\ bugcheck \in BOOLEAN
  /\ power \in PowerStates
  /\ budget \in Budgets

TypeOK == QueueTypes /\ SrbTypes /\ CpuTypes /\ RingTypes /\ FlagTypes

Init ==
  /\ queue = [q \in QueueNames |-> << >>]
  /\ queueHead = [s \in Srbs |-> None]
  /\ requests = [s \in Data |-> {}]
  /\ srbStatus = [s \in Srbs |-> "Invalid"]
  /\ done = [s \in Srbs |-> << >>]
  /\ issued = {} /\ answers = {}
  /\ pc = [c \in Cpus |-> "Idle"]
  /\ cur = [c \in Cpus |-> None]
  /\ ret = [c \in Cpus |-> "StartIo"]
  /\ ringLock = None
  /\ ringUp = TRUE /\ backend = TRUE
  /\ reqs = << >> /\ pushed = 0 /\ rsps = << >> /\ rspCons = 0
  /\ connected = TRUE /\ barrier \in BOOLEAN
  /\ dpc = TRUE                      \* FrontendEnable has triggered the event
  /\ paused = FALSE /\ power = "D0" /\ bugcheck = FALSE
  /\ budget = [prepare |-> MaxPrepareFailures, reset |-> MaxResets,
               power |-> MaxPowerCycles, suspend |-> MaxSuspends]


-----------------------------------------------------------------------------
\* Helpers.  Queue operations are atomic: each takes SRB_QUEUE->Lock.

At(c, l) == ~bugcheck /\ pc[c] = l
Goto(c, l) == pc' = [pc EXCEPT ![c] = l]
LetGo(c) == cur' = [cur EXCEPT ![c] = None]

InsertTail(q, s) ==
  /\ queue' = [queue EXCEPT ![q] = Append(@, s)]
  /\ queueHead' = [queueHead EXCEPT ![s] = q]

InsertHead(q, s) ==
  /\ queue' = [queue EXCEPT ![q] = <<s>> \o @]
  /\ queueHead' = [queueHead EXCEPT ![s] = q]

\* Mutant of Pop: the SRB stays on the queue, as with QueuePeek.
PopPeeks(q) == queue[q] # << >> /\ UNCHANGED <<queue, queueHead>>

Pop(q) ==
  /\ queue[q] # << >>
  /\ queue' = [queue EXCEPT ![q] = Tail(@)]
  /\ queueHead' = [queueHead EXCEPT ![Head(queue[q])] = None]

RemoveFrom(q, s) ==
  /\ \E i \in 1 .. Len(queue[q]) :
        queue[q][i] = s /\ queue' = [queue EXCEPT ![q] = RemoveAt(@, i)]
  /\ queueHead' = [queueHead EXCEPT ![s] = None]

\* FdoCompleteSrb: StorPort is told, with the statuses the SRB then carries.
Complete(s, srb, scsi) ==
  done' = [done EXCEPT ![s] = Append(@, [srb |-> srb, scsi |-> scsi])]

\* EvtchnInterruptFunc queues the DPC only while Caps.Connected.
Interrupt == dpc' = (dpc \/ connected)

\* Mutant of Trigger: the event is left to the backend to raise.
TriggerForgotten == UNCHANGED dpc

\* FrontendEvtchnTrigger.  On a closed channel xenbus is given a NULL descriptor; here
\* nothing then happens.
Trigger == Interrupt

\* Mutant of CanSubmit: one slot more is kept free, so a large SRB never fits.
CanSubmitKeepsTwo(s) ==
  ringUp /\ RingSize + rspCons > Len(reqs) + NumRequests[s] + 1

\* __FrontendCanSubmitRequest
CanSubmit(s) == ringUp /\ RingSize + rspCons > Len(reqs) + NumRequests[s]

\* What FrontendSubmitRequest puts on the ring: the whole RequestList in order.
RingEntries(s) == [i \in 1 .. NumRequests[s] |-> <<s, i>>]

\* Where PdoSubmitPrepared and FrontendEvtchnCallback return to.
AfterSubmit(c) == IF ret[c] = "StartIo" THEN "Idle" ELSE "PeekShutdown"
AfterCallback(c) ==
  [StartIo |-> "Idle", Dpc |-> "Unmask", Reset |-> "ResetPeek",
   ResetEnd |-> "Idle"][ret[c]]

-----------------------------------------------------------------------------
\* FdoBuildIo and FdoStartIo

\* PdoReadWrite, PdoSyncCache: requests completed without being queued, and
\* those that go on to be prepared.
StartData(c, s) ==
  /\ At(c, "Idle") /\ s \in Data \ issued
  /\ issued' = issued \cup {s}
  /\ \/ /\ ~connected
        /\ Complete(s, srbStatus[s], "Aborted")
        /\ UNCHANGED <<srbStatus, cpuVars>>
     \/ /\ connected /\ s \in Syncs /\ ~barrier
        /\ srbStatus' = [srbStatus EXCEPT ![s] = "Success"]
        /\ Complete(s, "Success", "Good")
        /\ UNCHANGED cpuVars
     \/ /\ connected /\ (s \in Syncs => barrier)
        /\ Goto(c, "Prepare")
        /\ cur' = [cur EXCEPT ![c] = s]
        /\ ret' = [ret EXCEPT ![c] = "StartIo"]
        /\ UNCHANGED <<srbStatus, done>>
  /\ UNCHANGED <<queue, queueHead, requests, answers, ringLock, ringVars,
                 connected, barrier, dpc, paused, power, bugcheck, budget>>

\* __PdoQueueShutdown
StartFlush(c, f) ==
  /\ At(c, "Idle") /\ f \in Flushes \ issued
  /\ issued' = issued \cup {f}
  /\ InsertTail("Shutdown", f)
  /\ Trigger
  /\ UNCHANGED <<requests, srbStatus, done, answers, cpuVars, ringLock,
                 ringVars, connected, barrier, paused, power, bugcheck, budget>>

\* PrepareReadWrite, PrepareSyncCache: all requests are allocated and the SRB
\* goes to the tail of PreparedSrbs.
PrepareOk(c) ==
  /\ At(c, "Prepare") \/ At(c, "PrepFresh")
  /\ requests' = [requests EXCEPT ![cur[c]] = 1 .. NumRequests[cur[c]]]
  /\ answers' = {a \in answers : a[1] # cur[c]}
  /\ InsertTail("Prepared", cur[c])
  /\ Goto(c, IF pc[c] = "Prepare" THEN "Pop" ELSE "PopFresh")
  /\ LetGo(c)
  /\ UNCHANGED <<srbStatus, done, issued, ret, ringLock, ringVars,
                 connected, barrier, dpc, paused, power, bugcheck, budget>>

\* A failed allocation undoes what was prepared (__CleanupSrb).  PdoReadWrite
\* and PdoSyncCache put the SRB at the tail of FreshSrbs and trigger the
\* event; PdoPrepareFresh puts it back at the head and goes on.
PrepareFails(c) ==
  /\ budget.prepare > 0
  /\ budget' = [budget EXCEPT !.prepare = @ - 1]
  /\ \/ /\ At(c, "Prepare")
        /\ InsertTail("Fresh", cur[c])
        /\ Trigger
        /\ Goto(c, "Idle")
     \/ /\ At(c, "PrepFresh")
        /\ InsertHead("Fresh", cur[c])
        /\ Goto(c, "Pop")
        /\ UNCHANGED dpc
  /\ LetGo(c)
  /\ UNCHANGED <<requests, srbStatus, done, issued, answers, ret,
                 ringLock, ringVars, connected, barrier, paused, power, bugcheck>>

-----------------------------------------------------------------------------
\* PdoSubmitPrepared

PopPrepared(c) ==
  /\ At(c, "Pop")
  /\ \/ /\ queue["Prepared"] = << >>
        /\ Goto(c, AfterSubmit(c))
        /\ UNCHANGED <<queue, queueHead, cur>>
     \/ /\ Pop("Prepared")
        /\ cur' = [cur EXCEPT ![c] = Head(queue["Prepared"])]
        /\ Goto(c, "Submit")
  /\ UNCHANGED <<requests, srbStatus, done, issued, answers, ret, ringLock,
                 ringVars, connected, barrier, dpc, paused, power, bugcheck, budget>>

\* FrontendSubmitRequest, all of it under RingLock: all the requests or none.
Submit(c) ==
  /\ At(c, "Submit") /\ ringLock = None
  /\ \/ /\ CanSubmit(cur[c])
        /\ reqs' = reqs \o RingEntries(cur[c])
        /\ Goto(c, "Queue")
     \/ /\ ~CanSubmit(cur[c])
        /\ Goto(c, "PutBack")
        /\ UNCHANGED reqs
  /\ UNCHANGED <<srbVars, cur, ret, ringLock, ringUp, pushed, rsps, rspCons,
                 backend, connected, barrier, dpc, paused, power, bugcheck, budget>>

PutBack(c) ==
  /\ At(c, "PutBack")
  /\ InsertHead("Prepared", cur[c])
  /\ Goto(c, AfterSubmit(c))
  /\ LetGo(c)
  /\ UNCHANGED <<requests, srbStatus, done, issued, answers, ret, ringLock,
                 ringVars, connected, barrier, dpc, paused, power, bugcheck, budget>>

\* Mutant of QueueSubmitted: QueueInsertTail(SubmittedSrbs) is missing.
QueueSubmittedSkips(c) ==
  /\ At(c, "Queue")
  /\ Goto(c, "Mark")
  /\ UNCHANGED <<srbVars, cur, ret, ringLock, ringVars, connected, barrier, dpc,
                 paused, power, bugcheck, budget>>

QueueSubmitted(c) ==
  /\ At(c, "Queue")
  /\ InsertTail("Submitted", cur[c])
  /\ Goto(c, "Mark")
  /\ UNCHANGED <<requests, srbStatus, done, issued, answers, cur, ret, ringLock,
                 ringVars, connected, barrier, dpc, paused, power, bugcheck, budget>>

Mark(c) ==
  /\ At(c, "Mark")
  /\ srbStatus' = [srbStatus EXCEPT ![cur[c]] = "Success"]
  /\ Goto(c, "Push")
  /\ LetGo(c)
  /\ UNCHANGED <<queue, queueHead, requests, done, issued, answers, ret,
                 ringLock, ringVars, connected, barrier, dpc, paused, power,
                 bugcheck, budget>>

\* FrontendPushRequests: req_prod is published, without RingLock.
Push(c) ==
  /\ At(c, "Push") /\ ringUp
  /\ pushed' = Len(reqs)
  /\ Goto(c, "Pop")
  /\ UNCHANGED <<srbVars, cur, ret, ringLock, ringUp, reqs, rsps, rspCons,
                 backend, connected, barrier, dpc, paused, power, bugcheck, budget>>

-----------------------------------------------------------------------------
\* EvtchnDpcFunc and FrontendEvtchnCallback

StartDpc(c) ==
  /\ At(c, "Idle") /\ dpc
  /\ dpc' = FALSE
  /\ \/ /\ (paused /\ queue["Submitted"] = << >>) \/ ~connected
        /\ UNCHANGED cpuVars
     \/ /\ paused => queue["Submitted"] # << >>
        /\ connected
        /\ Goto(c, "Complete")
        /\ ret' = [ret EXCEPT ![c] = "Dpc"]
        /\ UNCHANGED cur
  /\ UNCHANGED <<srbVars, ringLock, ringVars, connected, barrier, paused,
                 power, bugcheck, budget>>

\* __EvtchnPending: an event that arrived meanwhile repeats the callback, or
\* is delivered as an interrupt and queues the DPC again.
Unmask(c) ==
  /\ At(c, "Unmask")
  /\ \/ /\ dpc /\ connected
        /\ dpc' = FALSE
        /\ Goto(c, "Complete")
     \/ /\ Goto(c, "Idle")
        /\ UNCHANGED dpc
  /\ UNCHANGED <<srbVars, cur, ret, ringLock, ringVars, connected, barrier,
                 paused, power, bugcheck, budget>>

\* __FrontendCompleteResponses takes RingLock; without a ring it does nothing.
EnterComplete(c) ==
  /\ At(c, "Complete") /\ ringLock = None
  /\ \/ /\ ringUp
        /\ ringLock' = c
        /\ Goto(c, "Consume")
     \/ /\ ~ringUp
        /\ Goto(c, "PopFresh")
        /\ UNCHANGED ringLock
  /\ UNCHANGED <<srbVars, cur, ret, ringVars, connected, barrier, dpc, paused,
                 power, bugcheck, budget>>

\* The response at rsp_cons, and whether it is its SRB's last.
NextRsp == rsps[rspCons + 1]
IsLast == requests[NextRsp[1]] \ {NextRsp[2]} = {}

\* Mutant of StatusAfter: the last response decides.
StatusOfLast(old, answer) == IF answer = "Okay" THEN "Success" ELSE "Error"

\* Srb->SrbStatus after a response.
StatusAfter(old, answer) ==
  CASE answer = "Okay" -> old
    [] answer = "Error" -> "Error"
    [] answer = "NotSupp" -> "Invalid"

\* PdoCompleteSubmittedRequest for one response.
ConsumeResponse(c) ==
  /\ At(c, "Consume") /\ rspCons < Len(rsps)
  /\ LET s == NextRsp[1]
         status == StatusAfter(srbStatus[s], NextRsp[3])
     IN  /\ rspCons' = rspCons + 1
         /\ srbStatus' = [srbStatus EXCEPT ![s] = status]
         /\ barrier' = (barrier /\ NextRsp[3] # "NotSupp")
         /\ requests' = [requests EXCEPT ![s] = @ \ {NextRsp[2]}]
         /\ \/ /\ ~IsLast
               /\ UNCHANGED <<queue, queueHead, done>>
            \/ /\ IsLast /\ queueHead[s] = "Submitted"
               /\ RemoveFrom("Submitted", s)
               /\ Complete(s, status, IF status = "Success" THEN "Good" ELSE "Aborted")
  /\ UNCHANGED <<issued, answers, cpuVars, ringLock, ringUp, reqs, pushed, rsps,
                 backend, connected, dpc, paused, power, bugcheck, budget>>

\* RING_FINAL_CHECK_FOR_RESPONSES finds no more, and RingLock is released.
LeaveComplete(c) ==
  /\ At(c, "Consume") /\ rspCons = Len(rsps)
  /\ ringLock' = None
  /\ Goto(c, "PopFresh")
  /\ UNCHANGED <<srbVars, cur, ret, ringVars, connected, barrier, dpc, paused,
                 power, bugcheck, budget>>

\* PdoPrepareFresh: the SRB is taken off and prepared (PrepareOk, PrepareFails).
PopFresh(c) ==
  /\ At(c, "PopFresh")
  /\ \/ /\ queue["Fresh"] = << >>
        /\ Goto(c, "Pop")
        /\ UNCHANGED <<queue, queueHead, cur>>
     \/ /\ Pop("Fresh")
        /\ cur' = [cur EXCEPT ![c] = Head(queue["Fresh"])]
        /\ Goto(c, "PrepFresh")
  /\ UNCHANGED <<requests, srbStatus, done, issued, answers, ret, ringLock,
                 ringVars, connected, barrier, dpc, paused, power, bugcheck, budget>>

\* Mutant of Peeks: SubmittedSrbs is not looked at.
PeeksTwo == {<<"PeekFresh", "Fresh", "PeekPrepared">>,
             <<"PeekPrepared", "Prepared", "PopShutdown">>}

\* Each peek of PdoCompleteShutdown: its step, its queue, the step that follows.
Peeks == {<<"PeekFresh", "Fresh", "PeekPrepared">>,
          <<"PeekPrepared", "Prepared", "PeekSubmitted">>,
          <<"PeekSubmitted", "Submitted", "PopShutdown">>}

\* PdoCompleteShutdown: four peeks, each under its own queue's lock ...
PeekShutdown(c) ==
  /\ At(c, "PeekShutdown")
  /\ Goto(c, IF queue["Shutdown"] = << >> THEN AfterCallback(c) ELSE "PeekFresh")
  /\ UNCHANGED <<srbVars, cur, ret, ringLock, ringVars, connected, barrier, dpc,
                 paused, power, bugcheck, budget>>

PeekOthers(c) ==
  /\ \E p \in Peeks :
        /\ At(c, p[1])
        /\ Goto(c, IF queue[p[2]] = << >> THEN p[3] ELSE AfterCallback(c))
  /\ UNCHANGED <<srbVars, cur, ret, ringLock, ringVars, connected, barrier, dpc,
                 paused, power, bugcheck, budget>>

\* ... and then every flush and shutdown SRB is completed.
PopShutdown(c) ==
  /\ At(c, "PopShutdown")
  /\ \/ /\ queue["Shutdown"] = << >>
        /\ Goto(c, AfterCallback(c))
        /\ UNCHANGED <<queue, queueHead, srbStatus, done>>
     \/ /\ Pop("Shutdown")
        /\ srbStatus' = [srbStatus EXCEPT ![Head(queue["Shutdown"])] = "Success"]
        /\ Complete(Head(queue["Shutdown"]), "Success", "Good")
        /\ UNCHANGED pc
  /\ UNCHANGED <<requests, issued, answers, cur, ret, ringLock, ringVars,
                 connected, barrier, dpc, paused, power, bugcheck, budget>>

-----------------------------------------------------------------------------
\* PdoReset, from SRB_FUNCTION_RESET_DEVICE or FdoResetBus

StartReset(c) ==
  /\ At(c, "Idle") /\ budget.reset > 0
  /\ budget' = [budget EXCEPT !.reset = @ - 1]
  /\ Goto(c, "ResetFresh")
  /\ UNCHANGED <<srbVars, cur, ret, ringLock, ringVars, connected, barrier, dpc,
                 paused, power, bugcheck>>

ResetFresh(c) ==
  /\ At(c, "ResetFresh")
  /\ \/ /\ queue["Fresh"] = << >>
        /\ Goto(c, "ResetPeek")
        /\ UNCHANGED <<queue, queueHead, done>>
     \/ /\ Pop("Fresh")
        /\ LET s == Head(queue["Fresh"]) IN Complete(s, srbStatus[s], "Aborted")
        /\ UNCHANGED pc
  /\ UNCHANGED <<requests, srbStatus, issued, answers, cur, ret, ringLock,
                 ringVars, connected, barrier, dpc, paused, power, bugcheck, budget>>

\* The callback is called directly until nothing is prepared or submitted, and
\* once more.
ResetPeek(c) ==
  /\ At(c, "ResetPeek")
  /\ Goto(c, "Complete")
  /\ ret' = [ret EXCEPT ![c] =
               IF queue["Prepared"] = << >> /\ queue["Submitted"] = << >>
               THEN "ResetEnd" ELSE "Reset"]
  /\ UNCHANGED <<srbVars, cur, ringLock, ringVars, connected, barrier, dpc,
                 paused, power, bugcheck, budget>>

-----------------------------------------------------------------------------
\* The power thread: PdoD0ToD3 and PdoD3ToD0.  It runs at PASSIVE_LEVEL, so
\* only on a CPU with nothing to do at DISPATCH_LEVEL, its DPC queue included,
\* except under StateLock, where it occupies the CPU.

AtPassive(c) == At(c, "Idle") /\ (dpc => Cpus # {c})
Passive(state) == power = state /\ \E c \in Cpus : AtPassive(c)

Pause ==
  /\ Passive("D0") /\ budget.power > 0
  /\ budget' = [budget EXCEPT !.power = @ - 1]
  /\ paused' = TRUE /\ power' = "Pausing"
  /\ UNCHANGED <<srbVars, cpuVars, ringLock, ringVars, connected, barrier, dpc,
                 bugcheck>>

\* The loop of __PdoPauseDataPath ends.
SeeDrained ==
  /\ Passive("Pausing") /\ queue["Submitted"] = << >>
  /\ power' = "Drained"
  /\ UNCHANGED <<srbVars, cpuVars, ringLock, ringVars, connected, barrier, dpc,
                 paused, bugcheck, budget>>

\* FrontendSetState takes StateLock: from "Drained" to close the frontend, from
\* "D3" to open it.
SetState(c, from, to, step) ==
  /\ AtPassive(c) /\ power = from
  /\ power' = to
  /\ Goto(c, step)
  /\ UNCHANGED <<srbVars, cur, ret, ringLock, ringVars, connected, barrier, dpc,
                 paused, bugcheck, budget>>

\* FrontendDisable
Disable(c) ==
  /\ At(c, "Disable")
  /\ connected' = FALSE
  /\ Goto(c, "Close")
  /\ UNCHANGED <<srbVars, cur, ret, ringLock, ringVars, barrier, dpc, paused,
                 power, bugcheck, budget>>

\* FrontendClose: KeRemoveQueueDpc, then the handshake that stops the backend.
Close(c) ==
  /\ At(c, "Close")
  /\ dpc' = FALSE /\ backend' = FALSE
  /\ Goto(c, "FreeRing")
  /\ UNCHANGED <<srbVars, cur, ret, ringLock, ringUp, reqs, pushed, rsps, rspCons,
                 connected, barrier, paused, power, bugcheck, budget>>

\* Mutant of ClearRing: rsp_cons is not reset with the ring.
ClearRingKeepsCons == reqs' = << >> /\ pushed' = 0 /\ rsps' = << >> /\ UNCHANGED rspCons

\* Mutant of ClearRing: the old ring's contents are still read.
ClearRingKeepsAll == UNCHANGED <<reqs, pushed, rsps, rspCons>>

\* SHARED_RING_INIT and FRONT_RING_INIT of a new ring, RtlZeroMemory of FrontRing.
ClearRing == reqs' = << >> /\ pushed' = 0 /\ rsps' = << >> /\ rspCons' = 0

\* FrontendDisconnect: __FreeRing, without RingLock.  Another CPU that is in the
\* response loop stays in it, with the lock and with the indices of the old ring.
FreeRing(c) ==
  /\ At(c, "FreeRing")
  /\ ringUp' = FALSE /\ ClearRing
  /\ pc' = [d \in Cpus |-> IF d = c THEN "Idle"
                           ELSE IF pc[d] = "Consume" THEN "Stray" ELSE pc[d]]
  /\ power' = "AbortFresh"
  /\ UNCHANGED <<srbVars, cur, ret, ringLock, backend, connected, barrier, dpc,
                 paused, bugcheck, budget>>

\* PdoAbortAllSrbs: FreshSrbs, PreparedSrbs and SubmittedSrbs, in this order.
\* ShutdownSrbs are left alone.
Abort(state, q, next) ==
  /\ Passive(state)
  /\ \/ /\ queue[q] = << >>
        /\ power' = next
        /\ UNCHANGED <<queue, queueHead, requests, done>>
     \/ /\ Pop(q)
        /\ LET s == Head(queue[q])
           IN  /\ Complete(s, srbStatus[s], "Aborted")
               /\ requests' = [requests EXCEPT ![s] = IF q = "Fresh" THEN @ ELSE {}]
        /\ UNCHANGED power
  /\ UNCHANGED <<srbStatus, issued, answers, cpuVars, ringLock, ringVars,
                 connected, barrier, dpc, paused, bugcheck, budget>>

\* FrontendPrepare and FrontendConnect, without RingLock too.
NewRing(c) ==
  /\ At(c, "NewRing")
  /\ ringUp' = TRUE /\ backend' = TRUE /\ ClearRing
  /\ barrier' \in BOOLEAN
  /\ Goto(c, "Enable")
  /\ UNCHANGED <<srbVars, cur, ret, ringLock, connected, dpc, paused, power,
                 bugcheck, budget>>

\* FrontendEnable: Connected, then the trigger.
Enable(c) ==
  /\ At(c, "Enable")
  /\ connected' = TRUE /\ dpc' = TRUE
  /\ Goto(c, "Idle")
  /\ power' = "Unpausing"
  /\ UNCHANGED <<srbVars, cur, ret, ringLock, ringVars, barrier, paused,
                 bugcheck, budget>>

\* __PdoUnpauseDataPath
Unpause ==
  /\ Passive("Unpausing")
  /\ paused' = FALSE /\ power' = "D0"
  /\ UNCHANGED <<srbVars, cpuVars, ringLock, ringVars, connected, barrier, dpc,
                 bugcheck, budget>>

-----------------------------------------------------------------------------
\* PdoPreResume moves prepared, then submitted SRBs to the head of FreshSrbs and
\* cleans them.
PreResume ==
  LET moved == {s \in Srbs : queueHead[s] \in {"Prepared", "Submitted"}}
  IN  /\ queue' = [queue EXCEPT
                     !["Fresh"] = queue["Submitted"] \o queue["Prepared"] \o @,
                     !["Prepared"] = << >>, !["Submitted"] = << >>]
      /\ queueHead' = [s \in Srbs |-> IF s \in moved THEN "Fresh" ELSE queueHead[s]]
      /\ requests' = [s \in Data |-> IF s \in moved THEN {} ELSE requests[s]]
      /\ srbStatus' = [s \in Srbs |-> IF s \in moved THEN "Invalid" ELSE srbStatus[s]]

\* FrontendSuspendLateCallback, on one CPU while the others are captured: no CPU
\* is in DISPATCH_LEVEL code, no thread holds StateLock.  An enabled frontend is
\* closed and enabled again on a new ring.
Suspend ==
  /\ ~bugcheck /\ budget.suspend > 0
  /\ \A c \in Cpus : pc[c] = "Idle"
  /\ power # "D3"                       \* the callback is deregistered in D3
  /\ budget' = [budget EXCEPT !.suspend = @ - 1]
  /\ PreResume
  /\ \/ connected /\ ClearRing /\ barrier' \in BOOLEAN
     \/ ~connected /\ UNCHANGED <<reqs, pushed, rsps, rspCons, barrier>>
  /\ Trigger
  /\ UNCHANGED <<done, issued, answers, cpuVars, ringLock, ringUp, backend,
                 connected, paused, power, bugcheck>>

\* The backend answers a published request, in any order, and notifies.
Backend ==
  /\ ~bugcheck /\ backend
  /\ \E i \in 1 .. pushed, a \in Answers :
        /\ \A j \in 1 .. Len(rsps) : <<rsps[j][1], rsps[j][2]>> # reqs[i]
        /\ a = "NotSupp" => reqs[i][1] \in Syncs
        /\ rsps' = Append(rsps, <<reqs[i][1], reqs[i][2], a>>)
        /\ answers' = answers \cup {<<reqs[i][1], reqs[i][2], a>>}
  /\ Interrupt
  /\ UNCHANGED <<queue, queueHead, requests, srbStatus, done, issued, cpuVars,
                 ringLock, ringUp, reqs, pushed, rspCons, backend, connected,
                 barrier, paused, power, bugcheck, budget>>

\* What stops the machine: RING_PUSH_REQUESTS reaches through the NULL
\* FrontRing.sring that __FreeRing left, or __QueueRemoveLocked finds
\* SrbExt->QueueHead not equal to its queue (queue.c:48).  The next step of a CPU
\* whose ring was freed under it reaches through that NULL too; with a new ring it
\* takes what lies at its old indices for responses and stores the old rsp_cons
\* (frontend.c:342).  What follows is undefined, and the behaviour ends here.
Fatal(c) ==
  \/ pc[c] = "Push" /\ ~ringUp
  \/ pc[c] = "Stray"
  \/ /\ pc[c] = "Consume" /\ rspCons < Len(rsps)
     /\ IsLast /\ queueHead[NextRsp[1]] # "Submitted"

Bugcheck(c) ==
  /\ ~bugcheck /\ Fatal(c)
  /\ bugcheck' = TRUE
  /\ UNCHANGED <<srbVars, cpuVars, ringLock, ringVars, connected, barrier, dpc,
                 paused, power, budget>>

-----------------------------------------------------------------------------
StartIo(c) == (\E s \in Data : StartData(c, s)) \/ (\E f \in Flushes : StartFlush(c, f))

SubmitLoop(c) == PopPrepared(c) \/ Submit(c) \/ PutBack(c) \/ QueueSubmitted(c)
                   \/ Mark(c) \/ Push(c)

Callback(c) ==
  \/ EnterComplete(c) \/ ConsumeResponse(c) \/ LeaveComplete(c) \/ PopFresh(c)
  \/ PeekShutdown(c) \/ PeekOthers(c) \/ PopShutdown(c)

\* What a CPU goes on to do once something has been started on it.
Run(c) ==
  \/ PrepareOk(c) \/ PrepareFails(c) \/ SubmitLoop(c) \/ Callback(c)
  \/ StartDpc(c) \/ Unmask(c) \/ ResetFresh(c) \/ ResetPeek(c)
  \/ Disable(c) \/ Close(c) \/ FreeRing(c) \/ NewRing(c) \/ Enable(c)
  \/ Bugcheck(c)

PowerThread ==
  \/ SeeDrained \/ Unpause
  \/ \E c \in Cpus : SetState(c, "Drained", "Closing", "Disable")
  \/ Abort("AbortFresh", "Fresh", "AbortPrepared")
  \/ Abort("AbortPrepared", "Prepared", "AbortSubmitted")
  \/ Abort("AbortSubmitted", "Submitted", "D3")

PowerUp(c) == SetState(c, "D3", "Opening", "NewRing")

Next ==
  \/ \E c \in Cpus : StartIo(c) \/ StartReset(c) \/ PowerUp(c) \/ Run(c)
  \/ Pause \/ PowerThread \/ Suspend \/ Backend

Spec == Init /\ [][Next]_vars

\* A CPU at DISPATCH_LEVEL runs on and drains its DPC queue before it returns
\* to PASSIVE_LEVEL; a power transition once begun is carried through; the
\* backend answers what it was given.
Fairness ==
  /\ \A c \in Cpus : WF_vars(Run(c))
  /\ WF_vars(PowerThread)
  /\ WF_vars(Backend)

FairSpec == Spec /\ Fairness

-----------------------------------------------------------------------------
\* Invariants on any number of CPUs

\* An SRB is on no queue when a CPU inserts it (the ASSERTs of queue.c:70 and 92),
\* and no other CPU has it in hand.
InsertSafe ==
  \A c \in Cpus : pc[c] \in Holding =>
    /\ queueHead[cur[c]] = None
    /\ \A d \in Cpus \ {c} : pc[d] \in Holding => cur[d] # cur[c]

\* StorPort gets at most one completion of an SRB, and never of an SRB that is
\* still on a queue.
CompletedOnce ==
  \A s \in Srbs : /\ Len(done[s]) <= 1
                  /\ queueHead[s] # None => done[s] = << >>

\* Why those two hold.  The queues and SrbExt->QueueHead agree and no SRB is on a
\* queue twice; an SRB that is queued, or in a CPU's hands, was issued and has not
\* been completed; it is in one CPU's hands at most, and then on no queue.
QueuesAgree ==
  \A q \in QueueNames : \A i, j \in 1 .. Len(queue[q]) :
    /\ queueHead[queue[q][i]] = q
    /\ queue[q][i] = queue[q][j] => i = j

Open(s) == s \in issued /\ done[s] = << >>
Holds(c, s) == pc[c] \in Holding /\ cur[c] = s

QueuedOpen == \A s \in Srbs : queueHead[s] # None => Open(s)

HeldOpen ==
  \A c \in Cpus, s \in Srbs : Holds(c, s) =>
    /\ queueHead[s] = None /\ Open(s)
    /\ \A d \in Cpus \ {c} : ~Holds(d, s)

DoneOnce == \A s \in Srbs : Len(done[s]) <= 1 /\ (s \notin issued => done[s] = << >>)

Ownership == QueuesAgree /\ QueuedOpen /\ HeldOpen /\ DoneOnce

\* No SRB is lost: one that is issued and not completed is on a queue or in the
\* hands of a CPU about to queue it.
Accounted ==
  \A s \in issued : done[s] = << >> =>
    \/ \E q \in QueueNames : s \in Range(queue[q])
    \/ \E c \in Cpus : pc[c] \in Holding /\ cur[c] = s

\* A request keeps its slot until its response is consumed: whatever order SRBs
\* are put on the ring in, the slots in use never exceed the ring.
RingFits == rspCons <= Len(rsps) /\ Len(rsps) <= pushed /\ pushed <= Len(reqs)
              /\ Len(reqs) - rspCons <= RingSize

\* The id in an unconsumed response is the address of an XENVBD_REQUEST: it is
\* still allocated, on its SRB's RequestList, until a CPU in the loop of a freed ring
\* takes its next step (Stray), where the model ends.
ResponseIdsLive ==
  \A k \in rspCons + 1 .. Len(rsps) : rsps[k][2] \in requests[rsps[k][1]]

-----------------------------------------------------------------------------
\* Invariants on one CPU, where the order PdoSubmitPrepared relies on holds

\* No ASSERT fails, and no code reaches through a freed ring.
NoBugcheck == ~bugcheck

\* An SRB completed with SRB_STATUS_SUCCESS and SCSI_GOOD has had every one of
\* its requests answered BLKIF_RSP_OKAY by the backend of the current ring (a
\* synchronize cache without barriers never makes a request).
GoodMeansDone ==
  \A s \in ReadWrites : \A k \in 1 .. Len(done[s]) :
    done[s][k] = [srb |-> "Success", scsi |-> "Good"] =>
      \A i \in 1 .. NumRequests[s] : \A a \in Answers :
        <<s, i, a>> \in answers <=> a = "Okay"

\* While connected, an SRB waiting in SubmittedSrbs can be completed: each of its
\* unanswered requests is on the present ring, and is published unless the CPU
\* that put it there has yet to push it.
SubmittedOnRing ==
  connected => \A s \in Data : queueHead[s] = "Submitted" =>
    /\ requests[s] # {}
    /\ \A i \in requests[s] : \E k \in 1 .. Len(reqs) :
         /\ reqs[k] = <<s, i>>
         /\ k <= pushed \/ \E c \in Cpus : pc[c] \in {"Mark", "Push"}
         /\ \A j \in 1 .. rspCons : <<rsps[j][1], rsps[j][2]>> # reqs[k]

\* Queues and ring describe the same requests, through every put-back, completion, pause
\* and resume: what is waited for can still be answered, and fits the ring.
RingSound == TypeOK /\ NoBugcheck /\ RingFits /\ SubmittedOnRing

\* A flush or shutdown SRB is completed only when every read, write and
\* synchronize-cache SRB issued so far has been completed.
FlushAfterData ==
  [][\A x \in Flushes : done'[x] # done[x] =>
       \A s \in Data : s \in issued => done[s] # << >>]_vars

\* The last request of an SRB is answered only after the SRB was put on
\* SubmittedSrbs: ASSERT3P(SrbExt->QueueHead, ==, Queue) (queue.c:48).
RemoveFindsQueue ==
  \A c \in Cpus :
    pc[c] = "Consume" /\ rspCons < Len(rsps) /\ IsLast =>
      queueHead[NextRsp[1]] = "Submitted"

\* No CPU is in the response loop while another one frees the ring.
LoopKeepsRing == \A c \in Cpus : pc[c] # "Stray"

\* An SRB taken off a queue and aborted is not reported as having succeeded.
AbortedNotSuccess ==
  \A s \in Srbs : \A k \in 1 .. Len(done[s]) :
    done[s][k].scsi = "Aborted" => done[s][k].srb # "Success"

-----------------------------------------------------------------------------
\* Liveness on one CPU

\* Wake-ups the code loses.  PdoPrepareFresh puts an SRB it cannot prepare back on
\* FreshSrbs and triggers no event, and EvtchnDpcFunc returns at once while the
\* data path is paused, although FrontendEnable and the resume trigger it before
\* __PdoUnpauseDataPath.  After two of these an SRB can stay on FreshSrbs, with
\* nothing outstanding that would bring an event.
LostWakeup ==
  LET failed    == budget.prepare < MaxPrepareFailures
      suspended == budget.suspend < MaxSuspends
      cycled    == budget.power < MaxPowerCycles
  IN  (failed /\ suspended) \/ (failed /\ cycled) \/ (suspended /\ cycled)

\* Every read, write and synchronize-cache SRB is completed, through full rings,
\* a failed preparation, a reset, a migration or a power transition.
DataCompletes == \A s \in Data : s \in issued ~> done[s] # << >> \/ LostWakeup

\* Every flush and shutdown SRB is completed, unless the device goes to D3:
\* PdoAbortAllSrbs leaves ShutdownSrbs alone, and on the way back to D0 the DPC
\* that FrontendEnable triggers finds the data path paused and returns.
FlushCompletes ==
  \A x \in Flushes : x \in issued ~>
    done[x] # << >> \/ budget.power < MaxPowerCycles \/ LostWakeup

\* PdoReset returns: "for prepared and submitted SRBs we just wait until they
\* complete normally" (pdo.c:1870).
ResetReturns ==
  \A c \in Cpus : pc[c] = "ResetFresh" ~> pc[c] = "Idle"

=============================================================================
