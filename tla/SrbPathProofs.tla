---------------------------- MODULE SrbPathProofs ----------------------------
(***************************************************************************)
(* Proofs about SrbPath, for any number of CPUs, any set of SRBs, any ring *)
(* size and any bounds.                                                    *)
(***************************************************************************)
EXTENDS SrbPath, SequenceTheorems, FiniteSetTheorems, TLAPS

\* A nonempty sequence has a head, and a tail that is a sequence.
LEMMA HeadTail ==
  ASSUME NEW S, NEW seq \in Seq(S), seq # << >>
  PROVE  /\ Head(seq) \in S /\ Tail(seq) \in Seq(S)
         /\ Head(seq) = seq[1] /\ Len(seq) \in Nat \ {0}
         /\ Len(Tail(seq)) = Len(seq) - 1
         /\ \A i \in 1 .. Len(seq) - 1 : Tail(seq)[i] = seq[i + 1]
BY HeadTailProperties, LenProperties, EmptySeq

\* RemoveAt drops the element at one position and shifts those behind it.
LEMMA RemoveAtShifts ==
  ASSUME NEW S, NEW seq \in Seq(S), NEW i \in 1 .. Len(seq)
  PROVE  /\ RemoveAt(seq, i) \in Seq(S)
         /\ Len(RemoveAt(seq, i)) = Len(seq) - 1
         /\ \A j \in 1 .. Len(seq) - 1 :
              RemoveAt(seq, i)[j] = IF j < i THEN seq[j] ELSE seq[j + 1]
<1> DEFINE front == SubSeq(seq, 1, i - 1)
           back  == SubSeq(seq, i + 1, Len(seq))
<1>1. Len(seq) \in Nat
  BY LenProperties
<1>2. /\ front \in Seq(S) /\ Len(front) = i - 1
      /\ \A j \in 1 .. i - 1 : front[j] = seq[j]
  BY <1>1, SubSeqProperties
<1>3. /\ back \in Seq(S) /\ Len(back) = Len(seq) - i
      /\ \A j \in 1 .. Len(seq) - i : back[j] = seq[j + i]
  BY <1>1, SubSeqProperties
<1> HIDE DEF front, back
<1>7. /\ front \o back \in Seq(S)
      /\ Len(front \o back) = Len(front) + Len(back)
      /\ \A j \in 1 .. Len(front) + Len(back) :
           (front \o back)[j] =
             IF j <= Len(front) THEN front[j] ELSE back[j - Len(front)]
  BY <1>2, <1>3, ConcatProperties
<1>4. /\ front \o back \in Seq(S) /\ Len(front \o back) = Len(seq) - 1
      /\ \A j \in 1 .. Len(seq) - 1 :
           (front \o back)[j] = IF j <= i - 1 THEN front[j] ELSE back[j - (i - 1)]
  BY <1>1, <1>2, <1>3, <1>7
<1>5. ASSUME NEW j \in 1 .. Len(seq) - 1
      PROVE  (front \o back)[j] = IF j < i THEN seq[j] ELSE seq[j + 1]
  <2>1. CASE j < i
    BY <2>1, <1>1, <1>2, <1>4
  <2>2. CASE ~(j < i)
    <3>1. j - (i - 1) \in 1 .. Len(seq) - i /\ j - (i - 1) + i = j + 1
      BY <2>2, <1>1
    <3> QED
      BY <2>2, <3>1, <1>1, <1>3, <1>4
  <2> QED
    BY <2>1, <2>2
<1>6. RemoveAt(seq, i) = front \o back
  BY DEF RemoveAt, front, back
<1> QED
  BY <1>4, <1>5, <1>6

\* A queue of SRBs that q may carry is a queue of SRBs.
LEMMA CarriesSrbs ==
  ASSUME NEW q
  PROVE  Carries(q) \subseteq Srbs /\ Seq(Carries(q)) \subseteq Seq(Srbs)
<1>1. Carries(q) \subseteq Srbs
  BY DEF Carries, Srbs
<1> QED
  BY <1>1, SeqMonotonic

\* Replacing one queue by another of the SRBs it may carry keeps the types.
LEMMA QueueReplaced ==
  ASSUME QueueTypes, NEW q \in QueueNames, NEW new \in Seq(Carries(q)),
         queue' = [queue EXCEPT ![q] = new],
         queueHead' \in [Srbs -> QueueNames \cup {None}]
  PROVE  QueueTypes'
<1>1. new \in Seq(Srbs)
  BY CarriesSrbs
<1> QED
  BY <1>1 DEF QueueTypes

\* QueueInsertTail keeps the queues well typed.
LEMMA InsertTailTypes ==
  ASSUME QueueTypes, NEW q \in QueueNames, NEW s \in Carries(q), InsertTail(q, s)
  PROVE  QueueTypes'
<1>1. Append(queue[q], s) \in Seq(Carries(q))
  BY AppendProperties DEF QueueTypes
<1>2. queueHead' \in [Srbs -> QueueNames \cup {None}]
  BY DEF QueueTypes, InsertTail
<1>3. queue' = [queue EXCEPT ![q] = Append(queue[q], s)]
  BY DEF QueueTypes, InsertTail
<1> QED
  BY <1>1, <1>2, <1>3, QueueReplaced

\* QueueInsertHead keeps the queues well typed.
LEMMA InsertHeadTypes ==
  ASSUME QueueTypes, NEW q \in QueueNames, NEW s \in Carries(q), InsertHead(q, s)
  PROVE  QueueTypes'
<1>1. <<s>> \o queue[q] \in Seq(Carries(q))
  BY ConcatProperties DEF QueueTypes
<1>2. queueHead' \in [Srbs -> QueueNames \cup {None}]
  BY DEF QueueTypes, InsertHead
<1>3. queue' = [queue EXCEPT ![q] = <<s>> \o queue[q]]
  BY DEF QueueTypes, InsertHead
<1> QED
  BY <1>1, <1>2, <1>3, QueueReplaced

\* QueuePop keeps the queues well typed and returns an SRB the queue may carry.
LEMMA PopTypes ==
  ASSUME QueueTypes, NEW q \in QueueNames, Pop(q)
  PROVE  QueueTypes' /\ Head(queue[q]) \in Carries(q)
<1>1. Head(queue[q]) \in Carries(q) /\ Tail(queue[q]) \in Seq(Carries(q))
  BY HeadTail DEF QueueTypes, Pop
<1>2. queueHead' \in [Srbs -> QueueNames \cup {None}]
  BY DEF QueueTypes, Pop
<1>3. queue' = [queue EXCEPT ![q] = Tail(queue[q])]
  BY DEF QueueTypes, Pop
<1> QED
  BY <1>1, <1>2, <1>3, QueueReplaced

\* QueueRemove keeps the queues well typed.
LEMMA RemoveFromTypes ==
  ASSUME QueueTypes, NEW q \in QueueNames, NEW s, RemoveFrom(q, s)
  PROVE  QueueTypes'
<1>1. PICK i \in 1 .. Len(queue[q]) :
        queue' = [queue EXCEPT ![q] = RemoveAt(queue[q], i)]
  BY DEF RemoveFrom
<1>2. RemoveAt(queue[q], i) \in Seq(Carries(q))
  BY RemoveAtShifts DEF QueueTypes
<1>3. queueHead' \in [Srbs -> QueueNames \cup {None}]
  BY DEF QueueTypes, RemoveFrom
<1> QED
  BY <1>1, <1>2, <1>3, QueueReplaced

-----------------------------------------------------------------------------
\* Completing an SRB appends one completion to its history.
LEMMA CompleteTypes ==
  ASSUME SrbTypes, NEW s \in Srbs, NEW srb \in SrbStatus, NEW scsi \in ScsiStatus,
         Complete(s, srb, scsi)
  PROVE  done' \in [Srbs -> Seq([srb : SrbStatus, scsi : ScsiStatus])]
<1> DEFINE R == [srb : SrbStatus, scsi : ScsiStatus]
           r == [srb |-> srb, scsi |-> scsi]
<1>1. r \in R
  OBVIOUS
<1>2. done[s] \in Seq(R) /\ done \in [Srbs -> Seq(R)]
  BY DEF SrbTypes
<1>3. done' = [done EXCEPT ![s] = Append(@, r)]
  BY DEF Complete
<1> HIDE DEF R, r
<1>4. Append(done[s], r) \in Seq(R)
  BY <1>1, <1>2, AppendProperties
<1>5. done' \in [Srbs -> Seq(R)]
  BY <1>2, <1>3, <1>4
<1> QED
  BY <1>5 DEF R

\* The CPU types survive c moving to l with s in its hands.
LEMMA CpuStep ==
  ASSUME CpuTypes, NEW c \in Cpus, NEW l \in Pcs, Goto(c, l),
         NEW s \in Srbs \cup {None}, cur' = [cur EXCEPT ![c] = s],
         l \in Holding \cup {"Mark"} => s \in Data,
         ret' \in [Cpus -> {"StartIo", "Dpc", "Reset", "ResetEnd"}]
  PROVE  CpuTypes'
BY DEF CpuTypes, Goto

\* The CPU types survive c moving to l, with the SRB in its hands unchanged.
LEMMA CpuMoves ==
  ASSUME CpuTypes, NEW c \in Cpus, NEW l \in Pcs, Goto(c, l), UNCHANGED cur,
         l \in Holding \cup {"Mark"} => cur[c] \in Data,
         ret' \in [Cpus -> {"StartIo", "Dpc", "Reset", "ResetEnd"}]
  PROVE  CpuTypes'
BY DEF CpuTypes, Goto

\* The steps a call returns to are steps at which nothing is held.
LEMMA Returns ==
  ASSUME CpuTypes, NEW c \in Cpus
  PROVE  /\ AfterSubmit(c) \in Pcs \ (Holding \cup {"Mark"})
         /\ AfterCallback(c) \in Pcs \ (Holding \cup {"Mark"})
BY DEF CpuTypes, AfterSubmit, AfterCallback, Pcs, Holding

-----------------------------------------------------------------------------
\* Type correctness, one lemma per action.

\* PdoStartIo with a read, write or unmap keeps the types.
LEMMA StartDataTypes ==
  ASSUME TypeOK, NEW c \in Cpus, NEW s \in Data, StartData(c, s)
  PROVE  TypeOK'
<1>1. QueueTypes' /\ RingTypes' /\ FlagTypes'
  BY DEF TypeOK, QueueTypes, RingTypes, FlagTypes, StartData, ringVars
<1>2. s \in Srbs /\ srbStatus[s] \in SrbStatus
  BY DEF TypeOK, SrbTypes, Srbs
<1>3. SrbTypes'
  <2>1. \/ Complete(s, srbStatus[s], "Aborted")
        \/ Complete(s, "Success", "Good")
        \/ UNCHANGED done
    BY DEF StartData
  <2>2. done' \in [Srbs -> Seq([srb : SrbStatus, scsi : ScsiStatus])]
    <3>1. CASE Complete(s, srbStatus[s], "Aborted")
      BY <3>1, <1>2, CompleteTypes DEF TypeOK, ScsiStatus
    <3>2. CASE Complete(s, "Success", "Good")
      BY <3>2, <1>2, CompleteTypes DEF TypeOK, ScsiStatus, SrbStatus
    <3>3. CASE UNCHANGED done
      BY <3>3 DEF TypeOK, SrbTypes
    <3> QED
      BY <2>1, <3>1, <3>2, <3>3
  <2>3. srbStatus' \in [Srbs -> SrbStatus]
    BY <1>2 DEF TypeOK, SrbTypes, StartData, SrbStatus
  <2>4. requests' = requests /\ answers' = answers /\ issued' \subseteq Srbs
    BY <1>2 DEF TypeOK, SrbTypes, StartData
  <2> QED
    BY <2>2, <2>3, <2>4 DEF TypeOK, SrbTypes
<1>4. CpuTypes'
  BY DEF TypeOK, CpuTypes, StartData, Goto, At, Pcs, Holding, cpuVars, Srbs
<1> QED
  BY <1>1, <1>3, <1>4 DEF TypeOK

\* PdoStartIo with a flush keeps the types.
LEMMA StartFlushTypes ==
  ASSUME TypeOK, NEW c \in Cpus, NEW f \in Flushes, StartFlush(c, f)
  PROVE  TypeOK'
<1>1. SrbTypes' /\ CpuTypes' /\ RingTypes' /\ FlagTypes'
  BY DEF TypeOK, SrbTypes, CpuTypes, RingTypes, FlagTypes, StartFlush, Trigger,
         Interrupt, ringVars, cpuVars, Srbs
<1>2. QueueTypes'
  BY InsertTailTypes DEF TypeOK, StartFlush, QueueNames, Carries
<1> QED
  BY <1>1, <1>2 DEF TypeOK

\* A prepared SRB keeps the types.
LEMMA PrepareOkTypes ==
  ASSUME TypeOK, NEW c \in Cpus, PrepareOk(c)
  PROVE  TypeOK'
<1>1. cur[c] \in Data /\ cur[c] \in Srbs
  BY DEF TypeOK, CpuTypes, PrepareOk, At, Holding, Srbs
<1>2. RingTypes' /\ FlagTypes'
  BY DEF TypeOK, RingTypes, FlagTypes, PrepareOk, ringVars
<1>3. QueueTypes'
  BY <1>1, InsertTailTypes DEF TypeOK, PrepareOk, QueueNames, Carries
<1>4. SrbTypes'
  <2>1. 1 .. NumRequests[cur[c]] \in SUBSET Nat
    OBVIOUS
  <2>2. answers' \subseteq answers
    BY DEF PrepareOk
  <2> QED
    BY <1>1, <2>1, <2>2 DEF TypeOK, SrbTypes, PrepareOk
<1>5. CpuTypes'
  BY <1>1 DEF TypeOK, CpuTypes, PrepareOk, Goto, LetGo, At, Pcs, Holding
<1> QED
  BY <1>2, <1>3, <1>4, <1>5 DEF TypeOK

\* An SRB that cannot be prepared keeps the types.
LEMMA PrepareFailsTypes ==
  ASSUME TypeOK, NEW c \in Cpus, PrepareFails(c)
  PROVE  TypeOK'
<1>1. cur[c] \in Data /\ cur[c] \in Srbs
  BY DEF TypeOK, CpuTypes, PrepareFails, At, Holding, Srbs
<1>2. SrbTypes' /\ RingTypes'
  BY DEF TypeOK, SrbTypes, RingTypes, PrepareFails, ringVars
<1>3. FlagTypes'
  <2>1. budget.prepare - 1 \in 0 .. MaxPrepareFailures
    BY ConstantsAssumption DEF TypeOK, FlagTypes, Budgets, PrepareFails,
       ConstantsAssumption
  <2>2. budget' \in Budgets
    BY <2>1 DEF TypeOK, FlagTypes, Budgets, PrepareFails
  <2> QED
    BY <2>2 DEF TypeOK, FlagTypes, PrepareFails, Trigger, Interrupt
<1>4. QueueTypes'
  BY <1>1, InsertTailTypes, InsertHeadTypes
     DEF TypeOK, PrepareFails, QueueNames, Carries
<1>5. CpuTypes'
  BY <1>1 DEF TypeOK, CpuTypes, PrepareFails, Goto, LetGo, At, Pcs, Holding
<1> QED
  BY <1>2, <1>3, <1>4, <1>5 DEF TypeOK

\* Taking an SRB to submit keeps the types.
LEMMA PopPreparedTypes ==
  ASSUME TypeOK, NEW c \in Cpus, PopPrepared(c)
  PROVE  TypeOK'
<1>1. SrbTypes' /\ RingTypes' /\ FlagTypes'
  BY DEF TypeOK, RingTypes, SrbTypes, FlagTypes, PopPrepared, ringVars
<1>2. QueueTypes'
  BY PopTypes DEF TypeOK, QueueTypes, PopPrepared, QueueNames
<1>3. ret' \in [Cpus -> {"StartIo", "Dpc", "Reset", "ResetEnd"}]
  BY DEF TypeOK, CpuTypes, PopPrepared
<1>4. CASE Goto(c, AfterSubmit(c)) /\ UNCHANGED cur
  BY <1>3, <1>4, Returns, CpuMoves, <1>1, <1>2 DEF TypeOK
<1>5. CASE /\ Pop("Prepared") /\ cur' = [cur EXCEPT ![c] = Head(queue["Prepared"])]
           /\ Goto(c, "Submit")
  <2>1. Head(queue["Prepared"]) \in Data
    BY <1>5, PopTypes DEF TypeOK, QueueNames, Carries
  <2>2. CpuTypes'
    BY <1>3, <1>5, <2>1, CpuStep DEF TypeOK, Pcs, Holding, Srbs
  <2> QED
    BY <1>1, <1>2, <2>2 DEF TypeOK
<1> QED
  BY <1>4, <1>5 DEF PopPrepared

\* Putting an SRB's requests on the ring keeps the types.
LEMMA SubmitTypes ==
  ASSUME TypeOK, NEW c \in Cpus, Submit(c)
  PROVE  TypeOK'
<1>1. cur[c] \in Data
  BY DEF TypeOK, CpuTypes, Submit, At, Holding, Srbs
<1>2. QueueTypes' /\ SrbTypes' /\ FlagTypes'
  BY DEF TypeOK, QueueTypes, SrbTypes, FlagTypes, Submit, srbVars
<1>3. CpuTypes'
  BY <1>1 DEF TypeOK, CpuTypes, Submit, Goto, At, Pcs, Holding
<1>4. RingTypes'
  <2> DEFINE new == RingEntries(cur[c])
  <2>1. new \in Seq(Data \X Nat)
    BY <1>1, ConstantsAssumption DEF ConstantsAssumption, RingEntries
  <2> HIDE DEF new
  <2>2. /\ reqs \o new \in Seq(Data \X Nat)
        /\ Len(reqs \o new) = Len(reqs) + Len(new)
        /\ Len(reqs) \in Nat /\ Len(new) \in Nat
    BY <2>1, ConcatProperties, LenProperties DEF TypeOK, RingTypes
  <2>3. CASE reqs' = reqs \o new
    BY <2>2, <2>3 DEF TypeOK, RingTypes, Submit
  <2>4. CASE reqs' = reqs
    BY <2>4 DEF TypeOK, RingTypes, Submit
  <2> QED
    BY <2>3, <2>4 DEF Submit, new
<1> QED
  BY <1>2, <1>3, <1>4 DEF TypeOK

\* Putting back an SRB the ring has no room for keeps the types.
LEMMA PutBackTypes ==
  ASSUME TypeOK, NEW c \in Cpus, PutBack(c)
  PROVE  TypeOK'
<1>1. cur[c] \in Data
  BY DEF TypeOK, CpuTypes, PutBack, At, Holding
<1>2. SrbTypes' /\ RingTypes' /\ FlagTypes'
  BY DEF TypeOK, RingTypes, SrbTypes, FlagTypes, PutBack, ringVars
<1>3. QueueTypes'
  BY <1>1, InsertHeadTypes DEF TypeOK, PutBack, QueueNames, Carries
<1>4. CpuTypes'
  BY CpuStep, Returns DEF TypeOK, CpuTypes, PutBack, LetGo
<1> QED
  BY <1>2, <1>3, <1>4 DEF TypeOK

\* Queueing a submitted SRB keeps the types.
LEMMA QueueSubmittedTypes ==
  ASSUME TypeOK, NEW c \in Cpus, QueueSubmitted(c)
  PROVE  TypeOK'
<1>1. cur[c] \in Data
  BY DEF TypeOK, CpuTypes, QueueSubmitted, At, Holding
<1>2. SrbTypes' /\ RingTypes' /\ FlagTypes'
  BY DEF TypeOK, RingTypes, SrbTypes, FlagTypes, QueueSubmitted, ringVars
<1>3. QueueTypes'
  BY <1>1, InsertTailTypes DEF TypeOK, QueueSubmitted, QueueNames, Carries
<1>4. CpuTypes'
  BY <1>1, CpuMoves DEF TypeOK, CpuTypes, QueueSubmitted, Pcs
<1> QED
  BY <1>2, <1>3, <1>4 DEF TypeOK

\* Marking a submitted SRB pending keeps the types.
LEMMA MarkTypes ==
  ASSUME TypeOK, NEW c \in Cpus, Mark(c)
  PROVE  TypeOK'
<1>1. QueueTypes' /\ SrbTypes' /\ RingTypes' /\ FlagTypes'
  BY DEF TypeOK, QueueTypes, RingTypes, SrbTypes, FlagTypes, Mark, ringVars, SrbStatus
<1>2. "Push" \in Pcs /\ "Push" \notin Holding \cup {"Mark"}
  BY DEF Pcs, Holding
<1>3. CpuTypes'
  BY <1>2, CpuStep DEF TypeOK, CpuTypes, Mark, LetGo
<1> QED
  BY <1>1, <1>3 DEF TypeOK

\* Pushing the requests keeps the types.
LEMMA PushTypes ==
  ASSUME TypeOK, NEW c \in Cpus, Push(c)
  PROVE  TypeOK'
<1>1. QueueTypes' /\ SrbTypes' /\ FlagTypes'
  BY DEF TypeOK, QueueTypes, SrbTypes, FlagTypes, Push, srbVars
<1>2. RingTypes'
  BY LenProperties DEF TypeOK, RingTypes, Push
<1>3. CpuTypes'
  BY CpuMoves DEF TypeOK, CpuTypes, Push, Pcs, Holding
<1> QED
  BY <1>1, <1>2, <1>3 DEF TypeOK

\* The start of the event DPC keeps the types.
LEMMA StartDpcTypes ==
  ASSUME TypeOK, NEW c \in Cpus, StartDpc(c)
  PROVE  TypeOK'
<1>1. QueueTypes' /\ SrbTypes' /\ RingTypes' /\ FlagTypes'
  BY DEF TypeOK, QueueTypes, SrbTypes, RingTypes, FlagTypes, StartDpc, srbVars, ringVars
<1>2. CpuTypes'
  BY DEF TypeOK, CpuTypes, StartDpc, Goto, Pcs, Holding, cpuVars
<1> QED
  BY <1>1, <1>2 DEF TypeOK

\* The end of the event DPC keeps the types.
LEMMA UnmaskTypes ==
  ASSUME TypeOK, NEW c \in Cpus, Unmask(c)
  PROVE  TypeOK'
<1>1. QueueTypes' /\ SrbTypes' /\ RingTypes' /\ FlagTypes'
  BY DEF TypeOK, QueueTypes, SrbTypes, RingTypes, FlagTypes, Unmask, srbVars, ringVars
<1>2. CpuTypes'
  BY DEF TypeOK, CpuTypes, Unmask, Goto, Pcs, Holding
<1> QED
  BY <1>1, <1>2 DEF TypeOK

\* Entering the response loop keeps the types.
LEMMA EnterCompleteTypes ==
  ASSUME TypeOK, NEW c \in Cpus, EnterComplete(c)
  PROVE  TypeOK'
<1>1. QueueTypes' /\ SrbTypes' /\ RingTypes' /\ FlagTypes'
  BY DEF TypeOK, QueueTypes, SrbTypes, RingTypes, FlagTypes, EnterComplete,
         srbVars, ringVars
<1>2. CpuTypes'
  BY DEF TypeOK, CpuTypes, EnterComplete, Goto, Pcs, Holding
<1> QED
  BY <1>1, <1>2 DEF TypeOK

\* Leaving the response loop keeps the types.
LEMMA LeaveCompleteTypes ==
  ASSUME TypeOK, NEW c \in Cpus, LeaveComplete(c)
  PROVE  TypeOK'
<1>1. QueueTypes' /\ SrbTypes' /\ RingTypes' /\ FlagTypes'
  BY DEF TypeOK, QueueTypes, SrbTypes, RingTypes, FlagTypes, LeaveComplete,
         srbVars, ringVars
<1>2. CpuTypes'
  BY DEF TypeOK, CpuTypes, LeaveComplete, Goto, Pcs, Holding
<1> QED
  BY <1>1, <1>2 DEF TypeOK

\* The response at rsp_cons names a data SRB and one of the answers.
LEMMA NextRspType ==
  ASSUME RingTypes, rspCons < Len(rsps)
  PROVE  NextRsp \in Data \X Nat \X Answers
<1>1. rspCons + 1 \in 1 .. Len(rsps)
  BY LenProperties DEF RingTypes
<1> QED
  BY <1>1, ElementOfSeq DEF RingTypes, NextRsp

\* Consuming a response keeps the types.
LEMMA ConsumeResponseTypes ==
  ASSUME TypeOK, NEW c \in Cpus, ConsumeResponse(c)
  PROVE  TypeOK'
<1> DEFINE s == NextRsp[1]
           status == StatusAfter(srbStatus[s], NextRsp[3])
<1>1. s \in Data /\ s \in Srbs /\ NextRsp[3] \in Answers
  BY NextRspType DEF TypeOK, ConsumeResponse, Srbs
<1>2. status \in SrbStatus
  BY <1>1, ConstantsAssumption
     DEF TypeOK, SrbTypes, StatusAfter, SrbStatus, ConstantsAssumption
<1>3. CpuTypes'
  BY DEF TypeOK, CpuTypes, ConsumeResponse, cpuVars
<1>4. RingTypes' /\ FlagTypes'
  BY DEF TypeOK, RingTypes, FlagTypes, ConsumeResponse
<1>5. QueueTypes'
  BY RemoveFromTypes DEF TypeOK, QueueTypes, ConsumeResponse, QueueNames
<1>6. done' \in [Srbs -> Seq([srb : SrbStatus, scsi : ScsiStatus])]
  <2>1. CASE UNCHANGED done
    BY <2>1 DEF TypeOK, SrbTypes
  <2>2. CASE Complete(s, status, IF status = "Success" THEN "Good" ELSE "Aborted")
    BY <1>1, <1>2, <2>2, CompleteTypes DEF TypeOK, ScsiStatus
  <2> QED
    BY <2>1, <2>2 DEF ConsumeResponse
<1>7. srbStatus' \in [Srbs -> SrbStatus]
  BY <1>1, <1>2 DEF TypeOK, SrbTypes, ConsumeResponse
<1>8. requests' \in [Data -> SUBSET Nat]
  BY <1>1 DEF TypeOK, SrbTypes, ConsumeResponse
<1>9. issued' \subseteq Srbs /\ answers' \subseteq Data \X Nat \X Answers
  BY DEF TypeOK, SrbTypes, ConsumeResponse
<1> QED
  BY <1>3, <1>4, <1>5, <1>6, <1>7, <1>8, <1>9 DEF TypeOK, SrbTypes

\* Taking a fresh SRB keeps the types.
LEMMA PopFreshTypes ==
  ASSUME TypeOK, NEW c \in Cpus, PopFresh(c)
  PROVE  TypeOK'
<1>1. SrbTypes' /\ RingTypes' /\ FlagTypes'
  BY DEF TypeOK, RingTypes, SrbTypes, FlagTypes, PopFresh, ringVars
<1>2. QueueTypes'
  BY PopTypes DEF TypeOK, QueueTypes, PopFresh, QueueNames
<1>3. ret' \in [Cpus -> {"StartIo", "Dpc", "Reset", "ResetEnd"}]
  BY DEF TypeOK, CpuTypes, PopFresh
<1>4. CASE Goto(c, "Pop") /\ UNCHANGED cur
  <2>1. CpuTypes'
    BY <1>3, <1>4, CpuMoves DEF TypeOK, Pcs, Holding
  <2> QED
    BY <1>1, <1>2, <2>1 DEF TypeOK
<1>5. CASE /\ Pop("Fresh") /\ cur' = [cur EXCEPT ![c] = Head(queue["Fresh"])]
           /\ Goto(c, "PrepFresh")
  <2>1. Head(queue["Fresh"]) \in Data
    BY <1>5, PopTypes DEF TypeOK, QueueNames, Carries
  <2>2. CpuTypes'
    BY <1>3, <1>5, <2>1, CpuStep DEF TypeOK, Pcs, Holding, Srbs
  <2> QED
    BY <1>1, <1>2, <2>2 DEF TypeOK
<1> QED
  BY <1>4, <1>5 DEF PopFresh

\* The looks at the queues before a flush keep the types.
LEMMA PeekTypes ==
  ASSUME TypeOK, NEW c \in Cpus, PeekShutdown(c) \/ PeekOthers(c)
  PROVE  TypeOK'
<1>1. QueueTypes' /\ SrbTypes' /\ RingTypes' /\ FlagTypes'
  BY DEF TypeOK, QueueTypes, SrbTypes, RingTypes, FlagTypes, PeekShutdown, PeekOthers,
         srbVars, ringVars
<1>2. PICK l \in {"PeekFresh", "PeekPrepared", "PeekSubmitted", "PopShutdown",
                  AfterCallback(c)} : Goto(c, l)
  BY DEF PeekShutdown, PeekOthers, Peeks
<1>3. l \in Pcs \ (Holding \cup {"Mark"})
  BY Returns DEF TypeOK, Pcs, Holding
<1>4. UNCHANGED <<cur, ret>>
  BY DEF PeekShutdown, PeekOthers
<1>5. CpuTypes'
  BY <1>2, <1>3, <1>4, CpuMoves DEF TypeOK, CpuTypes
<1> QED
  BY <1>1, <1>5 DEF TypeOK

\* Completing a flush keeps the types.
LEMMA PopShutdownTypes ==
  ASSUME TypeOK, NEW c \in Cpus, PopShutdown(c)
  PROVE  TypeOK'
<1>1. RingTypes' /\ FlagTypes'
  BY DEF TypeOK, RingTypes, FlagTypes, PopShutdown, ringVars
<1>2. UNCHANGED <<requests, issued, answers, cur, ret>>
  BY DEF PopShutdown
<1>3. CASE Goto(c, AfterCallback(c)) /\ UNCHANGED <<queue, queueHead, srbStatus, done>>
  <2>1. CpuTypes'
    BY <1>2, <1>3, Returns, CpuMoves DEF TypeOK, CpuTypes
  <2> QED
    BY <1>1, <1>2, <1>3, <2>1 DEF TypeOK, QueueTypes, SrbTypes
<1>4. CASE /\ Pop("Shutdown")
           /\ srbStatus' = [srbStatus EXCEPT ![Head(queue["Shutdown"])] = "Success"]
           /\ Complete(Head(queue["Shutdown"]), "Success", "Good")
           /\ UNCHANGED pc
  <2>1. QueueTypes' /\ Head(queue["Shutdown"]) \in Srbs
    BY <1>4, PopTypes, CarriesSrbs DEF TypeOK, QueueNames
  <2>2. done' \in [Srbs -> Seq([srb : SrbStatus, scsi : ScsiStatus])]
    BY <1>4, <2>1, CompleteTypes DEF TypeOK, ScsiStatus, SrbStatus
  <2>3. srbStatus' \in [Srbs -> SrbStatus]
    BY <1>4 DEF TypeOK, SrbTypes, SrbStatus
  <2> QED
    BY <1>1, <1>2, <1>4, <2>1, <2>2, <2>3 DEF TypeOK, SrbTypes, CpuTypes
<1> QED
  BY <1>3, <1>4 DEF PopShutdown

\* The start of a reset keeps the types.
LEMMA StartResetTypes ==
  ASSUME TypeOK, NEW c \in Cpus, StartReset(c)
  PROVE  TypeOK'
<1>1. QueueTypes' /\ SrbTypes' /\ RingTypes'
  BY DEF TypeOK, QueueTypes, SrbTypes, RingTypes, StartReset, srbVars, ringVars
<1>2. CpuTypes'
  BY DEF TypeOK, CpuTypes, StartReset, Goto, Pcs, Holding
<1>3. budget.reset - 1 \in 0 .. MaxResets
  BY ConstantsAssumption DEF TypeOK, FlagTypes, Budgets, StartReset, ConstantsAssumption
<1>4. FlagTypes'
  BY <1>3 DEF TypeOK, FlagTypes, Budgets, StartReset
<1> QED
  BY <1>1, <1>2, <1>4 DEF TypeOK

\* Aborting a fresh SRB in a reset keeps the types.
LEMMA ResetFreshTypes ==
  ASSUME TypeOK, NEW c \in Cpus, ResetFresh(c)
  PROVE  TypeOK'
<1>a. RingTypes'
  BY DEF TypeOK, RingTypes, ResetFresh, ringVars
<1>b. FlagTypes'
  BY DEF TypeOK, FlagTypes, ResetFresh
<1>c. CpuTypes'
  <2>1. cur' = cur /\ ret' = ret /\ (pc' = pc \/ pc' = [pc EXCEPT ![c] = "ResetPeek"])
    BY DEF ResetFresh, Goto
  <2> QED
    BY <2>1 DEF TypeOK, CpuTypes, Pcs, Holding
<1>1. RingTypes' /\ FlagTypes' /\ CpuTypes'
  BY <1>a, <1>b, <1>c
<1>2. UNCHANGED <<requests, srbStatus, issued, answers>>
  BY DEF ResetFresh
<1>3. CASE UNCHANGED <<queue, queueHead, done>>
  BY <1>1, <1>2, <1>3 DEF TypeOK, QueueTypes, SrbTypes
<1>4. CASE /\ Pop("Fresh")
           /\ Complete(Head(queue["Fresh"]), srbStatus[Head(queue["Fresh"])], "Aborted")
  <2>1. QueueTypes' /\ Head(queue["Fresh"]) \in Srbs
    BY <1>4, PopTypes, CarriesSrbs DEF TypeOK, QueueNames
  <2>2. done' \in [Srbs -> Seq([srb : SrbStatus, scsi : ScsiStatus])]
    BY <1>4, <2>1, CompleteTypes DEF TypeOK, SrbTypes, ScsiStatus
  <2> QED
    BY <1>1, <1>2, <2>1, <2>2 DEF TypeOK, SrbTypes
<1> QED
  BY <1>3, <1>4 DEF ResetFresh

\* The reset's look at the other queues keeps the types.
LEMMA ResetPeekTypes ==
  ASSUME TypeOK, NEW c \in Cpus, ResetPeek(c)
  PROVE  TypeOK'
<1>1. QueueTypes' /\ SrbTypes' /\ RingTypes' /\ FlagTypes'
  BY DEF TypeOK, QueueTypes, SrbTypes, RingTypes, FlagTypes, ResetPeek, srbVars, ringVars
<1>2. CpuTypes'
  BY DEF TypeOK, CpuTypes, ResetPeek, Goto, Pcs, Holding
<1> QED
  BY <1>1, <1>2 DEF TypeOK

\* Pausing and unpausing the data path keep the types.
LEMMA PauseTypes ==
  ASSUME TypeOK, Pause \/ SeeDrained \/ Unpause
  PROVE  TypeOK'
<1>1. QueueTypes' /\ SrbTypes' /\ RingTypes' /\ CpuTypes'
  BY DEF TypeOK, QueueTypes, SrbTypes, RingTypes, CpuTypes, Pause, SeeDrained, Unpause,
         srbVars, ringVars, cpuVars
<1>2. CASE Pause
  <2>1. budget.power - 1 \in 0 .. MaxPowerCycles
    BY <1>2, ConstantsAssumption DEF TypeOK, FlagTypes, Budgets, Pause, ConstantsAssumption
  <2>2. FlagTypes'
    BY <1>2, <2>1 DEF TypeOK, FlagTypes, Budgets, Pause, PowerStates
  <2> QED
    BY <1>1, <2>2 DEF TypeOK
<1>3. CASE SeeDrained \/ Unpause
  BY <1>1, <1>3 DEF TypeOK, FlagTypes, SeeDrained, Unpause, PowerStates
<1> QED
  BY <1>2, <1>3

\* A step of the frontend's transition keeps the types.
LEMMA SetStateTypes ==
  ASSUME TypeOK, NEW c \in Cpus, NEW from, NEW to \in PowerStates,
         NEW step \in SettingState, SetState(c, from, to, step)
  PROVE  TypeOK'
<1>1. QueueTypes' /\ SrbTypes' /\ RingTypes' /\ FlagTypes'
  BY DEF TypeOK, QueueTypes, SrbTypes, RingTypes, FlagTypes, SetState, srbVars, ringVars
<1>2. CpuTypes'
  BY DEF TypeOK, CpuTypes, SetState, Goto, Pcs, Holding, SettingState
<1> QED
  BY <1>1, <1>2 DEF TypeOK

\* The steps taken under StateLock.
LEMMA SettingStateTypes ==
  ASSUME TypeOK, NEW c \in Cpus,
         Disable(c) \/ Close(c) \/ FreeRing(c) \/ NewRing(c) \/ Enable(c)
  PROVE  TypeOK'
<1>1. QueueTypes' /\ SrbTypes'
  BY DEF TypeOK, QueueTypes, SrbTypes, Disable, Close, FreeRing, NewRing, Enable, srbVars
<1>2. CpuTypes'
  BY DEF TypeOK, CpuTypes, Disable, Close, FreeRing, NewRing, Enable, Goto, Pcs,
         Holding, SettingState
<1>3. RingTypes'
  <2>1. ClearRing => RingTypes' \/ ~UNCHANGED ringLock \/ ringUp' \notin BOOLEAN
                       \/ backend' \notin BOOLEAN
    BY EmptySeq DEF TypeOK, RingTypes, ClearRing
  <2>2. CASE FreeRing(c) \/ NewRing(c)
    BY <2>1, <2>2 DEF TypeOK, RingTypes, FreeRing, NewRing
  <2>3. CASE Disable(c) \/ Close(c) \/ Enable(c)
    BY <2>3 DEF TypeOK, RingTypes, Disable, Close, Enable, ringVars
  <2> QED
    BY <2>2, <2>3
<1>4. FlagTypes'
  BY DEF TypeOK, FlagTypes, Disable, Close, FreeRing, NewRing, Enable, PowerStates
<1> QED
  BY <1>1, <1>2, <1>3, <1>4 DEF TypeOK

\* Aborting an SRB at power down keeps the types.
LEMMA AbortTypes ==
  ASSUME TypeOK, NEW state, NEW q \in {"Fresh", "Prepared", "Submitted"},
         NEW next \in PowerStates, Abort(state, q, next)
  PROVE  TypeOK'
<1>1. RingTypes' /\ CpuTypes' /\ FlagTypes'
  BY DEF TypeOK, RingTypes, CpuTypes, FlagTypes, Abort, ringVars, cpuVars
<1>2. UNCHANGED <<srbStatus, issued, answers>>
  BY DEF Abort
<1>3. CASE UNCHANGED <<queue, queueHead, requests, done>>
  BY <1>1, <1>2, <1>3 DEF TypeOK, QueueTypes, SrbTypes
<1>4. CASE /\ Pop(q)
           /\ Complete(Head(queue[q]), srbStatus[Head(queue[q])], "Aborted")
           /\ requests' = [requests EXCEPT ![Head(queue[q])] =
                             IF q = "Fresh" THEN @ ELSE {}]
  <2>1. QueueTypes' /\ Head(queue[q]) \in Data
    BY <1>4, PopTypes DEF TypeOK, QueueNames, Carries
  <2>2. done' \in [Srbs -> Seq([srb : SrbStatus, scsi : ScsiStatus])]
    BY <1>4, <2>1, CompleteTypes DEF TypeOK, SrbTypes, ScsiStatus, Srbs
  <2>3. requests' \in [Data -> SUBSET Nat]
    BY <1>4, <2>1 DEF TypeOK, SrbTypes
  <2> QED
    BY <1>1, <1>2, <2>1, <2>2, <2>3 DEF TypeOK, SrbTypes
<1> QED
  BY <1>3, <1>4 DEF Abort

\* A suspend, which requeues every SRB, keeps the types.
LEMMA SuspendTypes ==
  ASSUME TypeOK, Suspend
  PROVE  TypeOK'
<1>1. CpuTypes'
  BY DEF TypeOK, CpuTypes, Suspend, PreResume, cpuVars
<1>2. QueueTypes'
  <2>1. /\ queue["Submitted"] \in Seq(Data) /\ queue["Prepared"] \in Seq(Data)
        /\ queue["Fresh"] \in Seq(Data)
    BY DEF TypeOK, QueueTypes, QueueNames, Carries
  <2> DEFINE new == queue["Submitted"] \o queue["Prepared"] \o queue["Fresh"]
  <2>2. new \in Seq(Data)
    BY <2>1, ConcatProperties
  <2>3. << >> \in Seq(Data) /\ Seq(Data) \subseteq Seq(Srbs)
    BY EmptySeq, SeqMonotonic DEF Srbs
  <2>4. queue' = [queue EXCEPT !["Fresh"] = new,
                    !["Prepared"] = << >>, !["Submitted"] = << >>]
    BY DEF TypeOK, QueueTypes, QueueNames, Suspend, PreResume
  <2>5. queueHead' \in [Srbs -> QueueNames \cup {None}]
    BY DEF TypeOK, QueueTypes, Suspend, PreResume, QueueNames
  <2> HIDE DEF new
  <2>6. queue' \in [QueueNames -> Seq(Srbs)]
    BY <2>2, <2>3, <2>4 DEF TypeOK, QueueTypes
  <2>7. \A q \in QueueNames : queue'[q] \in Seq(Carries(q))
    BY <2>2, <2>3, <2>4 DEF TypeOK, QueueTypes, QueueNames, Carries
  <2> QED
    BY <2>5, <2>6, <2>7 DEF QueueTypes
<1>3. SrbTypes'
  BY DEF TypeOK, SrbTypes, Suspend, PreResume, SrbStatus
<1>4. RingTypes'
  <2>1. CASE ClearRing
    BY <2>1, EmptySeq DEF TypeOK, RingTypes, Suspend, PreResume, ClearRing
  <2>2. CASE UNCHANGED <<reqs, pushed, rsps, rspCons>>
    BY <2>2 DEF TypeOK, RingTypes, Suspend, PreResume
  <2> QED
    BY <2>1, <2>2 DEF Suspend, PreResume
<1>5. FlagTypes'
  <2>1. budget.suspend - 1 \in 0 .. MaxSuspends
    BY ConstantsAssumption DEF TypeOK, FlagTypes, Budgets, Suspend, PreResume, ConstantsAssumption
  <2>2. budget' \in Budgets
    BY <2>1 DEF TypeOK, FlagTypes, Budgets, Suspend, PreResume
  <2> QED
    BY <2>2 DEF TypeOK, FlagTypes, Suspend, PreResume, Trigger, Interrupt
<1> QED
  BY <1>1, <1>2, <1>3, <1>4, <1>5 DEF TypeOK

\* The backend keeps the types.
LEMMA BackendTypes ==
  ASSUME TypeOK, Backend
  PROVE  TypeOK'
<1>1. QueueTypes' /\ CpuTypes' /\ FlagTypes'
  BY DEF TypeOK, QueueTypes, CpuTypes, FlagTypes, Backend, Interrupt, cpuVars
<1>2. PICK i \in 1 .. pushed, a \in Answers :
        /\ rsps' = Append(rsps, <<reqs[i][1], reqs[i][2], a>>)
        /\ answers' = answers \cup {<<reqs[i][1], reqs[i][2], a>>}
  BY DEF Backend
<1>3. reqs[i] \in Data \X Nat
  <2>1. i \in 1 .. Len(reqs)
    BY LenProperties DEF TypeOK, RingTypes
  <2> QED
    BY <2>1, ElementOfSeq DEF TypeOK, RingTypes
<1>4. <<reqs[i][1], reqs[i][2], a>> \in Data \X Nat \X Answers
  BY <1>3
<1>5. SrbTypes'
  BY <1>2, <1>4 DEF TypeOK, SrbTypes, Backend
<1>6. rsps' \in Seq(Data \X Nat \X Answers)
  BY <1>2, <1>4, AppendProperties DEF TypeOK, RingTypes
<1>7. RingTypes'
  BY <1>6 DEF TypeOK, RingTypes, Backend
<1> QED
  BY <1>1, <1>5, <1>7 DEF TypeOK

\* A bugcheck keeps the types.
LEMMA BugcheckTypes ==
  ASSUME TypeOK, NEW c \in Cpus, Bugcheck(c)
  PROVE  TypeOK'
BY DEF TypeOK, QueueTypes, SrbTypes, CpuTypes, RingTypes, FlagTypes, Bugcheck,
       srbVars, cpuVars, ringVars

-----------------------------------------------------------------------------
\* What PdoCreate leaves is well typed.
LEMMA InitTypes == Init => TypeOK
<1> SUFFICES ASSUME Init PROVE TypeOK
  OBVIOUS
<1>1. \A S : << >> \in Seq(S)
  BY EmptySeq
<1>2. QueueTypes
  BY <1>1 DEF Init, QueueTypes
<1>3. SrbTypes /\ CpuTypes
  BY <1>1 DEF Init, SrbTypes, CpuTypes, SrbStatus, Pcs, Holding
<1>4. RingTypes
  BY <1>1, EmptySeq DEF Init, RingTypes
<1>5. FlagTypes
  <2>1. budget \in Budgets
    BY ConstantsAssumption DEF Init, Budgets, ConstantsAssumption
  <2> QED
    BY <2>1 DEF Init, FlagTypes, PowerStates
<1> QED
  BY <1>2, <1>3, <1>4, <1>5 DEF TypeOK

\* Every step keeps the types.
LEMMA NextTypes == TypeOK /\ [Next]_vars => TypeOK'
<1> SUFFICES ASSUME TypeOK, [Next]_vars PROVE TypeOK'
  OBVIOUS
<1>1. CASE UNCHANGED vars
  BY <1>1 DEF vars, srbVars, cpuVars, ringVars, TypeOK, QueueTypes, SrbTypes, CpuTypes,
     RingTypes, FlagTypes
<1>2. ASSUME NEW c \in Cpus, StartIo(c) \/ StartReset(c) \/ PowerUp(c)
      PROVE  TypeOK'
  BY <1>2, StartDataTypes, StartFlushTypes, StartResetTypes, SetStateTypes
     DEF StartIo, PowerUp, PowerStates, SettingState
<1>3. ASSUME NEW c \in Cpus, SubmitLoop(c)
      PROVE  TypeOK'
  BY <1>3, PopPreparedTypes, SubmitTypes, PutBackTypes, QueueSubmittedTypes, MarkTypes,
     PushTypes DEF SubmitLoop
<1>4. ASSUME NEW c \in Cpus, Callback(c)
      PROVE  TypeOK'
  BY <1>4, EnterCompleteTypes, ConsumeResponseTypes, LeaveCompleteTypes, PopFreshTypes,
     PeekTypes, PopShutdownTypes DEF Callback
<1>5. ASSUME NEW c \in Cpus, Run(c)
      PROVE  TypeOK'
  BY <1>3, <1>4, <1>5, PrepareOkTypes, PrepareFailsTypes, StartDpcTypes, UnmaskTypes,
     ResetFreshTypes, ResetPeekTypes, SettingStateTypes, BugcheckTypes DEF Run
<1>6. CASE PowerThread
  <2>1. ASSUME NEW c \in Cpus, SetState(c, "Drained", "Closing", "Disable")
        PROVE  TypeOK'
    BY <2>1, SetStateTypes DEF PowerStates, SettingState
  <2>2. CASE \/ Abort("AbortFresh", "Fresh", "AbortPrepared")
             \/ Abort("AbortPrepared", "Prepared", "AbortSubmitted")
             \/ Abort("AbortSubmitted", "Submitted", "D3")
    BY <2>2, AbortTypes DEF PowerStates
  <2> QED
    BY <1>6, <2>1, <2>2, PauseTypes DEF PowerThread
<1> QED
  BY <1>1, <1>2, <1>5, <1>6, PauseTypes, SuspendTypes, BackendTypes DEF Next

\* Every variable of the data path keeps its type: no queue holds an SRB of
\* another queue's kind (the PdoStartIo dispatch), the SRB a CPU has in hand is a
\* data SRB, req_prod never runs ahead of the requests put on the ring.
THEOREM TypeCorrect == Spec => []TypeOK
<1>1. Init => TypeOK
  BY InitTypes
<1>2. TypeOK /\ [Next]_vars => TypeOK'
  BY NextTypes
<1> QED
  BY <1>1, <1>2, PTL DEF Spec

-----------------------------------------------------------------------------
(* Who owns an SRB: the four queues and the CPUs' hands never share one, and StorPort   *)
(* is given at most one completion for it.  The proofs hold for any number of CPUs, so  *)
(* for every interleaving of StartIo, the DPC, a reset, a power transition and a        *)
(* resume, and for any number of SRBs.                                                  *)
(*                                                                                      *)
(* Ownership is inductive.  InsertSafe and CompletedOnce are not: without QueuesAgree a *)
(* queue could hold an SRB whose QueueHead is None, and Pop would hand out an SRB that  *)
(* another CPU holds; without DoneOnce an SRB could have been completed before it was   *)
(* issued.                                                                              *)

\* An element of queue q names q as its QueueHead.
LEMMA QueueElement ==
  ASSUME QueueTypes, NEW q \in QueueNames, NEW i \in 1 .. Len(queue[q])
  PROVE  queue[q][i] \in Srbs /\ queue[q][i] # None
<1>1. queue[q][i] \in Srbs
  BY ElementOfSeq DEF QueueTypes
<1> QED
  BY <1>1, ConstantsAssumption DEF ConstantsAssumption

\* QueuesAgree survives the change of one queue, when every SRB the queue then
\* holds names it, and the SRBs of the other queues still name theirs.
LEMMA AgreeReplaced ==
  ASSUME QueueTypes, QueuesAgree, NEW q \in QueueNames, NEW new,
         queue' = [queue EXCEPT ![q] = new],
         \A i, j \in 1 .. Len(new) :
           queueHead'[new[i]] = q /\ (new[i] = new[j] => i = j),
         NEW s \in Srbs, queueHead[s] \in {q, None},
         \A t \in Srbs \ {s} : queueHead'[t] = queueHead[t]
  PROVE  QueuesAgree'
<1> SUFFICES ASSUME NEW p \in QueueNames,
                    NEW i \in 1 .. Len(queue'[p]), NEW j \in 1 .. Len(queue'[p])
             PROVE  /\ queueHead'[queue'[p][i]] = p
                    /\ queue'[p][i] = queue'[p][j] => i = j
  BY DEF QueuesAgree
<1>1. CASE p = q
  BY <1>1 DEF QueueTypes
<1>2. CASE p # q
  <2>1. queue'[p] = queue[p]
    BY <1>2 DEF QueueTypes
  <2>2. queueHead[queue[p][i]] = p /\ (queue[p][i] = queue[p][j] => i = j)
    BY <2>1 DEF QueuesAgree
  <2>3. queue[p][i] \in Srbs \ {s}
    BY <1>2, <2>1, <2>2, QueueElement, ConstantsAssumption DEF ConstantsAssumption
  <2> QED
    BY <2>1, <2>2, <2>3
<1> QED
  BY <1>1, <1>2

\* QueueInsertTail of an SRB that is on no queue keeps the queues in agreement.
LEMMA InsertTailAgrees ==
  ASSUME QueueTypes, QueuesAgree, NEW q \in QueueNames, NEW s \in Srbs,
         queueHead[s] = None, InsertTail(q, s)
  PROVE  QueuesAgree'
<1> DEFINE new == Append(queue[q], s)
           n == Len(queue[q])
<1>1. queue[q] \in Seq(Srbs) /\ n \in Nat
  BY LenProperties DEF QueueTypes
<1>2. /\ Len(new) = n + 1 /\ new[n + 1] = s
      /\ \A i \in 1 .. n : new[i] = queue[q][i]
  BY <1>1, AppendProperties
<1>3. queueHead' = [queueHead EXCEPT ![s] = q] /\ queue' = [queue EXCEPT ![q] = new]
  BY DEF InsertTail
<1>4. \A i, j \in 1 .. n : /\ queue[q][i] \in Srbs /\ queueHead[queue[q][i]] = q
                           /\ queue[q][i] # s
                           /\ queue[q][i] = queue[q][j] => i = j
  BY QueueElement, ConstantsAssumption DEF QueuesAgree, ConstantsAssumption
<1> HIDE DEF new, n
<1>5. \A i, j \in 1 .. Len(new) : queueHead'[new[i]] = q /\ (new[i] = new[j] => i = j)
  <2> SUFFICES ASSUME NEW i \in 1 .. n + 1, NEW j \in 1 .. n + 1
               PROVE  queueHead'[new[i]] = q /\ (new[i] = new[j] => i = j)
    BY <1>2
  <2>1. queueHead'[new[i]] = q
    <3>1. CASE i = n + 1
      BY <1>2, <1>3, <3>1 DEF QueueTypes
    <3>2. CASE i \in 1 .. n
      BY <1>2, <1>3, <1>4, <3>2 DEF QueueTypes
    <3> QED
      BY <1>1, <3>1, <3>2
  <2>2. new[i] = new[j] => i = j
    <3>1. CASE i = n + 1 /\ j = n + 1
      BY <3>1
    <3>2. CASE i \in 1 .. n /\ j \in 1 .. n
      BY <1>1, <1>2, <1>4, <3>2
    <3>3. CASE i = n + 1 /\ j \in 1 .. n
      BY <1>1, <1>2, <1>4, <3>3
    <3>4. CASE i \in 1 .. n /\ j = n + 1
      BY <1>1, <1>2, <1>4, <3>4
    <3> QED
      BY <1>1, <3>1, <3>2, <3>3, <3>4
  <2> QED
    BY <2>1, <2>2
<1> QED
  BY <1>3, <1>5, AgreeReplaced DEF QueueTypes

\* QueueInsertHead of an SRB that is on no queue keeps the queues in agreement.
LEMMA InsertHeadAgrees ==
  ASSUME QueueTypes, QueuesAgree, NEW q \in QueueNames, NEW s \in Srbs,
         queueHead[s] = None, InsertHead(q, s)
  PROVE  QueuesAgree'
<1> DEFINE new == <<s>> \o queue[q]
           n == Len(queue[q])
<1>1. queue[q] \in Seq(Srbs) /\ n \in Nat
  BY LenProperties DEF QueueTypes
<1>2. /\ Len(new) = n + 1 /\ new[1] = s
      /\ \A i \in 2 .. n + 1 : new[i] = queue[q][i - 1]
  BY <1>1
<1>3. queueHead' = [queueHead EXCEPT ![s] = q] /\ queue' = [queue EXCEPT ![q] = new]
  BY DEF InsertHead
<1>4. \A i, j \in 1 .. n : /\ queue[q][i] \in Srbs /\ queueHead[queue[q][i]] = q
                           /\ queue[q][i] # s
                           /\ queue[q][i] = queue[q][j] => i = j
  BY QueueElement, ConstantsAssumption DEF QueuesAgree, ConstantsAssumption
<1> HIDE DEF new, n
<1>5. \A i, j \in 1 .. Len(new) : queueHead'[new[i]] = q /\ (new[i] = new[j] => i = j)
  <2> SUFFICES ASSUME NEW i \in 1 .. n + 1, NEW j \in 1 .. n + 1
               PROVE  queueHead'[new[i]] = q /\ (new[i] = new[j] => i = j)
    BY <1>2
  <2>1. \A k \in 2 .. n + 1 : k - 1 \in 1 .. n
    BY <1>1
  <2>2. queueHead'[new[i]] = q
    BY <1>1, <1>2, <1>3, <1>4, <2>1 DEF QueueTypes
  <2>3. new[i] = new[j] => i = j
    <3>1. \A k \in 2 .. n + 1 : new[k] = queue[q][k - 1] /\ new[k] # s
      BY <1>2, <1>4, <2>1
    <3>2. CASE i = 1 \/ j = 1
      BY <1>1, <1>2, <3>1, <3>2
    <3>3. CASE i \in 2 .. n + 1 /\ j \in 2 .. n + 1
      <4>1. new[i] = new[j] => i - 1 = j - 1
        BY <1>4, <2>1, <3>1, <3>3
      <4> QED
        BY <1>1, <4>1
    <3> QED
      BY <1>1, <3>2, <3>3
  <2> QED
    BY <2>2, <2>3
<1> QED
  BY <1>3, <1>5, AgreeReplaced DEF QueueTypes

\* What Pop hands out named the queue, and no longer does.
LEMMA PopAgrees ==
  ASSUME QueueTypes, QueuesAgree, NEW q \in QueueNames, Pop(q)
  PROVE  /\ QueuesAgree'
         /\ Head(queue[q]) \in Srbs /\ queueHead[Head(queue[q])] = q
<1> DEFINE s == Head(queue[q])
           new == Tail(queue[q])
           n == Len(queue[q])
<1>1. queue[q] \in Seq(Srbs) /\ n \in Nat \ {0} /\ s = queue[q][1]
  BY HeadTail DEF QueueTypes, Pop
<1>2. Len(new) = n - 1 /\ \A i \in 1 .. n - 1 : new[i] = queue[q][i + 1]
  BY <1>1, HeadTail DEF Pop
<1>3. queueHead' = [queueHead EXCEPT ![s] = None] /\ queue' = [queue EXCEPT ![q] = new]
  BY DEF Pop
<1>4. \A i, j \in 1 .. n : /\ queue[q][i] \in Srbs /\ queueHead[queue[q][i]] = q
                           /\ queue[q][i] = queue[q][j] => i = j
  BY QueueElement DEF QueuesAgree
<1>5. s \in Srbs /\ queueHead[s] = q
  BY <1>1, <1>4
<1> HIDE DEF new, n, s
<1>6. \A i, j \in 1 .. Len(new) : queueHead'[new[i]] = q /\ (new[i] = new[j] => i = j)
  <2> SUFFICES ASSUME NEW i \in 1 .. n - 1, NEW j \in 1 .. n - 1
               PROVE  queueHead'[new[i]] = q /\ (new[i] = new[j] => i = j)
    BY <1>2
  <2>1. i + 1 \in 1 .. n /\ j + 1 \in 1 .. n /\ 1 \in 1 .. n /\ i + 1 # 1
    BY <1>1
  <2>2. new[i] # s /\ new[i] \in Srbs /\ queueHead[new[i]] = q
    BY <1>1, <1>2, <1>4, <2>1
  <2>3. queueHead'[new[i]] = q
    BY <1>3, <2>2 DEF QueueTypes
  <2>4. new[i] = new[j] => i = j
    BY <1>2, <1>4, <2>1
  <2> QED
    BY <2>3, <2>4
<1>7. \A t \in Srbs \ {s} : queueHead'[t] = queueHead[t]
  BY <1>3, <1>5 DEF QueueTypes
<1>8. QueuesAgree'
  BY <1>3, <1>5, <1>6, <1>7, AgreeReplaced
<1> QED
  BY <1>5, <1>8 DEF s

\* QueueRemove keeps the queues in agreement.
LEMMA RemoveFromAgrees ==
  ASSUME QueueTypes, QueuesAgree, NEW q \in QueueNames, NEW s \in Srbs,
         RemoveFrom(q, s)
  PROVE  QueuesAgree' /\ queueHead[s] = q
<1>1. PICK k \in 1 .. Len(queue[q]) :
        queue[q][k] = s /\ queue' = [queue EXCEPT ![q] = RemoveAt(queue[q], k)]
  BY DEF RemoveFrom
<1> DEFINE new == RemoveAt(queue[q], k)
           n == Len(queue[q])
           at(i) == IF i < k THEN i ELSE i + 1
<1>2. queue[q] \in Seq(Srbs) /\ n \in Nat
  BY LenProperties DEF QueueTypes
<1>3. Len(new) = n - 1 /\ \A i \in 1 .. n - 1 : new[i] = queue[q][at(i)]
  BY <1>2, RemoveAtShifts
<1>4. queueHead' = [queueHead EXCEPT ![s] = None]
  BY DEF RemoveFrom
<1>5. \A i, j \in 1 .. n : /\ queue[q][i] \in Srbs /\ queueHead[queue[q][i]] = q
                           /\ queue[q][i] = queue[q][j] => i = j
  BY QueueElement DEF QueuesAgree
<1>6. queueHead[s] = q
  BY <1>1, <1>5
<1>7. \A i, j \in 1 .. n - 1 : /\ at(i) \in 1 .. n /\ at(i) # k
                               /\ at(i) = at(j) => i = j
  BY <1>1, <1>2
<1> HIDE DEF new, n, at
<1>8. \A i, j \in 1 .. Len(new) : queueHead'[new[i]] = q /\ (new[i] = new[j] => i = j)
  <2> SUFFICES ASSUME NEW i \in 1 .. n - 1, NEW j \in 1 .. n - 1
               PROVE  queueHead'[new[i]] = q /\ (new[i] = new[j] => i = j)
    BY <1>3
  <2>1. new[i] # s /\ new[i] \in Srbs /\ queueHead[new[i]] = q
    BY <1>1, <1>3, <1>5, <1>7 DEF n
  <2>2. queueHead'[new[i]] = q
    BY <1>4, <2>1 DEF QueueTypes
  <2>3. new[i] = new[j] => i = j
    BY <1>3, <1>5, <1>7
  <2> QED
    BY <2>2, <2>3
<1>9. \A t \in Srbs \ {s} : queueHead'[t] = queueHead[t]
  BY <1>4 DEF QueueTypes
<1> QED
  BY <1>1, <1>6, <1>8, <1>9, AgreeReplaced DEF new

-----------------------------------------------------------------------------
\* What a step may do to the rest of Ownership.

\* No CPU gets an SRB into its hands: those that hold one held it before.
NoneTaken == \A c \in Cpus, s \in Srbs : Holds(c, s)' => Holds(c, s)

\* A step that leaves the queues, the completions and the issued SRBs alone.
LEMMA Quiet ==
  ASSUME TypeOK, Ownership, UNCHANGED <<queue, queueHead, done, issued>>, NoneTaken
  PROVE  Ownership'
<1>1. QueuesAgree' /\ QueuedOpen' /\ DoneOnce'
  BY DEF Ownership, QueuesAgree, QueuedOpen, DoneOnce, Open
<1>2. HeldOpen'
  BY DEF Ownership, HeldOpen, Open, NoneTaken
<1> QED
  BY <1>1, <1>2 DEF Ownership

\* c takes s from a queue into its hands.
LEMMA Taken ==
  ASSUME TypeOK, Ownership, QueuesAgree', NEW c \in Cpus, NEW s \in Srbs,
         queueHead[s] # None, queueHead' = [queueHead EXCEPT ![s] = None],
         UNCHANGED <<done, issued>>,
         \A d \in Cpus \ {c}, t \in Srbs : Holds(d, t)' => Holds(d, t),
         \A t \in Srbs : Holds(c, t)' => t = s
  PROVE  Ownership'
<1>1. queueHead' \in [Srbs -> QueueNames \cup {None}] /\ queueHead'[s] = None
      /\ \A t \in Srbs \ {s} : queueHead'[t] = queueHead[t]
  BY DEF TypeOK, QueueTypes
<1>2. QueuedOpen' /\ DoneOnce'
  BY <1>1 DEF Ownership, QueuedOpen, DoneOnce, Open
<1>3. Open(s) /\ \A d \in Cpus : ~Holds(d, s)
  BY DEF Ownership, QueuedOpen, HeldOpen
<1>4. HeldOpen'
  BY <1>1, <1>3 DEF Ownership, HeldOpen, Open
<1> QED
  BY <1>2, <1>4 DEF Ownership

\* c puts the SRB in its hands on queue q.
LEMMA Put ==
  ASSUME TypeOK, Ownership, QueuesAgree', NEW c \in Cpus, NEW s \in Srbs, Holds(c, s),
         NEW q \in QueueNames, queueHead' = [queueHead EXCEPT ![s] = q],
         UNCHANGED <<done, issued>>, NoneTaken, ~Holds(c, s)'
  PROVE  Ownership'
<1>1. \A t \in Srbs \ {s} : queueHead'[t] = queueHead[t]
  BY DEF TypeOK, QueueTypes
<1>2. Open(s) /\ \A d \in Cpus \ {c} : ~Holds(d, s)
  BY DEF Ownership, HeldOpen
<1>3. QueuedOpen' /\ DoneOnce'
  BY <1>1, <1>2 DEF Ownership, QueuedOpen, DoneOnce, Open
<1>4. \A d \in Cpus : ~Holds(d, s)'
  BY <1>2 DEF NoneTaken
<1>5. HeldOpen'
  BY <1>1, <1>4 DEF Ownership, HeldOpen, Open, NoneTaken
<1> QED
  BY <1>3, <1>5 DEF Ownership

\* An SRB is taken off a queue and completed.
LEMMA Finished ==
  ASSUME TypeOK, Ownership, QueuesAgree', NEW s \in Srbs, queueHead[s] # None,
         queueHead' = [queueHead EXCEPT ![s] = None],
         NEW srb \in SrbStatus, NEW scsi \in ScsiStatus, Complete(s, srb, scsi),
         UNCHANGED issued, NoneTaken
  PROVE  Ownership'
<1>1. queueHead'[s] = None /\ \A t \in Srbs \ {s} : queueHead'[t] = queueHead[t]
  BY DEF TypeOK, QueueTypes
<1>2. Open(s) /\ \A d \in Cpus : ~Holds(d, s)
  BY DEF Ownership, QueuedOpen, HeldOpen
<1> DEFINE r == [srb |-> srb, scsi |-> scsi]
<1>3. done'[s] = << r >> /\ \A t \in Srbs \ {s} : done'[t] = done[t]
  <2>1. done' = [done EXCEPT ![s] = Append(@, r)]
    BY DEF Complete
  <2> HIDE DEF r
  <2>2. done'[s] = Append(<< >>, r)
    BY <1>2, <2>1 DEF TypeOK, SrbTypes, Open
  <2> QED
    BY <2>1, <2>2 DEF TypeOK, SrbTypes
<1>4. Len(done'[s]) = 1
  BY <1>3
<1>5. QueuedOpen'
  BY <1>1, <1>3 DEF Ownership, QueuedOpen, Open
<1>6. DoneOnce'
  <2> SUFFICES ASSUME NEW t \in Srbs
               PROVE  Len(done'[t]) <= 1 /\ (t \notin issued => done'[t] = << >>)
    BY DEF DoneOnce
  <2>1. CASE t = s
    <3>1. s \in issued
      BY <1>2 DEF Open
    <3>2. Len(done'[s]) <= 1
      BY <1>4
    <3> HIDE DEF r
    <3> QED
      BY <2>1, <3>1, <3>2
  <2>2. CASE t # s
    BY <1>3, <2>2 DEF Ownership, DoneOnce
  <2> QED
    BY <2>1, <2>2
<1>7. \A d \in Cpus : ~Holds(d, s)'
  BY <1>2 DEF NoneTaken
<1>8. HeldOpen'
  BY <1>1, <1>3, <1>7 DEF Ownership, HeldOpen, Open, NoneTaken
<1> QED
  BY <1>5, <1>6, <1>8 DEF Ownership

-----------------------------------------------------------------------------
\* Ownership, one lemma per action that disturbs it.

\* PdoStartIo with a new data SRB keeps ownership.
LEMMA StartDataOwns ==
  ASSUME TypeOK, Ownership, NEW c \in Cpus, NEW s \in Data, StartData(c, s)
  PROVE  Ownership'
<1>1. s \in Srbs /\ s \notin issued /\ issued' = issued \cup {s}
      /\ UNCHANGED <<queue, queueHead>>
  BY DEF StartData, Srbs
<1>2. /\ queueHead[s] = None /\ done[s] = << >>
      /\ \A d \in Cpus : ~Holds(d, s)
  BY <1>1 DEF Ownership, QueuedOpen, HeldOpen, DoneOnce, Open
<1>3. QueuesAgree'
  BY <1>1 DEF Ownership, QueuesAgree
<1>4. CASE UNCHANGED <<pc, cur>> /\ \E srb \in SrbStatus, scsi \in ScsiStatus :
             Complete(s, srb, scsi)
  <2>1. PICK srb \in SrbStatus, scsi \in ScsiStatus : Complete(s, srb, scsi)
    BY <1>4
  <2> DEFINE r == [srb |-> srb, scsi |-> scsi]
  <2>2. done' = [done EXCEPT ![s] = Append(@, r)]
    BY <2>1 DEF Complete
  <2> HIDE DEF r
  <2>3. done'[s] = << r >> /\ \A t \in Srbs \ {s} : done'[t] = done[t]
    BY <1>1, <1>2, <2>2 DEF TypeOK, SrbTypes
  <2>4. Len(done'[s]) = 1
    BY <2>3
  <2>7. DoneOnce'
    <3> SUFFICES ASSUME NEW t \in Srbs
                 PROVE  Len(done'[t]) <= 1 /\ (t \notin issued' => done'[t] = << >>)
      BY DEF DoneOnce
    <3>1. CASE t = s
      <4>1. Len(done'[t]) = 1
        BY <2>4, <3>1
      <4>2. t \in issued'
        BY <1>1, <3>1
      <4> QED
        BY <4>1, <4>2
    <3>2. CASE t # s
      BY <1>1, <2>3, <3>2 DEF Ownership, DoneOnce
    <3> QED
      BY <3>1, <3>2
  <2>5. QueuedOpen'
    BY <1>1, <1>2, <2>3 DEF Ownership, QueuedOpen, Open
  <2>6. HeldOpen'
    BY <1>1, <1>2, <1>4, <2>3 DEF Ownership, HeldOpen, Open, Holds
  <2> QED
    BY <1>3, <2>5, <2>6, <2>7 DEF Ownership
<1>5. CASE /\ Goto(c, "Prepare") /\ cur' = [cur EXCEPT ![c] = s] /\ UNCHANGED done
  <2>1. QueuedOpen' /\ DoneOnce'
    BY <1>1, <1>5 DEF Ownership, QueuedOpen, DoneOnce, Open
  <2>2. \A d \in Cpus \ {c}, t \in Srbs : Holds(d, t)' => Holds(d, t)
    BY <1>5 DEF TypeOK, CpuTypes, Holds, Goto
  <2>3. \A t \in Srbs : Holds(c, t)' => t = s
    BY <1>5 DEF TypeOK, CpuTypes, Holds
  <2>4. HeldOpen'
    BY <1>1, <1>2, <1>5, <2>2, <2>3 DEF Ownership, HeldOpen, Open
  <2> QED
    BY <1>3, <2>1, <2>4 DEF Ownership
<1>6. srbStatus[s] \in SrbStatus
  BY <1>1 DEF TypeOK, SrbTypes
<1> QED
  BY <1>4, <1>5, <1>6 DEF StartData, cpuVars, SrbStatus, ScsiStatus

\* PdoStartIo with a new flush keeps ownership.
LEMMA StartFlushOwns ==
  ASSUME TypeOK, Ownership, NEW c \in Cpus, NEW f \in Flushes, StartFlush(c, f)
  PROVE  Ownership'
<1>1. /\ f \in Srbs /\ f \notin issued /\ issued' = issued \cup {f}
      /\ UNCHANGED <<done, pc, cur>>
      /\ InsertTail("Shutdown", f)
  BY DEF StartFlush, Srbs, cpuVars
<1>2. /\ queueHead[f] = None /\ done[f] = << >>
      /\ \A d \in Cpus : ~Holds(d, f)
  BY <1>1 DEF Ownership, QueuedOpen, HeldOpen, DoneOnce, Open
<1>3. QueuesAgree'
  BY <1>1, <1>2, InsertTailAgrees DEF TypeOK, Ownership, QueueNames
<1>4. \A t \in Srbs \ {f} : queueHead'[t] = queueHead[t]
  BY <1>1 DEF InsertTail, TypeOK, QueueTypes
<1>5. QueuedOpen' /\ DoneOnce'
  BY <1>1, <1>2, <1>4 DEF Ownership, QueuedOpen, DoneOnce, Open
<1>6. \A d \in Cpus, t \in Srbs : Holds(d, t)' <=> Holds(d, t)
  BY <1>1 DEF Holds
<1>7. HeldOpen'
  BY <1>1, <1>2, <1>4, <1>6 DEF Ownership, HeldOpen, Open
<1> QED
  BY <1>3, <1>5, <1>7 DEF Ownership

\* PrepareOk, PrepareFails, PutBack and QueueSubmitted put down what c holds.
LEMMA PutDownOwns ==
  ASSUME TypeOK, Ownership, NEW c \in Cpus,
         PrepareOk(c) \/ PrepareFails(c) \/ PutBack(c) \/ QueueSubmitted(c)
  PROVE  Ownership'
<1>0. PICK s \in Srbs : s = cur[c] /\ pc[c] \in Holding
  BY DEF TypeOK, CpuTypes, PrepareOk, PrepareFails, PutBack, QueueSubmitted, At,
         Holding, Holds, Srbs
<1>1. Holds(c, s)
  BY <1>0 DEF Holds
<1>2. queueHead[s] = None
  BY <1>1 DEF Ownership, HeldOpen
<1>3. PICK q \in QueueNames : InsertTail(q, s) \/ InsertHead(q, s)
  BY <1>0 DEF PrepareOk, PrepareFails, PutBack, QueueSubmitted, QueueNames
<1>4. QueuesAgree' /\ queueHead' = [queueHead EXCEPT ![s] = q]
  BY <1>1, <1>2, <1>3, InsertTailAgrees, InsertHeadAgrees
     DEF TypeOK, Ownership, InsertTail, InsertHead
<1>5. PICK l \in Pcs \ Holding : Goto(c, l)
  <2>1. AfterSubmit(c) \in Pcs \ Holding
    BY Returns DEF TypeOK
  <2> QED
    BY <2>1 DEF PrepareOk, PrepareFails, PutBack, QueueSubmitted, Pcs, Holding
<1>6. \A d \in Cpus \ {c} : pc'[d] = pc[d] /\ cur'[d] = cur[d]
  BY <1>5 DEF TypeOK, CpuTypes, PrepareOk, PrepareFails, PutBack, QueueSubmitted,
              Goto, LetGo
<1>7. pc'[c] \notin Holding
  BY <1>5 DEF TypeOK, CpuTypes, Goto
<1>8. UNCHANGED <<done, issued>>
  BY DEF PrepareOk, PrepareFails, PutBack, QueueSubmitted
<1>9. NoneTaken /\ ~Holds(c, s)'
  BY <1>6, <1>7 DEF NoneTaken, Holds
<1> QED
  BY <1>1, <1>3, <1>4, <1>8, <1>9, Put

\* PopPrepared and PopFresh: c takes what it pops.
LEMMA PopOwns ==
  ASSUME TypeOK, Ownership, NEW c \in Cpus, PopPrepared(c) \/ PopFresh(c)
  PROVE  Ownership'
<1>1. UNCHANGED <<done, issued>>
  BY DEF PopPrepared, PopFresh
<1>2. CASE /\ UNCHANGED <<queue, queueHead, cur>>
           /\ \E l \in Pcs \ Holding : Goto(c, l)
  <2>1. NoneTaken
    BY <1>2 DEF TypeOK, CpuTypes, NoneTaken, Holds, Goto
  <2> QED
    BY <1>1, <1>2, <2>1, Quiet
<1>3. ASSUME NEW q \in QueueNames, Pop(q), NEW l \in Pcs, Goto(c, l),
             cur' = [cur EXCEPT ![c] = Head(queue[q])]
      PROVE  Ownership'
  <2> DEFINE s == Head(queue[q])
  <2>1. s \in Srbs /\ queueHead[s] = q /\ QueuesAgree'
    BY <1>3, PopAgrees DEF TypeOK, Ownership
  <2>2. queueHead' = [queueHead EXCEPT ![s] = None]
    BY <1>3 DEF Pop
  <2> HIDE DEF s
  <2>3. \A d \in Cpus \ {c} : pc'[d] = pc[d] /\ cur'[d] = cur[d]
    BY <1>3 DEF TypeOK, CpuTypes, Goto
  <2>4. cur'[c] = s
    BY <1>3 DEF TypeOK, CpuTypes, s
  <2>5. \A d \in Cpus \ {c}, t \in Srbs : Holds(d, t)' => Holds(d, t)
    BY <2>3 DEF Holds
  <2>6. \A t \in Srbs : Holds(c, t)' => t = s
    BY <2>4 DEF Holds
  <2>7. queueHead[s] # None
    BY <2>1, ConstantsAssumption DEF ConstantsAssumption
  <2> QED
    BY <1>1, <2>1, <2>2, <2>5, <2>6, <2>7, Taken
<1>4. CASE PopPrepared(c)
  <2>1. AfterSubmit(c) \in Pcs \ Holding
    BY Returns DEF TypeOK
  <2> QED
    BY <1>2, <1>3, <1>4, <2>1 DEF PopPrepared, QueueNames, Pcs, Holding
<1>5. CASE PopFresh(c)
  BY <1>2, <1>3, <1>5 DEF PopFresh, QueueNames, Pcs, Holding
<1> QED
  BY <1>4, <1>5

\* Popping an SRB and completing it.
LEMMA PopCompletes ==
  ASSUME TypeOK, Ownership, NEW q \in QueueNames, Pop(q),
         NEW srb \in SrbStatus, NEW scsi \in ScsiStatus,
         Complete(Head(queue[q]), srb, scsi), UNCHANGED issued, NoneTaken
  PROVE  Ownership'
<1> DEFINE s == Head(queue[q])
<1>1. s \in Srbs /\ queueHead[s] = q /\ QueuesAgree'
  BY PopAgrees DEF TypeOK, Ownership
<1>2. queueHead' = [queueHead EXCEPT ![s] = None]
  BY DEF Pop
<1> HIDE DEF s
<1>3. queueHead[s] # None
  BY <1>1, ConstantsAssumption DEF ConstantsAssumption
<1>4. Complete(s, srb, scsi)
  BY DEF s
<1> QED
  BY <1>1, <1>2, <1>3, <1>4, Finished

\* The last response completes an SRB that is on SubmittedSrbs: ownership is kept.
LEMMA ConsumeResponseOwns ==
  ASSUME TypeOK, Ownership, NEW c \in Cpus, ConsumeResponse(c)
  PROVE  Ownership'
<1> DEFINE s == NextRsp[1]
           status == StatusAfter(srbStatus[s], NextRsp[3])
<1>1. s \in Srbs /\ NextRsp[3] \in Answers
  BY NextRspType DEF TypeOK, ConsumeResponse, Srbs
<1>2. status \in SrbStatus
  BY <1>1, ConstantsAssumption
     DEF TypeOK, SrbTypes, StatusAfter, SrbStatus, ConstantsAssumption
<1>3. UNCHANGED issued /\ NoneTaken
  BY DEF ConsumeResponse, NoneTaken, Holds, cpuVars
<1>4. CASE UNCHANGED <<queue, queueHead, done>>
  BY <1>3, <1>4, Quiet
<1>5. ASSUME RemoveFrom("Submitted", s),
             Complete(s, status, IF status = "Success" THEN "Good" ELSE "Aborted")
      PROVE  Ownership'
  <2>1. QueuesAgree' /\ queueHead[s] = "Submitted"
    BY <1>1, <1>5, RemoveFromAgrees DEF TypeOK, Ownership, QueueNames
  <2>2. queueHead' = [queueHead EXCEPT ![s] = None] /\ queueHead[s] # None
    BY <1>5, <2>1, ConstantsAssumption DEF RemoveFrom, ConstantsAssumption, QueueNames
  <2> HIDE DEF s, status
  <2> QED
    BY <1>1, <1>2, <1>3, <1>5, <2>1, <2>2, Finished DEF ScsiStatus
<1> QED
  BY <1>4, <1>5 DEF ConsumeResponse

\* Completing a flush keeps ownership.
LEMMA PopShutdownOwns ==
  ASSUME TypeOK, Ownership, NEW c \in Cpus, PopShutdown(c)
  PROVE  Ownership'
<1>1. NoneTaken
  <2>1. AfterCallback(c) \in Pcs \ Holding
    BY Returns DEF TypeOK
  <2> QED
    BY <2>1 DEF TypeOK, CpuTypes, PopShutdown, NoneTaken, Holds, Goto
<1>2. CASE UNCHANGED <<queue, queueHead, srbStatus, done>>
  BY <1>1, <1>2, Quiet DEF PopShutdown
<1>3. CASE Pop("Shutdown") /\ Complete(Head(queue["Shutdown"]), "Success", "Good")
  BY <1>1, <1>3, PopCompletes DEF PopShutdown, QueueNames, SrbStatus, ScsiStatus
<1> QED
  BY <1>2, <1>3 DEF PopShutdown

\* ResetFresh and PdoAbortAllSrbs complete an SRB with the status it has.
LEMMA AbortOwns ==
  ASSUME TypeOK, Ownership,
         \/ \E c \in Cpus : ResetFresh(c)
         \/ \E q \in {"Fresh", "Prepared", "Submitted"}, state, next \in PowerStates :
              Abort(state, q, next)
  PROVE  Ownership'
<1>1. NoneTaken /\ UNCHANGED issued
  BY DEF TypeOK, CpuTypes, ResetFresh, Abort, NoneTaken, Holds, Goto, Holding, cpuVars
<1>2. CASE UNCHANGED <<queue, queueHead, done>>
  BY <1>1, <1>2, Quiet
<1>3. CASE \E q \in {"Fresh", "Prepared", "Submitted"} :
             Pop(q) /\ Complete(Head(queue[q]), srbStatus[Head(queue[q])], "Aborted")
  <2>1. PICK q \in {"Fresh", "Prepared", "Submitted"} :
          Pop(q) /\ Complete(Head(queue[q]), srbStatus[Head(queue[q])], "Aborted")
    BY <1>3
  <2>2. srbStatus[Head(queue[q])] \in SrbStatus
    BY <2>1, PopAgrees DEF TypeOK, SrbTypes, Ownership, QueueNames
  <2> QED
    BY <1>1, <2>1, <2>2, PopCompletes DEF QueueNames, ScsiStatus
<1> QED
  BY <1>2, <1>3 DEF ResetFresh, Abort

\* The SRBs of x differ from each other, and name queues in P.
Distinct(x, P) ==
  \A i, j \in 1 .. Len(x) : queueHead[x[i]] \in P /\ (x[i] = x[j] => i = j)

\* Two queues without duplicates, whose SRBs name different queues, are joined
\* without duplicates.
LEMMA JoinDistinct ==
  ASSUME NEW x \in Seq(Srbs), NEW y \in Seq(Srbs), NEW P, NEW Q, P \cap Q = {},
         Distinct(x, P), Distinct(y, Q)
  PROVE  x \o y \in Seq(Srbs) /\ Distinct(x \o y, P \cup Q)
<1> DEFINE z == x \o y
           a == Len(x)
           b == Len(y)
<1>1. /\ z \in Seq(Srbs) /\ Len(z) = a + b /\ a \in Nat /\ b \in Nat
      /\ \A i \in 1 .. a + b : z[i] = IF i <= a THEN x[i] ELSE y[i - a]
  BY ConcatProperties, LenProperties
<1> HIDE DEF z, a, b
<1>2. ASSUME NEW i \in 1 .. a + b
      PROVE  /\ i <= a => i \in 1 .. a /\ z[i] = x[i] /\ queueHead[z[i]] \in P
             /\ ~(i <= a) => i - a \in 1 .. b /\ z[i] = y[i - a] /\ queueHead[z[i]] \in Q
  <2>1. CASE i <= a
    <3>1. i \in 1 .. a
      BY <1>1, <2>1
    <3> QED
      BY <1>1, <2>1, <3>1 DEF a, Distinct
  <2>2. CASE ~(i <= a)
    <3>1. i - a \in 1 .. b
      BY <1>1, <2>2
    <3> QED
      BY <1>1, <2>2, <3>1 DEF b, Distinct
  <2> QED
    BY <2>1, <2>2
<1>3. ASSUME NEW i \in 1 .. a + b, NEW j \in 1 .. a + b, z[i] = z[j]
      PROVE  i = j
  <2>1. i <= a <=> j <= a
    BY <1>2, <1>3
  <2>2. CASE i <= a
    BY <1>2, <1>3, <2>1, <2>2 DEF a, Distinct
  <2>3. CASE ~(i <= a)
    <3>1. i - a = j - a
      BY <1>2, <1>3, <2>1, <2>3 DEF b, Distinct
    <3> QED
      BY <1>1, <3>1
  <2> QED
    BY <2>2, <2>3
<1> QED
  BY <1>1, <1>2, <1>3 DEF z, Distinct

\* PdoPreResume joins SubmittedSrbs and PreparedSrbs to FreshSrbs.
LEMMA SuspendOwns ==
  ASSUME TypeOK, Ownership, Suspend
  PROVE  Ownership'
<1> DEFINE sub == queue["Submitted"]
           pre == queue["Prepared"]
           fre == queue["Fresh"]
           new == sub \o pre \o fre
<1>1. sub \in Seq(Srbs) /\ pre \in Seq(Srbs) /\ fre \in Seq(Srbs)
  BY DEF TypeOK, QueueTypes, QueueNames
<1>2. /\ queue'["Fresh"] = new /\ queue'["Shutdown"] = queue["Shutdown"]
      /\ queue'["Prepared"] = << >> /\ queue'["Submitted"] = << >>
  BY DEF TypeOK, QueueTypes, QueueNames, Suspend, PreResume
<1>3. \A s \in Srbs : queueHead'[s] =
        IF queueHead[s] \in {"Prepared", "Submitted"} THEN "Fresh" ELSE queueHead[s]
  BY DEF Suspend, PreResume
<1>4. UNCHANGED <<done, issued, pc, cur>>
  BY DEF Suspend, PreResume, cpuVars
<1>5. \A q \in QueueNames : \A i, j \in 1 .. Len(queue[q]) :
        /\ queue[q][i] \in Srbs /\ queueHead[queue[q][i]] = q
        /\ queue[q][i] = queue[q][j] => i = j
  BY QueueElement DEF TypeOK, Ownership, QueuesAgree
<1>6. new \in Seq(Srbs) /\ Distinct(new, {"Submitted", "Prepared", "Fresh"})
  <2>1. /\ Distinct(sub, {"Submitted"}) /\ Distinct(pre, {"Prepared"})
        /\ Distinct(fre, {"Fresh"})
    BY <1>5 DEF QueueNames, Distinct
  <2> DEFINE two == sub \o pre
  <2> HIDE DEF sub, pre, fre
  <2>2. two \in Seq(Srbs) /\ Distinct(two, {"Submitted"} \cup {"Prepared"})
    BY <1>1, <2>1, JoinDistinct
  <2> HIDE DEF two
  <2>3. two \o fre \in Seq(Srbs)
        /\ Distinct(two \o fre, {"Submitted"} \cup {"Prepared"} \cup {"Fresh"})
    BY <1>1, <2>1, <2>2, JoinDistinct
  <2>4. {"Submitted"} \cup {"Prepared"} \cup {"Fresh"} =
          {"Submitted", "Prepared", "Fresh"}
    OBVIOUS
  <2> QED
    BY <2>3, <2>4 DEF two
<1> HIDE DEF new
<1>7. QueuesAgree'
  <2> SUFFICES ASSUME NEW q \in QueueNames,
                      NEW i \in 1 .. Len(queue'[q]), NEW j \in 1 .. Len(queue'[q])
               PROVE  /\ queueHead'[queue'[q][i]] = q
                      /\ queue'[q][i] = queue'[q][j] => i = j
    BY DEF QueuesAgree
  <2>1. CASE q = "Fresh"
    <3>1. new[i] \in Srbs
      BY <1>2, <1>6, <2>1, ElementOfSeq
    <3> QED
      BY <1>2, <1>3, <1>6, <2>1, <3>1 DEF Distinct
  <2>2. CASE q = "Shutdown"
    BY <1>2, <1>3, <1>5, <2>2
  <2>3. CASE q \in {"Prepared", "Submitted"}
    BY <1>2, <2>3
  <2> QED
    BY <2>1, <2>2, <2>3 DEF QueueNames
<1>8. \A s \in Srbs : queueHead'[s] = None <=> queueHead[s] = None
  BY <1>3, ConstantsAssumption DEF ConstantsAssumption, QueueNames
<1>9. QueuedOpen' /\ DoneOnce'
  BY <1>4, <1>8 DEF Ownership, QueuedOpen, DoneOnce, Open
<1>10. HeldOpen'
  <2>1. \A c \in Cpus, s \in Srbs : Holds(c, s)' <=> Holds(c, s)
    BY <1>4 DEF Holds
  <2> QED
    BY <1>4, <1>8, <2>1 DEF Ownership, HeldOpen, Open
<1> QED
  BY <1>7, <1>9, <1>10 DEF Ownership

\* The actions that touch no queue and complete nothing.
LEMMA QuietOwns ==
  ASSUME TypeOK, Ownership,
         \/ \E c \in Cpus :
              \/ Submit(c) \/ Mark(c) \/ Push(c) \/ StartDpc(c) \/ Unmask(c)
              \/ EnterComplete(c) \/ LeaveComplete(c)
              \/ StartReset(c) \/ ResetPeek(c)
              \/ Disable(c) \/ Close(c) \/ FreeRing(c) \/ NewRing(c) \/ Enable(c)
              \/ PowerUp(c) \/ SetState(c, "Drained", "Closing", "Disable")
              \/ Bugcheck(c)
         \/ Pause \/ SeeDrained \/ Unpause \/ Backend \/ UNCHANGED vars
  PROVE  Ownership'
<1>1. UNCHANGED <<queue, queueHead, done, issued>>
  BY DEF Submit, Mark, Push, StartDpc, Unmask, EnterComplete, LeaveComplete, StartReset,
         ResetPeek, Disable, Close, FreeRing, NewRing, Enable, PowerUp, SetState, Bugcheck,
         Pause, SeeDrained, Unpause, Backend, vars, srbVars
<1>2. ASSUME NEW c \in Cpus,
             \/ Submit(c) \/ Mark(c) \/ Push(c) \/ StartDpc(c) \/ Unmask(c)
             \/ EnterComplete(c) \/ LeaveComplete(c)
      PROVE  NoneTaken
  BY <1>2, SMTT(30) DEF Submit, Mark, Push, StartDpc, Unmask, EnterComplete,
         LeaveComplete, TypeOK, cpuVars, CpuTypes, NoneTaken, Holds, Holding, Goto, LetGo, At
<1>3. ASSUME NEW c \in Cpus,
             \/ StartReset(c) \/ ResetPeek(c) \/ Disable(c) \/ Close(c) \/ FreeRing(c)
      PROVE  NoneTaken
  BY <1>3, SMTT(30) DEF StartReset, ResetPeek, Disable, Close, FreeRing, TypeOK, CpuTypes,
         NoneTaken, Holds, Holding, Goto, LetGo, At
<1>4. ASSUME NEW c \in Cpus,
             \/ NewRing(c) \/ Enable(c) \/ PowerUp(c)
             \/ SetState(c, "Drained", "Closing", "Disable") \/ Bugcheck(c)
      PROVE  NoneTaken
  BY <1>4, SMTT(30) DEF NewRing, Enable, PowerUp, SetState, Bugcheck, cpuVars, TypeOK, CpuTypes,
         NoneTaken, Holds, Holding, Goto, LetGo, At
<1>5. ASSUME Pause \/ SeeDrained \/ Unpause \/ Backend \/ UNCHANGED vars
      PROVE  NoneTaken
  BY <1>5 DEF Pause, SeeDrained, Unpause, Backend, vars, cpuVars, NoneTaken, Holds
<1>6. NoneTaken
  BY <1>2, <1>3, <1>4, <1>5
<1> QED
  BY <1>1, <1>6, Quiet

\* The looks at the queues keep ownership.
LEMMA PeekOwns ==
  ASSUME TypeOK, Ownership, NEW c \in Cpus, PeekShutdown(c) \/ PeekOthers(c)
  PROVE  Ownership'
<1>1. UNCHANGED <<queue, queueHead, done, issued, cur>>
  BY DEF PeekShutdown, PeekOthers, srbVars
<1>2. PICK l \in Pcs \ Holding : Goto(c, l)
  <2>1. AfterCallback(c) \in Pcs \ Holding
    BY Returns DEF TypeOK
  <2>2. {"PeekFresh", "PeekPrepared", "PeekSubmitted", "PopShutdown"} \subseteq Pcs \ Holding
    BY DEF Pcs, Holding
  <2>3. CASE PeekShutdown(c)
    BY <2>1, <2>2, <2>3 DEF PeekShutdown
  <2>4. CASE PeekOthers(c)
    BY <2>1, <2>2, <2>4 DEF PeekOthers, Peeks
  <2> QED
    BY <2>3, <2>4
<1>3. NoneTaken
  BY <1>1, <1>2 DEF TypeOK, CpuTypes, NoneTaken, Holds, Goto
<1> QED
  BY <1>1, <1>3, Quiet

-----------------------------------------------------------------------------
\* Nothing is queued, held or completed at the start.
LEMMA InitOwns == Init => Ownership
<1> SUFFICES ASSUME Init PROVE Ownership
  OBVIOUS
<1>1. \A q \in QueueNames : Len(queue[q]) = 0
  BY EmptySeq DEF Init
<1>2. \A s \in Srbs : done[s] = << >> /\ Len(done[s]) = 0 /\ queueHead[s] = None
  BY EmptySeq DEF Init
<1>3. QueuesAgree
  BY <1>1 DEF QueuesAgree
<1>4. QueuedOpen /\ HeldOpen /\ DoneOnce
  BY <1>2 DEF Init, QueuedOpen, HeldOpen, DoneOnce, Holds, Holding
<1> QED
  BY <1>3, <1>4 DEF Ownership

\* Every step keeps ownership.
LEMMA NextOwns == TypeOK /\ Ownership /\ [Next]_vars => Ownership'
<1> SUFFICES ASSUME TypeOK, Ownership, [Next]_vars PROVE Ownership'
  OBVIOUS
<1>1. ASSUME NEW c \in Cpus, StartIo(c) \/ StartReset(c) \/ PowerUp(c)
      PROVE  Ownership'
  BY <1>1, StartDataOwns, StartFlushOwns, QuietOwns DEF StartIo
<1>2. ASSUME NEW c \in Cpus, SubmitLoop(c)
      PROVE  Ownership'
  BY <1>2, PopOwns, PutDownOwns, QuietOwns DEF SubmitLoop
<1>3. ASSUME NEW c \in Cpus, Callback(c)
      PROVE  Ownership'
  BY <1>3, QuietOwns, ConsumeResponseOwns, PopOwns, PeekOwns, PopShutdownOwns DEF Callback
<1>4. ASSUME NEW c \in Cpus, Run(c)
      PROVE  Ownership'
  BY <1>2, <1>3, <1>4, PutDownOwns, AbortOwns, QuietOwns DEF Run
<1>5. CASE PowerThread
  BY <1>5, QuietOwns, AbortOwns DEF PowerThread, PowerStates
<1> QED
  BY <1>1, <1>4, <1>5, QuietOwns, SuspendOwns DEF Next

\* The queues, SrbExt->QueueHead and the CPUs' hands agree about where an SRB is,
\* and an SRB is in one place only, in every interleaving of the data path.
THEOREM OwnershipHolds == Spec => []Ownership
<1>1. Init => TypeOK /\ Ownership
  BY InitTypes, InitOwns
<1>2. TypeOK /\ Ownership /\ [Next]_vars => TypeOK' /\ Ownership'
  BY NextTypes, NextOwns
<1> QED
  BY <1>1, <1>2, PTL DEF Spec

\* The ASSERTs of __QueueInsertHeadLocked and __QueueInsertTailLocked (queue.c:70,
\* 92) never fail: what a CPU inserts is on no queue and in no other CPU's hands.
THEOREM InsertsAreSafe == Spec => []InsertSafe
<1>1. TypeOK /\ Ownership => InsertSafe
  <2> SUFFICES ASSUME TypeOK, Ownership, NEW c \in Cpus, pc[c] \in Holding
               PROVE  /\ queueHead[cur[c]] = None
                      /\ \A d \in Cpus \ {c} : pc[d] \in Holding => cur[d] # cur[c]
    BY DEF InsertSafe
  <2>1. cur[c] \in Srbs /\ Holds(c, cur[c])
    BY DEF TypeOK, CpuTypes, Holds, Srbs
  <2> QED
    BY <2>1 DEF Ownership, HeldOpen, Holds
<1> QED
  BY <1>1, TypeCorrect, OwnershipHolds, PTL

\* FdoCompleteSrb is called at most once for an SRB, and never for an SRB that
\* is still on a queue.
THEOREM CompletionsAreUnique == Spec => []CompletedOnce
<1>1. Ownership => CompletedOnce
  BY DEF Ownership, CompletedOnce, DoneOnce, QueuedOpen, Open
<1> QED
  BY <1>1, OwnershipHolds, PTL

-----------------------------------------------------------------------------
\* Nothing is lost.  Accounted is inductive with two facts beside Ownership: an SRB
\* that names a queue is on it, and an open SRB names a queue or is in a CPU's hands.
On(s, x) == \E i \in 1 .. Len(x) : x[i] = s

HeadsTrue == \A s \in Srbs : queueHead[s] # None => On(s, queue[queueHead[s]])

Placed == \A s \in issued : done[s] = << >> =>
            queueHead[s] # None \/ \E c \in Cpus : Holds(c, s)

\* HeadsTrue survives the change of one queue that concerns one SRB.
LEMMA HeadsReplaced ==
  ASSUME QueueTypes, HeadsTrue, NEW q \in QueueNames, NEW new, NEW s \in Srbs,
         queue' = [queue EXCEPT ![q] = new],
         \A t \in Srbs \ {s} : queueHead'[t] = queueHead[t],
         queueHead'[s] = None \/ (queueHead'[s] = q /\ On(s, new)),
         \A t \in Srbs \ {s} : queueHead[t] = q => On(t, new)
  PROVE  HeadsTrue'
<1> SUFFICES ASSUME NEW t \in Srbs, queueHead'[t] # None
             PROVE  On(t, queue'[queueHead'[t]])
  BY DEF HeadsTrue, On
<1>1. queueHead'[t] = q \/ (t # s /\ queueHead'[t] = queueHead[t] /\ queueHead[t] \in QueueNames \ {q})
  BY DEF QueueTypes
<1>2. CASE queueHead'[t] = q
  <2>1. queue'[q] = new
    BY DEF QueueTypes
  <2>2. On(t, new)
    BY <1>2, ConstantsAssumption DEF ConstantsAssumption
  <2> QED
    BY <1>2, <2>1, <2>2
<1>3. CASE t # s /\ queueHead'[t] = queueHead[t] /\ queueHead[t] \in QueueNames \ {q}
  <2>1. queue'[queueHead[t]] = queue[queueHead[t]]
    BY <1>3 DEF QueueTypes
  <2>2. queueHead[t] # None
    BY <1>3
  <2>3. On(t, queue[queueHead[t]])
    BY <2>2 DEF HeadsTrue
  <2> QED
    BY <1>3, <2>1, <2>3
<1> QED
  BY <1>1, <1>2, <1>3

\* QueueInsertTail and QueueInsertHead keep HeadsTrue.
LEMMA InsertKeepsHeads ==
  ASSUME QueueTypes, HeadsTrue, NEW q \in QueueNames, NEW s \in Srbs,
         queueHead[s] = None, InsertTail(q, s) \/ InsertHead(q, s)
  PROVE  HeadsTrue'
<1> DEFINE n == Len(queue[q])
           last == Append(queue[q], s)
           first == <<s>> \o queue[q]
<1>1. queue[q] \in Seq(Srbs) /\ n \in Nat
  BY LenProperties DEF QueueTypes
<1>2. /\ Len(last) = n + 1 /\ last[n + 1] = s
      /\ \A i \in 1 .. n : last[i] = queue[q][i]
  BY <1>1, AppendProperties
<1>3. /\ Len(first) = n + 1 /\ first[1] = s
      /\ \A i \in 1 .. n : first[i + 1] = queue[q][i]
  BY <1>1
<1>4. queueHead'[s] = q /\ \A t \in Srbs \ {s} : queueHead'[t] = queueHead[t]
  BY DEF InsertTail, InsertHead, QueueTypes
<1>5. \A t \in Srbs : queueHead[t] = q => \E i \in 1 .. n : queue[q][i] = t
  BY ConstantsAssumption DEF HeadsTrue, On, ConstantsAssumption
<1>6. CASE queue' = [queue EXCEPT ![q] = last]
  <2> HIDE DEF last, n
  <2>1. On(s, last)
    BY <1>1, <1>2 DEF On
  <2>2. \A t \in Srbs \ {s} : queueHead[t] = q => On(t, last)
    BY <1>1, <1>2, <1>5 DEF On
  <2>3. queueHead'[s] = q /\ On(s, last)
    BY <1>4, <2>1
  <2> QED
    BY <1>4, <1>6, <2>2, <2>3, HeadsReplaced
<1>7. CASE queue' = [queue EXCEPT ![q] = first]
  <2> HIDE DEF first, n
  <2>1. On(s, first)
    BY <1>1, <1>3 DEF On
  <2>2. ASSUME NEW t \in Srbs \ {s}, queueHead[t] = q
        PROVE  On(t, first)
    <3>1. PICK i \in 1 .. n : queue[q][i] = t
      BY <1>5, <2>2
    <3>2. i + 1 \in 1 .. Len(first) /\ first[i + 1] = t
      BY <1>1, <1>3, <3>1
    <3> QED
      BY <3>2 DEF On
  <2>3. queueHead'[s] = q /\ On(s, first)
    BY <1>4, <2>1
  <2> QED
    BY <1>4, <1>7, <2>2, <2>3, HeadsReplaced
<1> QED
  BY <1>6, <1>7 DEF InsertTail, InsertHead

\* QueuePop keeps HeadsTrue.
LEMMA PopKeepsHeads ==
  ASSUME QueueTypes, QueuesAgree, HeadsTrue, NEW q \in QueueNames, Pop(q)
  PROVE  HeadsTrue'
<1> DEFINE s == Head(queue[q])
           new == Tail(queue[q])
           n == Len(queue[q])
<1>1. queue[q] \in Seq(Srbs) /\ n \in Nat \ {0} /\ s = queue[q][1]
  BY HeadTail DEF QueueTypes, Pop
<1>2. Len(new) = n - 1 /\ \A i \in 1 .. n - 1 : new[i] = queue[q][i + 1]
  BY <1>1, HeadTail DEF Pop
<1>3. s \in Srbs
  BY PopAgrees
<1>4. queueHead' = [queueHead EXCEPT ![s] = None] /\ queue' = [queue EXCEPT ![q] = new]
  BY DEF Pop
<1>5. \A t \in Srbs : queueHead[t] = q => \E i \in 1 .. n : queue[q][i] = t
  BY ConstantsAssumption DEF HeadsTrue, On, ConstantsAssumption
<1> HIDE DEF s, new, n
<1>6. queueHead'[s] = None /\ \A t \in Srbs \ {s} : queueHead'[t] = queueHead[t]
  BY <1>3, <1>4 DEF QueueTypes
<1>7. ASSUME NEW t \in Srbs \ {s}, queueHead[t] = q
      PROVE  On(t, new)
  <2>1. PICK i \in 1 .. n : queue[q][i] = t
    BY <1>5, <1>7
  <2>2. i - 1 \in 1 .. n - 1 /\ (i - 1) + 1 = i
    BY <1>1, <2>1
  <2> QED
    BY <1>2, <2>1, <2>2 DEF On
<1> QED
  BY <1>3, <1>4, <1>6, <1>7, HeadsReplaced

\* QueueRemove keeps HeadsTrue.
LEMMA RemoveKeepsHeads ==
  ASSUME QueueTypes, QueuesAgree, HeadsTrue, NEW q \in QueueNames, NEW s \in Srbs,
         RemoveFrom(q, s)
  PROVE  HeadsTrue'
<1>1. PICK k \in 1 .. Len(queue[q]) :
        queue[q][k] = s /\ queue' = [queue EXCEPT ![q] = RemoveAt(queue[q], k)]
  BY DEF RemoveFrom
<1> DEFINE new == RemoveAt(queue[q], k)
           n == Len(queue[q])
<1>2. queue[q] \in Seq(Srbs) /\ n \in Nat
  BY LenProperties DEF QueueTypes
<1>3. /\ Len(new) = n - 1
      /\ \A i \in 1 .. n - 1 : new[i] = IF i < k THEN queue[q][i] ELSE queue[q][i + 1]
  BY <1>2, RemoveAtShifts
<1>4. queueHead'[s] = None /\ \A t \in Srbs \ {s} : queueHead'[t] = queueHead[t]
  BY DEF RemoveFrom, QueueTypes
<1>5. \A t \in Srbs : queueHead[t] = q => \E i \in 1 .. n : queue[q][i] = t
  BY ConstantsAssumption DEF HeadsTrue, On, ConstantsAssumption
<1> HIDE DEF new
<1>6. ASSUME NEW t \in Srbs \ {s}, queueHead[t] = q
      PROVE  On(t, new)
  <2>1. PICK i \in 1 .. n : queue[q][i] = t
    BY <1>5, <1>6
  <2>2. i # k
    BY <1>1, <2>1
  <2>3. CASE i < k
    <3>1. i \in 1 .. n - 1
      BY <1>1, <1>2, <2>3
    <3> QED
      BY <1>3, <2>1, <2>3, <3>1 DEF On
  <2>4. CASE ~(i < k)
    <3>1. i - 1 \in 1 .. n - 1 /\ ~(i - 1 < k) /\ (i - 1) + 1 = i
      BY <1>1, <1>2, <2>2, <2>4
    <3> QED
      BY <1>3, <2>1, <3>1 DEF On
  <2> QED
    BY <2>3, <2>4
<1> QED
  BY <1>1, <1>4, <1>6, HeadsReplaced DEF new

NothingLost == HeadsTrue /\ Placed

\* No CPU lets go of an SRB.
NoneDropped == \A c \in Cpus, s \in Srbs : Holds(c, s) => Holds(c, s)'

\* A step that changes no queue, completes nothing and lets go of nothing loses nothing.
LEMMA QuietLosesNone ==
  ASSUME TypeOK, NothingLost, UNCHANGED <<queue, queueHead, done, issued>>, NoneDropped
  PROVE  NothingLost'
<1>1. HeadsTrue'
  BY DEF NothingLost, HeadsTrue, On
<1>2. Placed'
  <2> SUFFICES ASSUME NEW s \in issued, done[s] = << >>, queueHead[s] = None
               PROVE  \E c \in Cpus : Holds(c, s)'
    BY DEF Placed, Holds
  <2>1. s \in Srbs
    BY DEF TypeOK, SrbTypes
  <2>2. PICK c \in Cpus : Holds(c, s)
    BY DEF NothingLost, Placed
  <2> QED
    BY <2>1, <2>2 DEF NoneDropped
<1> QED
  BY <1>1, <1>2 DEF NothingLost

\* A step that moves one SRB: onto a queue, into a CPU's hands or to its completion.
LEMMA MovedLosesNone ==
  ASSUME TypeOK, NothingLost, HeadsTrue', NEW s \in Srbs,
         issued' \subseteq issued \cup {s},
         \/ done'[s] # << >>
         \/ queueHead'[s] # None
         \/ \E c \in Cpus : Holds(c, s)',
         \A t \in Srbs \ {s} : /\ done'[t] = done[t] /\ queueHead'[t] = queueHead[t]
                               /\ \A c \in Cpus : Holds(c, t) => Holds(c, t)'
  PROVE  NothingLost'
<1>1. Placed'
  <2> SUFFICES ASSUME NEW t \in issued', done'[t] = << >>, queueHead'[t] = None
               PROVE  \E c \in Cpus : Holds(c, t)'
    BY DEF Placed, Holds
  <2>1. CASE t = s
    BY <2>1
  <2>2. CASE t # s
    <3>1. t \in issued /\ t \in Srbs \ {s}
      BY <2>2 DEF TypeOK, SrbTypes
    <3>2. done[t] = << >> /\ queueHead[t] = None
      BY <3>1
    <3>3. PICK c \in Cpus : Holds(c, t)
      BY <3>1, <3>2 DEF NothingLost, Placed
    <3> QED
      BY <3>1, <3>3
  <2> QED
    BY <2>1, <2>2
<1> QED
  BY <1>1 DEF NothingLost

\* A completion is recorded, and the others' histories stay.
LEMMA CompleteRecords ==
  ASSUME SrbTypes, NEW s \in Srbs, NEW srb, NEW scsi, Complete(s, srb, scsi)
  PROVE  done'[s] # << >> /\ \A t \in Srbs \ {s} : done'[t] = done[t]
<1> DEFINE R == [srb : SrbStatus, scsi : ScsiStatus]
           r == [srb |-> srb, scsi |-> scsi]
<1>1. done \in [Srbs -> Seq(R)]
  BY DEF SrbTypes
<1>2. done' = [done EXCEPT ![s] = Append(done[s], r)]
  BY DEF Complete
<1> HIDE DEF R, r
<1>3. done'[s] = Append(done[s], r) /\ \A t \in Srbs \ {s} : done'[t] = done[t]
  BY <1>1, <1>2
<1>4. done[s] \in Seq(R \cup {r}) /\ r \in R \cup {r}
  BY <1>1, SeqMonotonic
<1>5. Append(done[s], r) # << >>
  BY <1>4, AppendProperties
<1> QED
  BY <1>3, <1>5

\* PdoStartIo completes an SRB at once, takes it in hand, or queues it.
LEMMA StartLosesNone ==
  ASSUME TypeOK, NothingLost, Ownership, NEW c \in Cpus, StartIo(c)
  PROVE  NothingLost'
<1>1. ASSUME NEW s \in Data, StartData(c, s)
      PROVE  NothingLost'
  <2>1. s \in Srbs /\ issued' = issued \cup {s} /\ UNCHANGED <<queue, queueHead>>
        /\ pc[c] = "Idle"
    BY <1>1 DEF StartData, Srbs, At
  <2>2. HeadsTrue'
    BY <2>1 DEF NothingLost, HeadsTrue, On
  <2>3. CASE UNCHANGED <<pc, cur>> /\ \E srb, scsi : Complete(s, srb, scsi)
    <3>1. done'[s] # << >> /\ \A t \in Srbs \ {s} : done'[t] = done[t]
      BY <2>1, <2>3, CompleteRecords DEF TypeOK
    <3>2. \A d \in Cpus, t \in Srbs : Holds(d, t) => Holds(d, t)'
      BY <2>3 DEF Holds
    <3> QED
      BY <2>1, <2>2, <3>1, <3>2, MovedLosesNone
  <2>4. CASE /\ Goto(c, "Prepare") /\ cur' = [cur EXCEPT ![c] = s] /\ UNCHANGED done
    <3>1. Holds(c, s)'
      BY <2>4 DEF TypeOK, CpuTypes, Goto, Holds, Holding
    <3>2. \A d \in Cpus, t \in Srbs : Holds(d, t) => Holds(d, t)'
      BY <2>1, <2>4 DEF TypeOK, CpuTypes, Goto, Holds, Holding
    <3> QED
      BY <2>1, <2>2, <2>4, <3>1, <3>2, MovedLosesNone
  <2> QED
    BY <1>1, <2>3, <2>4 DEF StartData, cpuVars
<1>2. ASSUME NEW f \in Flushes, StartFlush(c, f)
      PROVE  NothingLost'
  <2>1. /\ f \in Srbs /\ f \notin issued /\ issued' = issued \cup {f}
        /\ UNCHANGED <<done, pc, cur>> /\ InsertTail("Shutdown", f)
    BY <1>2 DEF StartFlush, Srbs, cpuVars
  <2>2. queueHead[f] = None
    BY <2>1 DEF Ownership, QueuedOpen, Open
  <2>3. HeadsTrue'
    BY <2>1, <2>2, InsertKeepsHeads DEF TypeOK, NothingLost, QueueNames
  <2>4. queueHead'[f] # None /\ \A t \in Srbs \ {f} : queueHead'[t] = queueHead[t]
    BY <2>1, ConstantsAssumption
       DEF InsertTail, TypeOK, QueueTypes, ConstantsAssumption, QueueNames
  <2>5. \A d \in Cpus, t \in Srbs : Holds(d, t) => Holds(d, t)'
    BY <2>1 DEF Holds
  <2> QED
    BY <2>1, <2>3, <2>4, <2>5, MovedLosesNone
<1> QED
  BY <1>1, <1>2 DEF StartIo

\* What a CPU puts down is then on a queue.
LEMMA PutDownLosesNone ==
  ASSUME TypeOK, NothingLost, Ownership, NEW c \in Cpus,
         PrepareOk(c) \/ PrepareFails(c) \/ PutBack(c) \/ QueueSubmitted(c)
  PROVE  NothingLost'
<1>0. PICK s \in Srbs : s = cur[c] /\ pc[c] \in Holding
  BY DEF TypeOK, CpuTypes, PrepareOk, PrepareFails, PutBack, QueueSubmitted, At,
         Holding, Srbs
<1>1. queueHead[s] = None
  BY <1>0 DEF Ownership, HeldOpen, Holds
<1>2. PICK q \in QueueNames : InsertTail(q, s) \/ InsertHead(q, s)
  BY <1>0 DEF PrepareOk, PrepareFails, PutBack, QueueSubmitted, QueueNames
<1>3. HeadsTrue'
  BY <1>1, <1>2, InsertKeepsHeads DEF TypeOK, NothingLost
<1>4. queueHead'[s] # None /\ \A t \in Srbs \ {s} : queueHead'[t] = queueHead[t]
  BY <1>2, ConstantsAssumption
     DEF InsertTail, InsertHead, TypeOK, QueueTypes, ConstantsAssumption
<1>5. \A d \in Cpus, t \in Srbs \ {s} : Holds(d, t) => Holds(d, t)'
  BY <1>0 DEF TypeOK, CpuTypes, PrepareOk, PrepareFails, PutBack, QueueSubmitted, Goto,
              LetGo, Holds
<1>6. UNCHANGED <<done, issued>>
  BY DEF PrepareOk, PrepareFails, PutBack, QueueSubmitted
<1> QED
  BY <1>3, <1>4, <1>5, <1>6, MovedLosesNone

\* What a CPU pops to work on is then in its hands.
LEMMA PopLosesNone ==
  ASSUME TypeOK, NothingLost, Ownership, NEW c \in Cpus, PopPrepared(c) \/ PopFresh(c)
  PROVE  NothingLost'
<1>1. UNCHANGED <<done, issued>> /\ pc[c] \notin Holding
  BY DEF PopPrepared, PopFresh, At, Holding
<1>2. CASE UNCHANGED <<queue, queueHead, cur>> /\ \E l : Goto(c, l)
  <2>1. NoneDropped
    BY <1>1, <1>2 DEF TypeOK, CpuTypes, NoneDropped, Holds, Goto
  <2> QED
    BY <1>1, <1>2, <2>1, QuietLosesNone
<1>3. ASSUME NEW q \in QueueNames, Pop(q), NEW l \in Holding, Goto(c, l),
             cur' = [cur EXCEPT ![c] = Head(queue[q])]
      PROVE  NothingLost'
  <2>0. PICK s \in Srbs : s = Head(queue[q])
    BY <1>3, PopAgrees DEF TypeOK, Ownership
  <2>1. HeadsTrue'
    BY <1>3, PopKeepsHeads DEF TypeOK, Ownership, NothingLost
  <2>2. queueHead' = [queueHead EXCEPT ![s] = None] /\ cur' = [cur EXCEPT ![c] = s]
    BY <1>3, <2>0 DEF Pop
  <2>3. \A t \in Srbs \ {s} : queueHead'[t] = queueHead[t]
    BY <2>1, <2>2 DEF TypeOK, QueueTypes
  <2>4. Holds(c, s)'
    <3>1. pc'[c] = l
      BY <1>3 DEF TypeOK, CpuTypes, Goto
    <3>2. cur'[c] = s
      BY <2>2 DEF TypeOK, CpuTypes
    <3> QED
      BY <1>3, <3>1, <3>2 DEF Holds
  <2>5. \A d \in Cpus, t \in Srbs : Holds(d, t) => Holds(d, t)'
    BY <1>1, <1>3, <2>2 DEF TypeOK, CpuTypes, Holds, Goto
  <2> QED
    <3>1. issued' \subseteq issued \cup {s} /\ \E d \in Cpus : Holds(d, s)'
      BY <1>1, <2>4
    <3> QED
      BY <1>1, <2>1, <2>3, <2>5, <3>1, MovedLosesNone
<1> QED
  BY <1>2, <1>3 DEF PopPrepared, PopFresh, QueueNames, Holding

\* An SRB taken off a queue and completed.
LEMMA FinishedLosesNone ==
  ASSUME TypeOK, NothingLost, HeadsTrue', NEW s \in Srbs, UNCHANGED issued, NoneDropped,
         queueHead' = [queueHead EXCEPT ![s] = None],
         NEW srb, NEW scsi, Complete(s, srb, scsi)
  PROVE  NothingLost'
<1>1. \A t \in Srbs \ {s} : queueHead'[t] = queueHead[t]
  BY DEF TypeOK, QueueTypes
<1>2. done'[s] # << >> /\ \A t \in Srbs \ {s} : done'[t] = done[t]
  BY CompleteRecords DEF TypeOK
<1> QED
  BY <1>1, <1>2, MovedLosesNone DEF NoneDropped

\* ConsumeResponse, PopShutdown, ResetFresh and PdoAbortAllSrbs.
LEMMA CompletionsLoseNone ==
  ASSUME TypeOK, NothingLost, Ownership,
         \/ \E c \in Cpus : ConsumeResponse(c) \/ PopShutdown(c) \/ ResetFresh(c)
         \/ \E q \in {"Fresh", "Prepared", "Submitted"}, state, next \in PowerStates :
              Abort(state, q, next)
  PROVE  NothingLost'
<1>1. UNCHANGED issued /\ NoneDropped
  <2>1. UNCHANGED issued /\ UNCHANGED cur
    BY DEF ConsumeResponse, PopShutdown, ResetFresh, Abort, cpuVars
  <2>2. \A c \in Cpus : pc[c] \in Holding => pc'[c] = pc[c]
    BY DEF ConsumeResponse, PopShutdown, ResetFresh, Abort, cpuVars, Goto, At, Holding,
           TypeOK, CpuTypes
  <2> QED
    BY <2>1, <2>2 DEF NoneDropped, Holds
<1>2. CASE UNCHANGED <<queue, queueHead, done>>
  BY <1>1, <1>2, QuietLosesNone
<1>3. ASSUME NEW q \in QueueNames, Pop(q), NEW srb, NEW scsi,
             Complete(Head(queue[q]), srb, scsi)
      PROVE  NothingLost'
  <2>1. PICK s \in Srbs : s = Head(queue[q])
    BY <1>3, PopAgrees DEF TypeOK, Ownership
  <2>2. HeadsTrue'
    BY <1>3, PopKeepsHeads DEF TypeOK, Ownership, NothingLost
  <2>3. queueHead' = [queueHead EXCEPT ![s] = None] /\ Complete(s, srb, scsi)
    BY <1>3, <2>1 DEF Pop
  <2> QED
    BY <1>1, <2>2, <2>3, FinishedLosesNone
<1>4. ASSUME NEW c \in Cpus, ConsumeResponse(c)
      PROVE  NothingLost'
  <2>1. PICK s \in Srbs : s = NextRsp[1]
    BY <1>4, NextRspType DEF TypeOK, ConsumeResponse, Srbs
  <2>2. ASSUME RemoveFrom("Submitted", s), NEW srb, NEW scsi, Complete(s, srb, scsi)
        PROVE  NothingLost'
    <3>1. HeadsTrue'
      BY <2>2, RemoveKeepsHeads DEF TypeOK, Ownership, NothingLost, QueueNames
    <3>2. queueHead' = [queueHead EXCEPT ![s] = None]
      BY <2>2 DEF RemoveFrom
    <3> QED
      BY <1>1, <2>2, <3>1, <3>2, FinishedLosesNone
  <2> QED
    BY <1>2, <1>4, <2>1, <2>2 DEF ConsumeResponse
<1>5. ASSUME NEW c \in Cpus, PopShutdown(c) \/ ResetFresh(c)
      PROVE  NothingLost'
  <2>1. CASE UNCHANGED <<queue, queueHead, done>>
    BY <1>2, <2>1
  <2>2. CASE Pop("Shutdown") /\ Complete(Head(queue["Shutdown"]), "Success", "Good")
    BY <1>3, <2>2 DEF QueueNames
  <2>3. CASE Pop("Fresh")
             /\ Complete(Head(queue["Fresh"]), srbStatus[Head(queue["Fresh"])], "Aborted")
    BY <1>3, <2>3 DEF QueueNames
  <2> QED
    BY <1>5, <2>1, <2>2, <2>3 DEF PopShutdown, ResetFresh
<1>6. ASSUME NEW q \in {"Fresh", "Prepared", "Submitted"}, NEW state, NEW next,
             Abort(state, q, next)
      PROVE  NothingLost'
  <2>1. CASE UNCHANGED <<queue, queueHead, done>>
    BY <1>2, <2>1
  <2>2. CASE Pop(q) /\ Complete(Head(queue[q]), srbStatus[Head(queue[q])], "Aborted")
    BY <1>3, <2>2 DEF QueueNames
  <2> QED
    BY <1>6, <2>1, <2>2 DEF Abort
<1> QED
  BY <1>4, <1>5, <1>6

\* PdoPreResume: what was on PreparedSrbs or SubmittedSrbs is on FreshSrbs.
LEMMA SuspendLosesNone ==
  ASSUME TypeOK, NothingLost, Suspend
  PROVE  NothingLost'
<1> DEFINE sub == queue["Submitted"]
           pre == queue["Prepared"]
           fre == queue["Fresh"]
           new == sub \o pre \o fre
<1>1. sub \in Seq(Srbs) /\ pre \in Seq(Srbs) /\ fre \in Seq(Srbs)
  BY DEF TypeOK, QueueTypes, QueueNames
<1>2. queue'["Fresh"] = new /\ queue'["Shutdown"] = queue["Shutdown"]
  BY DEF TypeOK, QueueTypes, QueueNames, Suspend, PreResume
<1>3. \A s \in Srbs : queueHead'[s] =
        IF queueHead[s] \in {"Prepared", "Submitted"} THEN "Fresh" ELSE queueHead[s]
  BY DEF Suspend, PreResume
<1>4. UNCHANGED <<done, issued, pc, cur>>
  BY DEF Suspend, PreResume, cpuVars
<1>5. ASSUME NEW s \in Srbs, NEW x \in Seq(Srbs), NEW y \in Seq(Srbs), On(s, x) \/ On(s, y)
      PROVE  On(s, x \o y)
  <2>1. /\ Len(x \o y) = Len(x) + Len(y) /\ Len(x) \in Nat /\ Len(y) \in Nat
        /\ \A i \in 1 .. Len(x) + Len(y) :
             (x \o y)[i] = IF i <= Len(x) THEN x[i] ELSE y[i - Len(x)]
    BY ConcatProperties, LenProperties
  <2>2. CASE On(s, x)
    BY <2>1, <2>2 DEF On
  <2>3. CASE On(s, y)
    <3>1. PICK i \in 1 .. Len(y) : y[i] = s
      BY <2>3 DEF On
    <3>2. /\ i + Len(x) \in 1 .. Len(x \o y) /\ ~(i + Len(x) <= Len(x))
          /\ i + Len(x) - Len(x) = i
      BY <2>1
    <3> QED
      BY <2>1, <3>1, <3>2 DEF On
  <2> QED
    BY <1>5, <2>2, <2>3
<1>6. sub \o pre \in Seq(Srbs)
  BY <1>1, ConcatProperties
<1>7. ASSUME NEW s \in Srbs, On(s, sub) \/ On(s, pre) \/ On(s, fre)
      PROVE  On(s, new)
  <2> HIDE DEF sub, pre, fre
  <2>1. On(s, sub \o pre) \/ On(s, fre)
    BY <1>1, <1>5, <1>7
  <2> QED
    BY <1>1, <1>5, <1>6, <2>1
<1> HIDE DEF new
<1>8. HeadsTrue'
  <2> SUFFICES ASSUME NEW s \in Srbs, queueHead'[s] # None
               PROVE  On(s, queue'[queueHead'[s]])
    BY DEF HeadsTrue, On
  <2>1. queueHead[s] # None /\ queueHead[s] \in QueueNames
    BY <1>3, ConstantsAssumption DEF ConstantsAssumption, QueueNames, TypeOK, QueueTypes
  <2>2. On(s, queue[queueHead[s]])
    BY <2>1 DEF NothingLost, HeadsTrue
  <2> QED
    BY <1>2, <1>3, <1>7, <2>1, <2>2 DEF QueueNames
<1>9. Placed'
  <2>1. \A s \in Srbs : queueHead[s] # None => queueHead'[s] # None
    BY <1>3, ConstantsAssumption DEF ConstantsAssumption, QueueNames
  <2> QED
    BY <1>4, <2>1 DEF NothingLost, Placed, Holds, TypeOK, SrbTypes
<1> QED
  BY <1>8, <1>9 DEF NothingLost

\* Freeing the ring moves the CPU that does it, and those it catches in the response loop.
LEMMA FreeRingMoves ==
  ASSUME TypeOK, NEW c \in Cpus, FreeRing(c)
  PROVE  /\ pc[c] = "FreeRing" /\ pc'[c] = "Idle" /\ UNCHANGED cur
         /\ \A d \in Cpus \ {c} : pc'[d] = pc[d] \/ (pc[d] = "Consume" /\ pc'[d] = "Stray")
BY DEF FreeRing, At, TypeOK, CpuTypes

\* The actions that touch no queue and complete nothing let go of nothing either.
LEMMA QuietActionsLoseNone ==
  ASSUME TypeOK, NothingLost,
         \/ \E c \in Cpus :
              \/ Submit(c) \/ Mark(c) \/ Push(c) \/ StartDpc(c) \/ Unmask(c)
              \/ EnterComplete(c) \/ LeaveComplete(c)
              \/ PeekShutdown(c) \/ PeekOthers(c) \/ StartReset(c) \/ ResetPeek(c)
              \/ Disable(c) \/ Close(c) \/ FreeRing(c) \/ NewRing(c) \/ Enable(c)
              \/ PowerUp(c) \/ SetState(c, "Drained", "Closing", "Disable")
              \/ Bugcheck(c)
         \/ Pause \/ SeeDrained \/ Unpause \/ Backend \/ UNCHANGED vars
  PROVE  NothingLost'
<1>1. UNCHANGED <<queue, queueHead, done, issued>>
  BY DEF Submit, Mark, Push, StartDpc, Unmask, EnterComplete, LeaveComplete, PeekShutdown,
         PeekOthers, StartReset, ResetPeek, Disable, Close, FreeRing, NewRing, Enable,
         PowerUp, SetState, Bugcheck, Pause, SeeDrained, Unpause, Backend, vars, srbVars
<1>2. ASSUME NEW c \in Cpus, Submit(c)
      PROVE  NoneDropped
  <2>1. UNCHANGED cur /\ pc[c] = "Submit" /\ \E l \in Holding : Goto(c, l)
    BY <1>2 DEF Submit, At, Holding
  <2> QED
    BY <2>1 DEF TypeOK, CpuTypes, NoneDropped, Holds, Goto
<1>3. ASSUME NEW c \in Cpus, pc[c] \notin Holding, \E l : Goto(c, l),
             UNCHANGED cur \/ LetGo(c)
      PROVE  NoneDropped
  BY <1>3 DEF TypeOK, CpuTypes, NoneDropped, Holds, Goto, LetGo
<1>4. ASSUME UNCHANGED <<pc, cur>>
      PROVE  NoneDropped
  BY <1>4 DEF NoneDropped, Holds
<1>5. ASSUME NEW c \in Cpus,
             \/ Mark(c) \/ Push(c) \/ StartDpc(c) \/ Unmask(c)
             \/ EnterComplete(c) \/ LeaveComplete(c) \/ PeekShutdown(c)
      PROVE  NoneDropped
  BY <1>3, <1>4, <1>5 DEF Mark, Push, StartDpc, Unmask, EnterComplete, LeaveComplete,
     PeekShutdown, At, Holding, cpuVars
<1>6. ASSUME NEW c \in Cpus, PeekOthers(c)
      PROVE  NoneDropped
  BY <1>3, <1>6 DEF PeekOthers, Peeks, At, Holding
<1>7. ASSUME NEW c \in Cpus,
             \/ StartReset(c) \/ ResetPeek(c)
             \/ Disable(c) \/ Close(c) \/ NewRing(c) \/ Enable(c)
             \/ PowerUp(c) \/ SetState(c, "Drained", "Closing", "Disable")
      PROVE  NoneDropped
  BY <1>3, <1>7 DEF StartReset, ResetPeek, Disable, Close, NewRing, Enable,
     PowerUp, SetState, AtPassive, At, Holding
<1>10. ASSUME NEW c \in Cpus, FreeRing(c)
       PROVE  NoneDropped
  <2>1. /\ pc[c] = "FreeRing" /\ UNCHANGED cur
        /\ \A d \in Cpus \ {c} : pc'[d] = pc[d] \/ pc[d] = "Consume"
    BY <1>10, FreeRingMoves
  <2> QED
    BY <2>1 DEF NoneDropped, Holds, Holding
<1>8. ASSUME \/ \E c \in Cpus : Bugcheck(c)
             \/ Pause \/ SeeDrained \/ Unpause \/ Backend \/ UNCHANGED vars
      PROVE  NoneDropped
  BY <1>4, <1>8 DEF Bugcheck, Pause, SeeDrained, Unpause, Backend, vars, cpuVars
<1>9. NoneDropped
  BY <1>2, <1>5, <1>6, <1>7, <1>8, <1>10
<1> QED
  BY <1>1, <1>9, QuietLosesNone

\* Every step loses nothing.
LEMMA NextLosesNone == TypeOK /\ Ownership /\ NothingLost /\ [Next]_vars => NothingLost'
<1> SUFFICES ASSUME TypeOK, Ownership, NothingLost, [Next]_vars PROVE NothingLost'
  OBVIOUS
<1>1. ASSUME NEW c \in Cpus, StartIo(c) \/ StartReset(c) \/ PowerUp(c)
      PROVE  NothingLost'
  BY <1>1, StartLosesNone, QuietActionsLoseNone
<1>2. ASSUME NEW c \in Cpus, SubmitLoop(c)
      PROVE  NothingLost'
  BY <1>2, PopLosesNone, PutDownLosesNone, QuietActionsLoseNone DEF SubmitLoop
<1>3. ASSUME NEW c \in Cpus, Callback(c)
      PROVE  NothingLost'
  BY <1>3, QuietActionsLoseNone, CompletionsLoseNone, PopLosesNone DEF Callback
<1>4. ASSUME NEW c \in Cpus, Run(c)
      PROVE  NothingLost'
  BY <1>2, <1>3, <1>4, PutDownLosesNone, CompletionsLoseNone, QuietActionsLoseNone DEF Run
<1>5. CASE PowerThread
  BY <1>5, QuietActionsLoseNone, CompletionsLoseNone DEF PowerThread, PowerStates
<1> QED
  BY <1>1, <1>4, <1>5, QuietActionsLoseNone, SuspendLosesNone DEF Next

\* NothingLost holds in every reachable state.
LEMMA NothingLostHolds == Spec => []NothingLost
<1>1. Init => NothingLost
  BY DEF Init, NothingLost, HeadsTrue, Placed
<1> QED
  BY <1>1, NextLosesNone, TypeCorrect, OwnershipHolds, PTL DEF Spec

\* No SRB is ever lost: one StorPort issued and was not given back is on one of the
\* four queues or in the hands of a CPU that is about to queue it, through failed
\* preparations, full rings, resets, power transitions and resumes.
THEOREM SrbsAreAccounted == Spec => []Accounted
<1>1. TypeOK /\ NothingLost => Accounted
  <2> SUFFICES ASSUME TypeOK, NothingLost, NEW s \in issued, done[s] = << >>
               PROVE  \/ \E q \in QueueNames : s \in Range(queue[q])
                      \/ \E c \in Cpus : pc[c] \in Holding /\ cur[c] = s
    BY DEF Accounted
  <2>1. s \in Srbs
    BY DEF TypeOK, SrbTypes
  <2>2. CASE queueHead[s] # None
    <3>1. queueHead[s] \in QueueNames
      BY <2>1, <2>2 DEF TypeOK, QueueTypes
    <3>2. On(s, queue[queueHead[s]]) /\ queue[queueHead[s]] \in Seq(Srbs)
      BY <2>1, <2>2, <3>1 DEF NothingLost, HeadsTrue, TypeOK, QueueTypes
    <3>3. s \in Range(queue[queueHead[s]])
      BY <3>2, LenProperties DEF On, Range
    <3> QED
      BY <3>1, <3>3
  <2>3. CASE queueHead[s] = None
    BY <2>3 DEF NothingLost, Placed, Holds
  <2> QED
    BY <2>2, <2>3
<1> QED
  BY <1>1, NothingLostHolds, TypeCorrect, PTL

-----------------------------------------------------------------------------
(***************************************************************************)
(* The queues and the ring describe the same requests.  First what holds   *)
(* on any number of CPUs: the slots in use fit the ring, and the id in     *)
(* every unread response is that of a request still on its SRB's list.     *)
(* Then what PdoSubmitPrepared relies on and only one CPU gives: no ASSERT *)
(* fails and no freed ring is touched, what waits on SubmittedSrbs can be  *)
(* answered, a good completion had every request done, and a flush comes   *)
(* after the data before it.                                               *)
(***************************************************************************)

\* The SRB and the request a response answers.
Pair(r) == <<r[1], r[2]>>
Consumed(x) == \E j \in 1 .. rspCons : Pair(rsps[j]) = x
OnRing(s) == \E k \in 1 .. Len(reqs) : reqs[k][1] = s

\* No request of s can be on the present ring: s is not issued, waits on FreshSrbs or
\* PreparedSrbs, or is in the hands of a CPU that has not put it on the ring.
Before == {"Prepare", "PrepFresh", "Submit", "PutBack"}
Waits(s) ==
  \/ s \notin issued
  \/ queueHead[s] \in {"Fresh", "Prepared"}
  \/ \E c \in Cpus : Holds(c, s) /\ pc[c] \in Before

\* Its requests have all been prepared and none of them was put on a ring.
Ready(s) ==
  \/ queueHead[s] = "Prepared"
  \/ \E c \in Cpus : Holds(c, s) /\ pc[c] \in {"Submit", "PutBack"}

\* Where the power thread is tells what the frontend is: one CPU at most is in
\* FrontendSetState, and while it is not, the frontend is enabled or has no ring.
Enabled == {"D0", "Pausing", "Drained", "Unpausing"}
Down == {"AbortFresh", "AbortPrepared", "AbortSubmitted", "D3"}
PowerAgrees ==
  /\ \A c, d \in Cpus : pc[c] \in SettingState /\ pc[d] \in SettingState => c = d
  /\ \A c \in Cpus : /\ pc[c] \in {"Disable", "Close", "FreeRing"} => power = "Closing"
                     /\ pc[c] \in {"NewRing", "Enable"} => power = "Opening"
                     /\ pc[c] \in {"Close", "FreeRing"} => ~connected
                     /\ pc[c] = "Enable" => ringUp
  /\ power \in {"Closing", "Opening"} => \E c \in Cpus : pc[c] \in SettingState
  /\ power \in Down => ~ringUp
  /\ power \in Enabled => ringUp /\ connected
  /\ power \in Down \cup {"Opening"} => ~connected
  /\ ~ringUp => reqs = << >>

\* A response answers a published request, once.
ResponsesMatch ==
  /\ \A j, k \in 1 .. Len(rsps) : Pair(rsps[j]) = Pair(rsps[k]) => j = k
  /\ \A j \in 1 .. Len(rsps) : \E i \in 1 .. pushed : reqs[i] = Pair(rsps[j])

\* What the ring tells of an SRB that is on it.
Tracked(s) ==
  /\ ~Waits(s)
  /\ \A i \in 1 .. NumRequests[s] : \E k \in 1 .. Len(reqs) : reqs[k] = <<s, i>>
  /\ requests[s] = {i \in 1 .. NumRequests[s] : ~Consumed(<<s, i>>)}
  /\ done[s] # << >> => requests[s] = {}
  /\ \A i \in 1 .. NumRequests[s], a \in Answers :
       <<s, i, a>> \in answers <=> \E j \in 1 .. Len(rsps) : rsps[j] = <<s, i, a>>

RingTracks == \A k \in 1 .. Len(reqs) :
  reqs[k][2] \in 1 .. NumRequests[reqs[k][1]] /\ Tracked(reqs[k][1])

ReadyIsWhole == \A s \in Data : Ready(s) =>
  /\ requests[s] = 1 .. NumRequests[s]
  /\ \A i \in 1 .. NumRequests[s], a \in Answers : <<s, i, a>> \notin answers

RingAgrees == RingFits /\ ResponsesMatch /\ RingTracks /\ ReadyIsWhole

-----------------------------------------------------------------------------
\* PowerAgrees.

\* A step that leaves the power thread and the frontend where they are, and on which no
\* CPU enters or leaves FrontendSetState.
LEMMA PowerQuiet ==
  ASSUME PowerAgrees, UNCHANGED <<power, connected, ringUp>>,
         \A c \in Cpus : pc'[c] = pc[c] \/ {pc[c], pc'[c]} \cap SettingState = {},
         reqs' = reqs \/ ringUp \/ reqs' = << >>
  PROVE  PowerAgrees'
BY DEF PowerAgrees, SettingState

\* The steps of the data path: only pc[c] moves, and not in FrontendSetState.
LEMMA DataPathPower ==
  ASSUME TypeOK, PowerAgrees, NEW c \in Cpus,
         \/ StartIo(c) \/ StartReset(c) \/ PrepareOk(c) \/ PrepareFails(c) \/ SubmitLoop(c)
         \/ Callback(c) \/ StartDpc(c) \/ Unmask(c) \/ ResetFresh(c) \/ ResetPeek(c)
         \/ Bugcheck(c)
  PROVE  PowerAgrees'
<1> DEFINE Data1 == Pcs \ SettingState
<1>1. AfterSubmit(c) \in Data1 /\ AfterCallback(c) \in Data1
  BY DEF TypeOK, CpuTypes, AfterSubmit, AfterCallback, Pcs, SettingState
<1>2. ASSUME UNCHANGED pc \/ (pc[c] \in Data1 /\ \E l \in Data1 : Goto(c, l)),
             UNCHANGED <<power, connected, ringUp>>,
             reqs' = reqs \/ ringUp
      PROVE  PowerAgrees'
  <2>1. \A d \in Cpus : pc'[d] = pc[d] \/ {pc[d], pc'[d]} \cap SettingState = {}
    BY <1>2 DEF TypeOK, CpuTypes, Goto
  <2> QED
    BY <1>2, <2>1, PowerQuiet
<1>3. CASE StartIo(c) \/ StartReset(c) \/ PrepareOk(c) \/ PrepareFails(c) \/ StartDpc(c)
           \/ Unmask(c) \/ ResetFresh(c) \/ ResetPeek(c) \/ Bugcheck(c)
  <2>1. CASE StartIo(c) \/ StartReset(c) \/ StartDpc(c) \/ Bugcheck(c)
    BY <1>2, <2>1 DEF StartIo, StartData, StartFlush, StartReset, StartDpc, Bugcheck,
       cpuVars, ringVars, At, Pcs, SettingState, Holding
  <2>2. CASE PrepareOk(c) \/ PrepareFails(c)
    BY <1>2, <2>2 DEF PrepareOk, PrepareFails, ringVars, At, Pcs, SettingState, Holding
  <2>3. CASE Unmask(c) \/ ResetFresh(c) \/ ResetPeek(c)
    BY <1>2, <2>3 DEF Unmask, ResetFresh, ResetPeek, ringVars, At, Pcs, SettingState, Holding
  <2> QED
    BY <1>3, <2>1, <2>2, <2>3
<1>4. CASE SubmitLoop(c)
  <2>1. CASE PopPrepared(c) \/ PutBack(c) \/ QueueSubmitted(c) \/ Mark(c) \/ Push(c)
    BY <1>1, <1>2, <2>1 DEF PopPrepared, PutBack, QueueSubmitted, Mark, Push,
       ringVars, At, Pcs, SettingState, Holding
  <2>2. CASE Submit(c)
    <3>1. reqs' = reqs \/ ringUp
      BY <2>2 DEF Submit, CanSubmit
    <3> QED
      BY <1>2, <2>2, <3>1 DEF Submit, At, Pcs, SettingState, Holding
  <2> QED
    BY <1>4, <2>1, <2>2 DEF SubmitLoop
<1>5. CASE Callback(c)
  <2>1. CASE EnterComplete(c) \/ ConsumeResponse(c) \/ LeaveComplete(c) \/ PopFresh(c)
    BY <1>1, <1>2, <2>1 DEF EnterComplete, ConsumeResponse, LeaveComplete, PopFresh,
       cpuVars, ringVars, At, Pcs, SettingState, Holding
  <2>2. CASE PeekShutdown(c) \/ PopShutdown(c)
    BY <1>1, <1>2, <2>2 DEF PeekShutdown, PopShutdown, ringVars, At, Pcs, SettingState,
       Holding
  <2>3. CASE PeekOthers(c)
    BY <1>1, <1>2, <2>3 DEF PeekOthers, Peeks, ringVars, At, Pcs, SettingState, Holding
  <2> QED
    BY <1>5, <2>1, <2>2, <2>3 DEF Callback
<1> QED
  BY <1>3, <1>4, <1>5

\* FrontendSetState is entered by one CPU, and closes or opens the frontend.
LEMMA SetStatePower ==
  ASSUME TypeOK, PowerAgrees, NEW c \in Cpus,
         \/ PowerUp(c) \/ SetState(c, "Drained", "Closing", "Disable")
  PROVE  PowerAgrees'
<1>1. PICK from \in {"D3", "Drained"} : power = from /\ from \notin {"Closing", "Opening"}
  BY DEF PowerUp, SetState
<1>2. \A d \in Cpus : pc[d] \notin SettingState
  BY <1>1 DEF PowerAgrees, SettingState
<1>3. UNCHANGED <<connected, ringUp, reqs>>
  BY DEF PowerUp, SetState, ringVars
<1>4. CASE PowerUp(c)
  <2>1. pc'[c] = "NewRing" /\ power' = "Opening" /\ power = "D3"
        /\ \A d \in Cpus \ {c} : pc'[d] = pc[d]
    BY <1>4 DEF PowerUp, SetState, Goto, TypeOK, CpuTypes
  <2> QED
    BY <1>2, <1>3, <2>1 DEF PowerAgrees, SettingState, Enabled, Down
<1>5. CASE SetState(c, "Drained", "Closing", "Disable")
  <2>1. pc'[c] = "Disable" /\ power' = "Closing" /\ power = "Drained"
        /\ \A d \in Cpus \ {c} : pc'[d] = pc[d]
    BY <1>5 DEF SetState, Goto, TypeOK, CpuTypes
  <2> QED
    BY <1>2, <1>3, <2>1 DEF PowerAgrees, SettingState, Enabled, Down
<1> QED
  BY <1>4, <1>5

\* The five steps of FrontendSetState keep PowerAgrees: only the CPU that is setting the
\* state moves, and each step leaves the frontend what the next one expects.
LEMMA SettingPower ==
  ASSUME TypeOK, PowerAgrees, NEW c \in Cpus,
         Disable(c) \/ Close(c) \/ FreeRing(c) \/ NewRing(c) \/ Enable(c)
  PROVE  PowerAgrees'
<1>1. pc[c] \in SettingState /\ \A d \in Cpus \ {c} : pc[d] \notin SettingState
  BY DEF Disable, Close, FreeRing, NewRing, Enable, At, SettingState, PowerAgrees
<1>2. \A d \in Cpus \ {c} : pc'[d] = pc[d] \/ pc'[d] = "Stray"
  BY FreeRingMoves DEF Disable, Close, NewRing, Enable, Goto, TypeOK, CpuTypes
<1>3. CASE Disable(c)
  <2>1. pc[c] = "Disable" /\ pc'[c] = "Close" /\ ~connected' /\ UNCHANGED <<power, ringUp, reqs>>
    BY <1>3 DEF Disable, At, Goto, TypeOK, CpuTypes, ringVars
  <2> QED
    BY <1>1, <1>2, <2>1 DEF PowerAgrees, SettingState, Enabled, Down
<1>4. CASE Close(c)
  <2>1. pc[c] = "Close" /\ pc'[c] = "FreeRing" /\ UNCHANGED <<connected, power, ringUp, reqs>>
    BY <1>4 DEF Close, At, Goto, TypeOK, CpuTypes
  <2> QED
    BY <1>1, <1>2, <2>1 DEF PowerAgrees, SettingState, Enabled, Down
<1>5. CASE FreeRing(c)
  <2>1. /\ pc[c] = "FreeRing" /\ pc'[c] = "Idle" /\ UNCHANGED connected
        /\ power' = "AbortFresh" /\ ~ringUp' /\ reqs' = << >>
    BY <1>5, FreeRingMoves DEF FreeRing, ClearRing
  <2> QED
    BY <1>1, <1>2, <2>1 DEF PowerAgrees, SettingState, Enabled, Down
<1>6. CASE NewRing(c)
  <2>1. /\ pc[c] = "NewRing" /\ pc'[c] = "Enable" /\ UNCHANGED <<connected, power>>
        /\ ringUp' /\ reqs' = << >>
    BY <1>6 DEF NewRing, ClearRing, At, Goto, TypeOK, CpuTypes
  <2> QED
    BY <1>1, <1>2, <2>1 DEF PowerAgrees, SettingState, Enabled, Down
<1>7. CASE Enable(c)
  <2>1. /\ pc[c] = "Enable" /\ pc'[c] = "Idle" /\ connected' /\ power' = "Unpausing"
        /\ UNCHANGED <<ringUp, reqs>>
    BY <1>7 DEF Enable, At, Goto, TypeOK, CpuTypes, ringVars
  <2> QED
    BY <1>1, <1>2, <2>1 DEF PowerAgrees, SettingState, Enabled, Down
<1> QED
  BY <1>3, <1>4, <1>5, <1>6, <1>7

\* The power thread, the suspend callback and the backend keep PowerAgrees.
LEMMA PowerThreadPower ==
  ASSUME TypeOK, PowerAgrees, Pause \/ PowerThread \/ Suspend \/ Backend \/ UNCHANGED vars
  PROVE  PowerAgrees'
<1>1. CASE Pause \/ SeeDrained \/ Unpause
  BY <1>1 DEF Pause, SeeDrained, Unpause, Passive, PowerAgrees, cpuVars, ringVars,
     SettingState, Enabled, Down
<1>2. CASE \/ Abort("AbortFresh", "Fresh", "AbortPrepared")
           \/ Abort("AbortPrepared", "Prepared", "AbortSubmitted")
           \/ Abort("AbortSubmitted", "Submitted", "D3")
  <2>1. UNCHANGED <<pc, ringUp, reqs, connected>> /\ power \in Down /\ power' \in Down
    BY <1>2 DEF Abort, Passive, cpuVars, ringVars, Down
  <2> QED
    BY <2>1 DEF PowerAgrees, SettingState, Enabled, Down
<1>3. CASE Suspend
  <2>1. UNCHANGED <<pc, power, connected, ringUp>> /\ (reqs' = reqs \/ reqs' = << >>)
    BY <1>3 DEF Suspend, ClearRing, cpuVars
  <2> QED
    BY <2>1, PowerQuiet
<1>4. CASE Backend \/ UNCHANGED vars
  BY <1>4, PowerQuiet DEF Backend, vars, cpuVars, ringVars
<1> QED
  BY <1>1, <1>2, <1>3, <1>4, SetStatePower DEF PowerThread

\* The frontend follows the power thread.
LEMMA NextPower == TypeOK /\ PowerAgrees /\ [Next]_vars => PowerAgrees'
BY DataPathPower, SetStatePower, SettingPower, PowerThreadPower
   DEF Next, Run

-----------------------------------------------------------------------------
\* RingAgrees, from what a step does to the SRBs that wait and to the ring.

\* A request on the ring is a pair: an SRB and the number of one of its requests.
LEMMA ReqsEntry ==
  ASSUME TypeOK, NEW k \in 1 .. Len(reqs)
  PROVE  reqs[k] \in Data \X Nat /\ reqs[k] = <<reqs[k][1], reqs[k][2]>>
<1>1. reqs[k] \in Data \X Nat
  BY ElementOfSeq DEF TypeOK, RingTypes
<1> QED
  BY <1>1

\* A response on the ring is a triple: the SRB, the request's number and the answer.
LEMMA RspsEntry ==
  ASSUME TypeOK, NEW j \in 1 .. Len(rsps)
  PROVE  /\ rsps[j] \in Data \X Nat \X Answers
         /\ rsps[j] = <<rsps[j][1], rsps[j][2], rsps[j][3]>>
<1>1. rsps[j] \in Data \X Nat \X Answers
  BY ElementOfSeq DEF TypeOK, RingTypes
<1> QED
  BY <1>1

\* A step that does not touch the ring but for req_prod, and leaves alone the SRBs that
\* may be on it.
LEMMA SameRing ==
  ASSUME TypeOK, RingAgrees, ReadyIsWhole', UNCHANGED <<reqs, rsps, rspCons>>,
         pushed' \in pushed .. Len(reqs),
         \A s \in Data : ~Waits(s) =>
           /\ ~Waits(s)' /\ requests'[s] = requests[s] /\ done'[s] = done[s]
           /\ \A i \in Nat, a \in Answers : <<s, i, a>> \in answers' <=> <<s, i, a>> \in answers
  PROVE  RingAgrees'
<1>0. /\ Len(reqs) \in Nat /\ Len(rsps) \in Nat /\ pushed \in Nat
      /\ rspCons \in Nat /\ RingSize \in Nat
  BY LenProperties, ConstantsAssumption DEF TypeOK, RingTypes, ConstantsAssumption
<1>1. RingFits'
  BY <1>0 DEF RingAgrees, RingFits
<1>2. ResponsesMatch'
  <2>1. 1 .. pushed \subseteq 1 .. pushed'
    BY <1>0
  <2>2. \A j \in 1 .. Len(rsps) : \E i \in 1 .. pushed' : reqs[i] = Pair(rsps[j])
    BY <2>1 DEF RingAgrees, ResponsesMatch
  <2> QED
    BY <2>2 DEF RingAgrees, ResponsesMatch, Pair
<1>3. ASSUME NEW k \in 1 .. Len(reqs)
      PROVE  reqs[k][2] \in 1 .. NumRequests[reqs[k][1]] /\ Tracked(reqs[k][1])'
  <2>1. PICK s \in Data : s = reqs[k][1]
    BY ReqsEntry
  <2>2. Tracked(s) /\ reqs[k][2] \in 1 .. NumRequests[s]
    BY <2>1 DEF RingAgrees, RingTracks
  <2>3. ~Waits(s)
    BY <2>2 DEF Tracked
  <2>4. Tracked(s)'
    <3>1. \A i \in 1 .. NumRequests[s] : Consumed(<<s, i>>)' <=> Consumed(<<s, i>>)
      BY DEF Consumed, Pair
    <3>2. /\ ~Waits(s)' /\ requests'[s] = requests[s] /\ done'[s] = done[s]
          /\ \A i \in Nat, a \in Answers :
               <<s, i, a>> \in answers' <=> <<s, i, a>> \in answers
      BY <2>3
    <3>3. requests'[s] = {i \in 1 .. NumRequests[s] : ~Consumed(<<s, i>>)'}
      BY <2>2, <3>1, <3>2 DEF Tracked
    <3>4. \A i \in 1 .. NumRequests[s] : \E j \in 1 .. Len(reqs) : reqs[j] = <<s, i>>
      BY <2>2 DEF Tracked
    <3>5. \A i \in 1 .. NumRequests[s], a \in Answers :
            <<s, i, a>> \in answers' <=> \E j \in 1 .. Len(rsps) : rsps[j] = <<s, i, a>>
      <4>1. \A i \in 1 .. NumRequests[s], a \in Answers :
              <<s, i, a>> \in answers <=> \E j \in 1 .. Len(rsps) : rsps[j] = <<s, i, a>>
        BY <2>2 DEF Tracked
      <4>2. \A i \in 1 .. NumRequests[s] : i \in Nat
        OBVIOUS
      <4> QED
        BY <3>2, <4>1, <4>2
    <3>6. done'[s] # << >> => requests'[s] = {}
      BY <2>2, <3>2 DEF Tracked
    <3> QED
      BY <3>2, <3>3, <3>4, <3>5, <3>6 DEF Tracked
  <2> QED
    BY <2>1, <2>2, <2>4
<1>4. RingTracks'
  BY <1>3 DEF RingTracks
<1> QED
  BY <1>1, <1>2, <1>4 DEF RingAgrees

\* No SRB goes back to waiting, and none becomes ready.
NoneReadied == \A s \in Data : (Waits(s)' => Waits(s)) /\ (Ready(s)' => Ready(s))

\* A step that readies no SRB and leaves the ring (but for req_prod) and the answers
\* alone keeps RingAgrees.
LEMMA QuietRing ==
  ASSUME TypeOK, RingAgrees, UNCHANGED <<reqs, rsps, rspCons, requests, answers>>,
         pushed' \in pushed .. Len(reqs), NoneReadied,
         \A s \in Data : Waits(s) \/ done'[s] = done[s]
  PROVE  RingAgrees'
<1>1. ReadyIsWhole'
  BY DEF RingAgrees, ReadyIsWhole, NoneReadied
<1> QED
  BY <1>1, SameRing DEF NoneReadied

\* An empty ring tells nothing.
LEMMA EmptyRing ==
  ASSUME ReadyIsWhole', reqs' = << >>, rsps' = << >>, pushed' = 0, rspCons' = 0
  PROVE  RingAgrees'
<1>1. Len(reqs') = 0 /\ Len(rsps') = 0
  BY EmptySeq
<1>2. RingFits'
  BY <1>1, ConstantsAssumption DEF RingFits, ConstantsAssumption
<1>3. ResponsesMatch' /\ RingTracks'
  BY <1>1 DEF ResponsesMatch, RingTracks
<1> QED
  BY <1>2, <1>3 DEF RingAgrees

\* A step that leaves the queues alone, and on which no CPU takes an SRB in hand that has
\* not been on the ring.
LEMMA MovesReadyNone ==
  ASSUME UNCHANGED <<queueHead, issued>>,
         \A c \in Cpus, s \in Srbs : Holds(c, s)' /\ pc'[c] \in Before =>
           /\ Holds(c, s) /\ pc[c] \in Before
           /\ pc'[c] \in {"Submit", "PutBack"} => pc[c] \in {"Submit", "PutBack"}
  PROVE  NoneReadied
<1>1. \A s \in Data : s \in Srbs
  BY DEF Srbs
<1> QED
  BY <1>1 DEF NoneReadied, Waits, Ready, Before, Holds

\* Where the CPUs other than c are, and what they hold, stays.
LEMMA OthersStay ==
  ASSUME TypeOK, NEW c \in Cpus, NEW l, Goto(c, l),
         UNCHANGED cur \/ LetGo(c) \/ \E s : cur' = [cur EXCEPT ![c] = s]
  PROVE  /\ pc'[c] = l
         /\ \A d \in Cpus \ {c} : pc'[d] = pc[d] /\ cur'[d] = cur[d]
BY DEF TypeOK, CpuTypes, Goto, LetGo

\* A CPU that goes on, keeping what it holds or letting go of it, readies no SRB, unless
\* it goes to submit.
LEMMA MoveReadiesNone ==
  ASSUME TypeOK, NEW c \in Cpus, NEW l, Goto(c, l), UNCHANGED <<queueHead, issued>>,
         UNCHANGED cur \/ LetGo(c),
         l \notin Before \/ (pc[c] = "Submit" /\ l = "PutBack" /\ UNCHANGED cur)
  PROVE  NoneReadied
<1>1. /\ pc'[c] = l
      /\ \A d \in Cpus \ {c} : pc'[d] = pc[d] /\ cur'[d] = cur[d]
  BY OthersStay
<1>2. \A d \in Cpus, s \in Srbs : Holds(d, s)' /\ pc'[d] \in Before =>
        /\ Holds(d, s) /\ pc[d] \in Before
        /\ pc'[d] \in {"Submit", "PutBack"} => pc[d] \in {"Submit", "PutBack"}
  BY <1>1 DEF Holds, Before, Holding
<1> QED
  BY <1>2, MovesReadyNone

\* The indices of the ring are numbers, req_prod within what was put.
LEMMA PushedTypes ==
  ASSUME TypeOK
  PROVE  /\ pushed \in pushed .. Len(reqs) /\ Len(reqs) \in pushed .. Len(reqs)
         /\ Len(reqs) \in Nat /\ Len(rsps) \in Nat /\ pushed \in 0 .. Len(reqs)
         /\ rspCons \in Nat
BY LenProperties DEF TypeOK, RingTypes
\* The SRB at the head of a queue names that queue.
LEMMA PoppedHead ==
  ASSUME TypeOK, Ownership, NEW q \in QueueNames, Pop(q)
  PROVE  /\ Head(queue[q]) \in Carries(q) /\ queueHead[Head(queue[q])] = q
         /\ queueHead'[Head(queue[q])] = None
         /\ \A t \in Srbs \ {Head(queue[q])} : queueHead'[t] = queueHead[t]
<1>1. Head(queue[q]) \in Carries(q)
  BY HeadTail DEF TypeOK, QueueTypes, Pop
<1>2. Head(queue[q]) \in Srbs /\ queueHead[Head(queue[q])] = q
  BY PopAgrees DEF TypeOK, Ownership
<1> QED
  BY <1>1, <1>2 DEF Pop, TypeOK, QueueTypes

\* A step of c that concerns one SRB readies no other.
LEMMA OthersReadyNone ==
  ASSUME TypeOK, NEW c \in Cpus, NEW s \in Srbs, issued \subseteq issued',
         \A t \in Srbs \ {s} : queueHead'[t] = queueHead[t],
         \A d \in Cpus \ {c} : pc'[d] = pc[d] /\ cur'[d] = cur[d],
         \A t \in Srbs \ {s} : ~(Holds(c, t)' /\ pc'[c] \in Before),
         NEW t \in Data, t # s
  PROVE  (Waits(t)' => Waits(t)) /\ (Ready(t)' => Ready(t))
<1>1. t \in Srbs /\ queueHead'[t] = queueHead[t]
  BY DEF Srbs
<1>2. \A d \in Cpus : Holds(d, t)' /\ pc'[d] \in Before => Holds(d, t) /\ pc'[d] = pc[d]
  BY <1>1 DEF Holds
<1>3. {"Submit", "PutBack"} \subseteq Before
  BY DEF Before
<1> QED
  BY <1>1, <1>2, <1>3 DEF Waits, Ready

\* A step of c that concerns one SRB and does not make it ready.
LEMMA OneReadiesNone ==
  ASSUME TypeOK, NEW c \in Cpus, NEW s \in Srbs, issued \subseteq issued',
         \A t \in Srbs \ {s} : queueHead'[t] = queueHead[t],
         \A d \in Cpus \ {c} : pc'[d] = pc[d] /\ cur'[d] = cur[d],
         \A t \in Srbs \ {s} : ~(Holds(c, t)' /\ pc'[c] \in Before),
         s \in Data => (Waits(s)' => Waits(s)) /\ (Ready(s)' => Ready(s))
  PROVE  NoneReadied
<1>1. \A t \in Data : t # s => (Waits(t)' => Waits(t)) /\ (Ready(t)' => Ready(t))
  BY OthersReadyNone
<1> QED
  BY <1>1 DEF NoneReadied

\* PdoStartIo: a new SRB is not on the ring.
LEMMA StartRing ==
  ASSUME TypeOK, Ownership, RingAgrees, NEW c \in Cpus, StartIo(c)
  PROVE  RingAgrees'
<1>1. ASSUME NEW s \in Data, StartData(c, s)
      PROVE  RingAgrees'
  <2>1. /\ UNCHANGED <<reqs, rsps, rspCons, requests, answers, pushed, queueHead>>
        /\ s \in Srbs /\ s \notin issued /\ issued' = issued \cup {s}
    BY <1>1 DEF StartData, ringVars, Srbs
  <2>2. Waits(s)
    BY <2>1 DEF Waits
  <2>3. \A t \in Data : Waits(t) \/ done'[t] = done[t]
    <3>1. \A t \in Data \ {s} : done'[t] = done[t]
      BY <1>1 DEF StartData, Complete, TypeOK, SrbTypes, Srbs
    <3> QED
      BY <2>2, <3>1
  <2>4. NoneReadied
    <3>1. CASE UNCHANGED cpuVars
      BY <2>1, <3>1 DEF NoneReadied, Waits, Ready, Holds, cpuVars
    <3>2. CASE Goto(c, "Prepare") /\ cur' = [cur EXCEPT ![c] = s]
      <4>1. /\ pc'[c] = "Prepare" /\ cur'[c] = s
            /\ \A d \in Cpus \ {c} : pc'[d] = pc[d] /\ cur'[d] = cur[d]
        BY <3>2 DEF TypeOK, CpuTypes, Goto
      <4>2. Ready(s)' => Ready(s)
        BY <2>1, <4>1 DEF Ready, Holds
      <4>3. \A t \in Srbs \ {s} : ~(Holds(c, t)' /\ pc'[c] \in Before)
        BY <4>1 DEF Holds
      <4> QED
        BY <2>1, <2>2, <4>1, <4>2, <4>3, OneReadiesNone
    <3> QED
      BY <1>1, <3>1, <3>2 DEF StartData
  <2> QED
    BY <2>1, <2>3, <2>4, PushedTypes, QuietRing
<1>2. ASSUME NEW f \in Flushes, StartFlush(c, f)
      PROVE  RingAgrees'
  <2>1. /\ UNCHANGED <<reqs, rsps, rspCons, requests, answers, pushed, done, pc, cur>>
        /\ issued' = issued \cup {f} /\ InsertTail("Shutdown", f)
    BY <1>2 DEF StartFlush, ringVars, cpuVars
  <2>2. \A t \in Data : queueHead'[t] = queueHead[t]
    BY <2>1, ConstantsAssumption
       DEF InsertTail, TypeOK, QueueTypes, Srbs, ConstantsAssumption
  <2>3. NoneReadied
    BY <2>1, <2>2 DEF NoneReadied, Waits, Ready, Holds
  <2> QED
    BY <2>1, <2>3, PushedTypes, QuietRing
<1> QED
  BY <1>1, <1>2 DEF StartIo

\* What a CPU puts back on FreshSrbs or PreparedSrbs waited in its hands; what it puts on
\* SubmittedSrbs no longer waits.
LEMMA PutDownRing ==
  ASSUME TypeOK, Ownership, RingAgrees, NEW c \in Cpus,
         PrepareFails(c) \/ PutBack(c) \/ QueueSubmitted(c)
  PROVE  RingAgrees'
<1>1. PICK s \in Data : s = cur[c] /\ pc[c] \in Holding
  BY DEF TypeOK, CpuTypes, PrepareFails, PutBack, QueueSubmitted, At, Holding
<1>2. s \in Srbs
  BY DEF Srbs
<1>3. PICK q \in {"Fresh", "Prepared", "Submitted"} :
        /\ InsertTail(q, s) \/ InsertHead(q, s)
        /\ q = "Fresh" => pc[c] \in {"Prepare", "PrepFresh"}
        /\ q = "Prepared" => pc[c] = "PutBack"
  BY <1>1 DEF PrepareFails, PutBack, QueueSubmitted, At
<1>4. queueHead'[s] = q /\ \A t \in Srbs \ {s} : queueHead'[t] = queueHead[t]
  BY <1>2, <1>3 DEF InsertTail, InsertHead, TypeOK, QueueTypes
<1>5. PICK l \in Pcs \ Holding : Goto(c, l)
  <2>1. AfterSubmit(c) \in Pcs \ Holding
    BY Returns DEF TypeOK
  <2> QED
    BY <2>1 DEF PrepareFails, PutBack, QueueSubmitted, Pcs, Holding
<1>6. pc'[c] = l /\ \A d \in Cpus \ {c} : pc'[d] = pc[d] /\ cur'[d] = cur[d]
  BY <1>5 DEF TypeOK, CpuTypes, PrepareFails, PutBack, QueueSubmitted, Goto, LetGo
<1>7. pc'[c] \notin Before
  BY <1>5, <1>6 DEF Before, Holding
<1>8. Holds(c, s) /\ ~Holds(c, s)' /\ \A d \in Cpus \ {c} : ~Holds(d, s)
  BY <1>1, <1>2, <1>5, <1>6 DEF Ownership, HeldOpen, Holds
<1>9. UNCHANGED <<reqs, rsps, rspCons, requests, answers, pushed, done, issued>>
  BY DEF PrepareFails, PutBack, QueueSubmitted, ringVars
<1>10. \A d \in Cpus : ~Holds(d, s)'
  BY <1>6, <1>8 DEF Holds
<1>11. (Waits(s)' => Waits(s)) /\ (Ready(s)' => Ready(s))
  BY <1>3, <1>4, <1>8, <1>9, <1>10 DEF Waits, Ready, Before
<1>12. NoneReadied
  BY <1>2, <1>4, <1>6, <1>7, <1>9, <1>11, OneReadiesNone
<1> QED
  BY <1>9, <1>12, PushedTypes, QuietRing

\* What a CPU pops to work on waited on the queue, and still waits.
LEMMA PopRing ==
  ASSUME TypeOK, Ownership, RingAgrees, NEW c \in Cpus, PopPrepared(c) \/ PopFresh(c)
  PROVE  RingAgrees'
<1>1. UNCHANGED <<reqs, rsps, rspCons, requests, answers, pushed, done, issued>>
  BY DEF PopPrepared, PopFresh, ringVars
<1>2. ASSUME UNCHANGED <<queueHead, cur>>, NEW l \in Pcs \ Holding, Goto(c, l)
      PROVE  NoneReadied
  BY <1>1, <1>2, MoveReadiesNone DEF Before, Holding
<1>3. ASSUME NEW q \in {"Fresh", "Prepared"}, Pop(q), NEW l \in Holding, Goto(c, l),
             cur' = [cur EXCEPT ![c] = Head(queue[q])],
             l = "Submit" => q = "Prepared", l # "PutBack"
      PROVE  NoneReadied
  <2>1. PICK s \in Data : s = Head(queue[q])
    BY <1>3, PoppedHead DEF Carries, QueueNames
  <2>2. /\ s \in Srbs /\ queueHead[s] = q /\ queueHead'[s] = None
        /\ \A t \in Srbs \ {s} : queueHead'[t] = queueHead[t]
    BY <1>3, <2>1, PoppedHead DEF QueueNames, Srbs
  <2>3. pc'[c] = l /\ cur'[c] = s /\ \A d \in Cpus \ {c} : pc'[d] = pc[d] /\ cur'[d] = cur[d]
    BY <1>3, <2>1 DEF TypeOK, CpuTypes, Goto
  <2>4. Waits(s)
    BY <2>2 DEF Waits
  <2>5. Ready(s)' => Ready(s)
    <3>1. queueHead[s] # None
      BY <2>2, ConstantsAssumption DEF ConstantsAssumption, QueueNames
    <3>2. \A d \in Cpus : ~Holds(d, s)
      BY <2>2, <3>1 DEF Ownership, HeldOpen
    <3>3. \A d \in Cpus \ {c} : ~Holds(d, s)'
      BY <2>3, <3>2 DEF Holds
    <3>4. queueHead'[s] # "Prepared"
      BY <2>2, ConstantsAssumption DEF ConstantsAssumption, QueueNames
    <3>5. Ready(s)' => pc'[c] \in {"Submit", "PutBack"}
      BY <3>3, <3>4 DEF Ready, Holds
    <3> QED
      BY <1>3, <2>2, <2>3, <3>5 DEF Ready
  <2>6. \A t \in Srbs \ {s} : ~(Holds(c, t)' /\ pc'[c] \in Before)
    BY <2>3 DEF Holds
  <2> QED
    BY <1>1, <2>2, <2>3, <2>4, <2>5, <2>6, OneReadiesNone
<1>4. NoneReadied
  <2>1. CASE PopPrepared(c)
    <3>1. AfterSubmit(c) \in Pcs \ Holding
      BY Returns DEF TypeOK
    <3> QED
      BY <1>2, <1>3, <2>1, <3>1 DEF PopPrepared, Holding
  <2>2. CASE PopFresh(c)
    BY <1>2, <1>3, <2>2 DEF PopFresh, Holding, Pcs
  <2> QED
    BY <2>1, <2>2
<1> QED
  BY <1>1, <1>4, PushedTypes, QuietRing

\* The other steps of a CPU and of the power thread that leave the ring's entries alone.
LEMMA QuietActionsRing ==
  ASSUME TypeOK, RingAgrees,
         \/ \E c \in Cpus :
              \/ Mark(c) \/ Push(c) \/ StartDpc(c) \/ Unmask(c)
              \/ EnterComplete(c) \/ LeaveComplete(c)
              \/ PeekShutdown(c) \/ PeekOthers(c) \/ StartReset(c) \/ ResetPeek(c)
              \/ Disable(c) \/ Close(c) \/ Enable(c)
              \/ PowerUp(c) \/ SetState(c, "Drained", "Closing", "Disable")
              \/ Bugcheck(c)
         \/ Pause \/ SeeDrained \/ Unpause \/ UNCHANGED vars
  PROVE  RingAgrees'
<1>1. UNCHANGED <<reqs, rsps, rspCons, requests, answers, queueHead, issued, done>>
  BY DEF Mark, Push, StartDpc, Unmask, EnterComplete, LeaveComplete, PeekShutdown,
         PeekOthers, StartReset, ResetPeek, Disable, Close, Enable, PowerUp, SetState,
         Bugcheck, Pause, SeeDrained, Unpause, vars, srbVars, ringVars
<1>2. pushed' = pushed \/ pushed' = Len(reqs)
  BY DEF Mark, Push, StartDpc, Unmask, EnterComplete, LeaveComplete, PeekShutdown,
         PeekOthers, StartReset, ResetPeek, Disable, Close, Enable, PowerUp, SetState,
         Bugcheck, Pause, SeeDrained, Unpause, vars, ringVars
<1>3. ASSUME NEW c \in Cpus, \E l \in Pcs \ Holding : Goto(c, l), UNCHANGED cur \/ LetGo(c)
      PROVE  NoneReadied
  BY <1>1, <1>3, MoveReadiesNone DEF Before, Holding
<1>4. ASSUME UNCHANGED <<pc, cur>>
      PROVE  NoneReadied
  BY <1>1, <1>4 DEF NoneReadied, Waits, Ready, Holds
<1>5. ASSUME NEW c \in Cpus,
             \/ Mark(c) \/ Push(c) \/ StartDpc(c) \/ Unmask(c)
             \/ EnterComplete(c) \/ LeaveComplete(c)
      PROVE  NoneReadied
  BY <1>3, <1>4, <1>5 DEF Mark, Push, StartDpc, Unmask, EnterComplete, LeaveComplete,
     Pcs, Holding, cpuVars
<1>6. ASSUME NEW c \in Cpus, PeekShutdown(c) \/ PeekOthers(c)
      PROVE  NoneReadied
  <2>1. AfterCallback(c) \in Pcs \ Holding
    BY Returns DEF TypeOK
  <2> QED
    BY <1>3, <1>6, <2>1 DEF PeekShutdown, PeekOthers, Peeks, Pcs, Holding
<1>7. ASSUME NEW c \in Cpus,
             \/ StartReset(c) \/ ResetPeek(c) \/ Disable(c) \/ Close(c) \/ Enable(c)
             \/ PowerUp(c) \/ SetState(c, "Drained", "Closing", "Disable")
      PROVE  NoneReadied
  BY <1>3, <1>7 DEF StartReset, ResetPeek, Disable, Close, Enable, PowerUp, SetState,
     Pcs, Holding, SettingState
<1>8. ASSUME \/ \E c \in Cpus : Bugcheck(c)
             \/ Pause \/ SeeDrained \/ Unpause \/ UNCHANGED vars
      PROVE  NoneReadied
  BY <1>4, <1>8 DEF Bugcheck, Pause, SeeDrained, Unpause, vars, cpuVars
<1>9. NoneReadied
  BY <1>5, <1>6, <1>7, <1>8
<1> QED
  BY <1>1, <1>2, <1>9, PushedTypes, QuietRing

\* Without a ring there is nothing on it.
LEMMA NoRing ==
  ASSUME TypeOK, RingAgrees, PowerAgrees, ~ringUp
  PROVE  reqs = << >> /\ rsps = << >> /\ pushed = 0 /\ rspCons = 0
<1>1. reqs = << >> /\ Len(reqs) = 0
  BY EmptySeq DEF PowerAgrees
<1>2. pushed = 0 /\ Len(rsps) = 0 /\ rspCons = 0
  BY <1>1, PushedTypes DEF RingAgrees, RingFits
<1>3. rsps = << >>
  BY <1>2, EmptySeq DEF TypeOK, RingTypes
<1> QED
  BY <1>1, <1>2, <1>3

\* Aborting FreshSrbs or resetting: what is completed was not on the ring.
LEMMA PopFreshAgrees ==
  ASSUME TypeOK, Ownership, RingAgrees, Pop("Fresh"),
         NEW srb, NEW scsi, Complete(Head(queue["Fresh"]), srb, scsi),
         UNCHANGED <<reqs, rsps, rspCons, pushed, requests, answers, issued, cpuVars>>
  PROVE  RingAgrees'
<1>1. PICK s \in Data : s = Head(queue["Fresh"])
  BY PoppedHead DEF Carries, QueueNames
<1>2. /\ s \in Srbs /\ queueHead[s] = "Fresh" /\ queueHead'[s] = None
      /\ \A t \in Srbs \ {s} : queueHead'[t] = queueHead[t]
  BY <1>1, PoppedHead DEF QueueNames, Srbs
<1>3. \A t \in Data \ {s} : done'[t] = done[t]
  BY <1>1 DEF Complete, TypeOK, SrbTypes, Srbs
<1>4. Waits(s)
  BY <1>2 DEF Waits
<1>5. queueHead'[s] # "Prepared"
  BY <1>2, ConstantsAssumption DEF ConstantsAssumption, QueueNames
<1>6. NoneReadied
  <2> SUFFICES ASSUME NEW t \in Data
               PROVE  (Waits(t)' => Waits(t)) /\ (Ready(t)' => Ready(t))
    BY DEF NoneReadied
  <2>1. t \in Srbs
    BY DEF Srbs
  <2> QED
    BY <1>2, <1>4, <1>5, <2>1 DEF Waits, Ready, Holds, cpuVars
<1> QED
  BY <1>3, <1>4, <1>6, PushedTypes, QuietRing

\* PdoReset and PdoCompleteShutdown complete nothing that is on the ring.
LEMMA CompletesRing ==
  ASSUME TypeOK, Ownership, RingAgrees, NEW c \in Cpus, ResetFresh(c) \/ PopShutdown(c)
  PROVE  RingAgrees'
<1>1. UNCHANGED <<reqs, rsps, rspCons, requests, answers, pushed, issued, cur>>
  BY DEF ResetFresh, PopShutdown, ringVars
<1>2. ASSUME UNCHANGED <<queueHead, done>>, NEW l \in Pcs \ Holding, Goto(c, l)
      PROVE  RingAgrees'
  <2>1. NoneReadied
    BY <1>1, <1>2, MoveReadiesNone DEF Before, Holding
  <2> QED
    BY <1>1, <1>2, <2>1, PushedTypes, QuietRing
<1>3. CASE ResetFresh(c)
  <2>1. CASE Pop("Fresh") /\ UNCHANGED pc
             /\ Complete(Head(queue["Fresh"]), srbStatus[Head(queue["Fresh"])], "Aborted")
    <3>1. UNCHANGED cpuVars
      BY <1>1, <1>3, <2>1 DEF ResetFresh, cpuVars
    <3> QED
      BY <1>1, <2>1, <3>1, PopFreshAgrees
  <2> QED
    BY <1>2, <1>3, <2>1 DEF ResetFresh, Pcs, Holding
<1>4. CASE PopShutdown(c)
  <2>1. CASE UNCHANGED <<queueHead, done>> /\ Goto(c, AfterCallback(c))
    <3>1. AfterCallback(c) \in Pcs \ Holding
      BY Returns DEF TypeOK
    <3> QED
      BY <1>2, <2>1, <3>1
  <2>2. CASE Pop("Shutdown") /\ Complete(Head(queue["Shutdown"]), "Success", "Good")
             /\ UNCHANGED pc
    <3>1. PICK f \in Flushes : f = Head(queue["Shutdown"])
      BY <2>2, PoppedHead DEF Carries, QueueNames
    <3>2. \A t \in Data : t \in Srbs \ {f}
      BY ConstantsAssumption DEF ConstantsAssumption, Srbs
    <3>3. \A t \in Data : queueHead'[t] = queueHead[t]
      BY <2>2, <3>1, <3>2, PoppedHead DEF QueueNames
    <3>4. \A t \in Data : done'[t] = done[t]
      BY <2>2, <3>1, <3>2 DEF Complete, TypeOK, SrbTypes
    <3>5. NoneReadied
      BY <1>1, <2>2, <3>3 DEF NoneReadied, Waits, Ready, Holds
    <3> QED
      BY <1>1, <3>4, <3>5, PushedTypes, QuietRing
  <2> QED
    BY <1>4, <2>1, <2>2 DEF PopShutdown
<1> QED
  BY <1>3, <1>4

\* PdoAbortAllSrbs runs without a ring.
LEMMA AbortRing ==
  ASSUME TypeOK, Ownership, PowerAgrees, RingAgrees,
         \/ Abort("AbortFresh", "Fresh", "AbortPrepared")
         \/ Abort("AbortPrepared", "Prepared", "AbortSubmitted")
         \/ Abort("AbortSubmitted", "Submitted", "D3")
  PROVE  RingAgrees'
<1>1. PICK q \in {"Fresh", "Prepared", "Submitted"}, state \in Down, next \in Down :
        Abort(state, q, next)
  BY DEF Down
<1>2. ~ringUp /\ UNCHANGED <<ringVars, pc, cur, issued, answers>>
  BY <1>1 DEF Abort, Passive, PowerAgrees, cpuVars
<1>3. reqs' = << >> /\ rsps' = << >> /\ pushed' = 0 /\ rspCons' = 0
  BY <1>2, NoRing DEF ringVars
<1>4. CASE UNCHANGED <<queueHead, requests>>
  <2>1. ReadyIsWhole'
    BY <1>2, <1>4 DEF RingAgrees, ReadyIsWhole, Ready, Holds
  <2> QED
    BY <1>3, <2>1, EmptyRing
<1>5. CASE /\ Pop(q)
           /\ requests' = [requests EXCEPT ![Head(queue[q])] = IF q = "Fresh" THEN @ ELSE {}]
  <2>1. PICK s \in Data : s = Head(queue[q])
    BY <1>5, PoppedHead DEF Carries, QueueNames
  <2>2. /\ s \in Srbs /\ queueHead[s] = q /\ queueHead'[s] = None
        /\ \A t \in Srbs \ {s} : queueHead'[t] = queueHead[t]
    BY <1>5, <2>1, PoppedHead DEF QueueNames, Srbs
  <2>3. queueHead'[s] # "Prepared" /\ queueHead[s] # None
    BY <2>2, ConstantsAssumption DEF ConstantsAssumption, QueueNames
  <2>4. \A c \in Cpus : ~Holds(c, s)
    BY <2>2, <2>3 DEF Ownership, HeldOpen
  <2>5. ASSUME NEW t \in Data, Ready(t)'
        PROVE  Ready(t) /\ requests'[t] = requests[t]
    <3>1. t # s
      BY <1>2, <2>3, <2>4, <2>5 DEF Ready, Holds
    <3>2. t \in Srbs
      BY DEF Srbs
    <3> QED
      BY <1>2, <1>5, <2>1, <2>2, <2>5, <3>1, <3>2 DEF Ready, Holds, TypeOK, SrbTypes
  <2>6. ReadyIsWhole'
    BY <1>2, <2>5 DEF RingAgrees, ReadyIsWhole
  <2> QED
    BY <1>3, <2>6, EmptyRing
<1> QED
  BY <1>1, <1>4, <1>5 DEF Abort

\* A ring is freed or made: it is then empty.
LEMMA RenewedRing ==
  ASSUME TypeOK, RingAgrees, NEW c \in Cpus, FreeRing(c) \/ NewRing(c)
  PROVE  RingAgrees'
<1>1. /\ UNCHANGED <<queueHead, issued, requests, answers, cur>>
      /\ reqs' = << >> /\ rsps' = << >> /\ pushed' = 0 /\ rspCons' = 0
  BY DEF FreeRing, NewRing, ClearRing, srbVars
<1>2. NoneReadied
  <2>1. CASE NewRing(c)
    <3>1. \E l \in Pcs \ Before : Goto(c, l)
      BY <2>1 DEF NewRing, Pcs, Before, SettingState
    <3> QED
      BY <1>1, <3>1, MoveReadiesNone
  <2>2. CASE FreeRing(c)
    <3>1. \A d \in Cpus : pc'[d] \in Holding => pc'[d] = pc[d]
      BY <2>2, FreeRingMoves DEF Holding
    <3> QED
      BY <1>1, <3>1 DEF NoneReadied, Waits, Ready, Holds, Holding
  <2> QED
    BY <2>1, <2>2
<1>3. ReadyIsWhole'
  BY <1>1, <1>2 DEF RingAgrees, ReadyIsWhole, NoneReadied
<1> QED
  BY <1>1, <1>3, EmptyRing

\* A resume empties the ring, or finds it freed; PdoPreResume leaves nothing prepared.
LEMMA SuspendRing ==
  ASSUME TypeOK, PowerAgrees, RingAgrees, Suspend
  PROVE  RingAgrees'
<1>1. UNCHANGED <<pc, cur>> /\ \A c \in Cpus : pc[c] = "Idle"
  BY DEF Suspend, cpuVars
<1>2. \A s \in Srbs : queueHead'[s] # "Prepared"
  BY DEF Suspend, PreResume
<1>3. \A s \in Data : ~Ready(s)'
  BY <1>1, <1>2 DEF Ready, Srbs
<1>4. ReadyIsWhole'
  BY <1>3 DEF ReadyIsWhole
<1>5. reqs' = << >> /\ rsps' = << >> /\ pushed' = 0 /\ rspCons' = 0
  <2>1. CASE ClearRing
    BY <2>1 DEF ClearRing
  <2>2. CASE ~connected /\ UNCHANGED <<reqs, pushed, rsps, rspCons, barrier>>
    <3>1. power \notin {"Closing", "Opening"} /\ power \notin Enabled
      BY <1>1, <2>2 DEF PowerAgrees, SettingState
    <3>2. power \in Down
      BY <3>1 DEF TypeOK, FlagTypes, PowerStates, Enabled, Down
    <3>3. ~ringUp
      BY <3>2 DEF PowerAgrees
    <3> QED
      BY <2>2, <3>3, NoRing
  <2> QED
    BY <2>1, <2>2 DEF Suspend
<1> QED
  BY <1>4, <1>5, EmptyRing

\* What is ready still waits.
LEMMA ReadyWaits ==
  ASSUME NEW s \in Data, Ready(s)
  PROVE  Waits(s)
BY DEF Ready, Waits, Before

\* PrepareReadWrite and PrepareSyncCache: all requests of the SRB are new.
LEMMA PrepareRing ==
  ASSUME TypeOK, Ownership, RingAgrees, NEW c \in Cpus, PrepareOk(c)
  PROVE  RingAgrees'
<1>1. PICK s \in Data : s = cur[c] /\ pc[c] \in {"Prepare", "PrepFresh"}
  BY DEF TypeOK, CpuTypes, PrepareOk, At, Holding
<1>2. s \in Srbs /\ Holds(c, s)
  BY <1>1 DEF Srbs, Holds, Holding
<1>3. /\ UNCHANGED <<reqs, rsps, rspCons, pushed, issued, done>>
      /\ requests' = [requests EXCEPT ![s] = 1 .. NumRequests[s]]
      /\ answers' = {a \in answers : a[1] # s}
      /\ InsertTail("Prepared", s)
  BY <1>1 DEF PrepareOk, ringVars
<1>4. queueHead'[s] = "Prepared" /\ \A t \in Srbs \ {s} : queueHead'[t] = queueHead[t]
  BY <1>2, <1>3 DEF InsertTail, TypeOK, QueueTypes
<1>5. /\ pc'[c] \in {"Pop", "PopFresh"}
      /\ \A d \in Cpus \ {c} : pc'[d] = pc[d] /\ cur'[d] = cur[d]
  BY DEF PrepareOk, TypeOK, CpuTypes, Goto, LetGo
<1>6. \A t \in Srbs \ {s} : ~(Holds(c, t)' /\ pc'[c] \in Before)
  BY <1>5 DEF Before
<1>7. \A t \in Data : t # s => (Waits(t)' => Waits(t)) /\ (Ready(t)' => Ready(t))
  BY <1>2, <1>3, <1>4, <1>5, <1>6, OthersReadyNone
<1>8. \A t \in Data : t # s => requests'[t] = requests[t] /\
        \A i \in Nat, a \in Answers : <<t, i, a>> \in answers' <=> <<t, i, a>> \in answers
  BY <1>3 DEF TypeOK, SrbTypes
<1>9. Waits(s)
  BY <1>1, <1>2 DEF Waits, Before
<1>10. requests'[s] = 1 .. NumRequests[s]
       /\ \A i \in Nat, a \in Answers : <<s, i, a>> \notin answers'
  BY <1>3 DEF TypeOK, SrbTypes
<1>11. \A t \in Data : \A i \in 1 .. NumRequests[t] : i \in Nat
  OBVIOUS
<1>12. ReadyIsWhole'
  BY <1>7, <1>8, <1>10, <1>11 DEF RingAgrees, ReadyIsWhole
<1>13. \A t \in Data : ~Waits(t) =>
         /\ ~Waits(t)' /\ requests'[t] = requests[t] /\ done'[t] = done[t]
         /\ \A i \in Nat, a \in Answers : <<t, i, a>> \in answers' <=> <<t, i, a>> \in answers
  BY <1>3, <1>7, <1>8, <1>9
<1> QED
  BY <1>3, <1>12, <1>13, PushedTypes, SameRing

\* The requests of an SRB go on the ring behind the others, in order.
LEMMA RingAppends ==
  ASSUME TypeOK, NEW s \in Data, reqs' = reqs \o RingEntries(s)
  PROVE  /\ NumRequests[s] \in Nat \ {0} /\ Len(reqs) \in Nat
         /\ Len(reqs') = Len(reqs) + NumRequests[s]
         /\ \A k \in 1 .. Len(reqs) : k \in 1 .. Len(reqs') /\ reqs'[k] = reqs[k]
         /\ \A k \in Len(reqs) + 1 .. Len(reqs') :
              /\ k \in 1 .. Len(reqs') /\ k - Len(reqs) \in 1 .. NumRequests[s]
              /\ reqs'[k] = <<s, k - Len(reqs)>>
         /\ \A i \in 1 .. NumRequests[s] :
              /\ Len(reqs) + i \in Len(reqs) + 1 .. Len(reqs')
              /\ Len(reqs) + i - Len(reqs) = i
<1> DEFINE m == NumRequests[s]
           n == Len(reqs)
<1>1. m \in Nat \ {0} /\ n \in Nat /\ reqs \in Seq(Data \X Nat)
  BY LenProperties, ConstantsAssumption DEF TypeOK, RingTypes, ConstantsAssumption
<1>2. RingEntries(s) \in Seq(Data \X Nat) /\ Len(RingEntries(s)) = m
      /\ \A i \in 1 .. m : RingEntries(s)[i] = <<s, i>>
  BY <1>1 DEF RingEntries
<1>3. /\ Len(reqs \o RingEntries(s)) = Len(reqs) + Len(RingEntries(s))
      /\ \A k \in 1 .. Len(reqs) + Len(RingEntries(s)) : (reqs \o RingEntries(s))[k] =
           IF k <= Len(reqs) THEN reqs[k] ELSE RingEntries(s)[k - Len(reqs)]
  BY <1>1, <1>2, ConcatProperties
<1> HIDE DEF m, n
<1>4. /\ Len(reqs') = n + m
      /\ \A k \in 1 .. n + m :
           reqs'[k] = IF k <= n THEN reqs[k] ELSE RingEntries(s)[k - n]
  BY <1>2, <1>3 DEF n
<1>5. \A k \in n + 1 .. n + m : k \in 1 .. n + m /\ k - n \in 1 .. m /\ ~(k <= n)
  BY <1>1
<1>6. \A k \in 1 .. n : k \in 1 .. n + m /\ k <= n
  BY <1>1
<1>7. \A i \in 1 .. m : n + i \in n + 1 .. n + m /\ n + i - n = i
  BY <1>1
<1> QED
  BY <1>1, <1>2, <1>4, <1>5, <1>6, <1>7 DEF m, n

\* FrontendSubmitRequest puts all the requests of an SRB on the ring, none of which was
\* on it, and only if they fit.
LEMMA SubmitRing ==
  ASSUME TypeOK, Ownership, RingAgrees, NEW c \in Cpus, Submit(c)
  PROVE  RingAgrees'
<1> DEFINE n == Len(reqs)
<1>1. PICK s \in Data : s = cur[c] /\ pc[c] = "Submit"
  BY DEF TypeOK, CpuTypes, Submit, At, Holding
<1> DEFINE m == NumRequests[s]
<1>2. s \in Srbs /\ Holds(c, s)
  BY <1>1 DEF Srbs, Holds, Holding
<1>3. UNCHANGED <<rsps, rspCons, pushed, requests, answers, queueHead, issued, done, cur>>
  BY DEF Submit, srbVars
<1>4. NoneReadied \/ pc'[c] = "Queue"
  <2>1. CASE Goto(c, "Queue")
    BY <2>1 DEF TypeOK, CpuTypes, Goto
  <2>2. CASE Goto(c, "PutBack")
    BY <1>1, <1>3, <2>2, MoveReadiesNone
  <2> QED
    BY <2>1, <2>2 DEF Submit
<1>5. CASE ~CanSubmit(cur[c])
  <2>1. UNCHANGED reqs /\ Goto(c, "PutBack")
    BY <1>5 DEF Submit
  <2>2. NoneReadied
    BY <1>1, <1>3, <2>1, MoveReadiesNone
  <2> QED
    BY <1>3, <2>1, <2>2, PushedTypes, QuietRing
<1>6. CASE CanSubmit(cur[c])
  <2>1. reqs' = reqs \o RingEntries(s) /\ Goto(c, "Queue")
    BY <1>1, <1>6 DEF Submit
  <2>2. NoneReadied
    BY <1>3, <2>1, MoveReadiesNone DEF Before
  <2>3. n \in Nat /\ m \in Nat \ {0} /\ RingSize \in Nat
    BY LenProperties, ConstantsAssumption DEF TypeOK, RingTypes, ConstantsAssumption
  <2>5. /\ Len(reqs') = n + m
        /\ \A k \in 1 .. n : reqs'[k] = reqs[k]
        /\ \A i \in 1 .. m : reqs'[n + i] = <<s, i>>
    <3>1. /\ Len(reqs') = n + m
          /\ \A k \in 1 .. n : reqs'[k] = reqs[k]
          /\ \A k \in n + 1 .. Len(reqs') : reqs'[k] = <<s, k - n>>
          /\ \A i \in 1 .. m : n + i \in n + 1 .. Len(reqs') /\ n + i - n = i
      BY <2>1, RingAppends
    <3> HIDE DEF n, m
    <3>2. ASSUME NEW i \in 1 .. m
          PROVE  reqs'[n + i] = <<s, i>>
      <4>1. PICK k \in n + 1 .. Len(reqs') : k = n + i /\ k - n = i
        BY <2>3, <3>1 DEF n, m
      <4>2. reqs'[k] = <<s, k - n>>
        BY <3>1
      <4> QED
        BY <4>1, <4>2
    <3> QED
      BY <3>1, <3>2
  <2>6. Ready(s) /\ Waits(s) /\ ~Waits(s)'
    <3>1. Ready(s)
      BY <1>1, <1>2 DEF Ready
    <3>2. Waits(s)
      BY <3>1, ReadyWaits
    <3>3. s \in issued /\ queueHead[s] = None /\ \A d \in Cpus \ {c} : ~Holds(d, s)
      BY <1>2 DEF Ownership, HeldOpen, Open
    <3>4. pc'[c] = "Queue" /\ \A d \in Cpus \ {c} : pc'[d] = pc[d]
      BY <2>1 DEF TypeOK, CpuTypes, Goto
    <3>5. None \notin {"Fresh", "Prepared"}
      BY ConstantsAssumption DEF ConstantsAssumption, QueueNames
    <3> QED
      BY <1>3, <3>1, <3>2, <3>3, <3>4, <3>5 DEF Waits, Holds, Before
  <2>7. \A k \in 1 .. n : reqs[k][1] \in Data \ {s}
    BY <2>6, ReqsEntry DEF RingAgrees, RingTracks, Tracked
  <2>8. \A j \in 1 .. Len(rsps) : rsps[j][1] # s
    <3> SUFFICES ASSUME NEW j \in 1 .. Len(rsps), rsps[j][1] = s PROVE FALSE
      OBVIOUS
    <3>1. PICK i \in 1 .. pushed : reqs[i] = Pair(rsps[j])
      BY DEF RingAgrees, ResponsesMatch
    <3>2. i \in 1 .. n
      BY <2>3, PushedTypes
    <3> QED
      BY <2>7, <3>1, <3>2 DEF Pair
  <2>9. rspCons \in 0 .. Len(rsps)
    BY PushedTypes DEF RingAgrees, RingFits
  <2> HIDE DEF n, m
  <2>10. RingFits'
    <3>1. RingSize + rspCons > n + m
      BY <1>1, <1>6 DEF CanSubmit, n, m
    <3>2. Len(reqs') - rspCons' <= RingSize /\ pushed' <= Len(reqs')
      BY <1>3, <2>3, <2>5, <3>1, PushedTypes DEF n
    <3> QED
      BY <1>3, <3>2 DEF RingAgrees, RingFits
  <2>11. ResponsesMatch'
    <3>1. \A j \in 1 .. Len(rsps) : \E i \in 1 .. pushed : reqs[i] = Pair(rsps[j])
      BY DEF RingAgrees, ResponsesMatch
    <3>2. \A i \in 1 .. pushed : reqs'[i] = reqs[i]
      BY <2>3, <2>5, PushedTypes DEF n
    <3>3. \A j \in 1 .. Len(rsps) : \E i \in 1 .. pushed : reqs'[i] = Pair(rsps[j])
      BY <3>1, <3>2
    <3> QED
      BY <1>3, <3>3 DEF RingAgrees, ResponsesMatch, Pair
  <2>12. \A k \in 1 .. n : k \in 1 .. Len(reqs')
    BY <2>3, <2>5
  <2>13. \A i \in 1 .. m : n + i \in 1 .. Len(reqs')
    BY <2>3, <2>5
  <2>14. \A t \in Data, i \in Nat : Consumed(<<t, i>>)' <=> Consumed(<<t, i>>)
    BY <1>3 DEF Consumed, Pair
  <2>15. ASSUME NEW k \in 1 .. n, NEW t \in Data, t = reqs[k][1]
         PROVE  reqs[k][2] \in 1 .. NumRequests[t] /\ Tracked(t)'
    <3>2. Tracked(t) /\ reqs[k][2] \in 1 .. NumRequests[t]
      BY <2>15 DEF RingAgrees, RingTracks, n
    <3>3. \A i \in 1 .. NumRequests[t] : \E j \in 1 .. Len(reqs') : reqs'[j] = <<t, i>>
      BY <2>5, <2>12, <3>2 DEF Tracked, n
    <3>4. \A i \in 1 .. NumRequests[t] : Consumed(<<t, i>>)' <=> Consumed(<<t, i>>)
      BY <2>14
    <3>5. ~Waits(t)'
      BY <2>2, <3>2 DEF NoneReadied, Tracked
    <3>6. Tracked(t)'
      BY <1>3, <3>2, <3>3, <3>4, <3>5 DEF Tracked
    <3> QED
      BY <3>2, <3>6
  <2>16. Tracked(s)'
    <3>1. \A i \in 1 .. m : \E j \in 1 .. Len(reqs') : reqs'[j] = <<s, i>>
      BY <2>5, <2>13
    <3>2. requests[s] = 1 .. m /\ \A i \in 1 .. m, a \in Answers : <<s, i, a>> \notin answers
      BY <2>6 DEF RingAgrees, ReadyIsWhole, m
    <3>3. \A i \in 1 .. m : ~Consumed(<<s, i>>)
      BY <2>8, <2>9 DEF Consumed, Pair
    <3>4. requests'[s] = {i \in 1 .. m : ~Consumed(<<s, i>>)'}
      BY <1>3, <2>14, <3>2, <3>3
    <3>5. done[s] = << >>
      BY <1>2 DEF Ownership, HeldOpen, Open
    <3>6. \A i \in 1 .. m, a \in Answers : ~\E j \in 1 .. Len(rsps) : rsps[j] = <<s, i, a>>
      BY <2>8
    <3> QED
      BY <1>3, <2>6, <3>1, <3>2, <3>4, <3>5, <3>6 DEF Tracked, m
  <2>17. RingTracks'
    <3> SUFFICES ASSUME NEW k \in 1 .. Len(reqs')
                 PROVE  (reqs[k][2] \in 1 .. NumRequests[reqs[k][1]] /\ Tracked(reqs[k][1]))'
      BY DEF RingTracks
    <3>1. CASE k \in 1 .. n
      <4>1. PICK t \in Data : t = reqs[k][1]
        BY <2>7, <3>1
      <4>2. reqs[k][2] \in 1 .. NumRequests[t] /\ Tracked(t)'
        BY <2>15, <3>1, <4>1
      <4>3. reqs'[k] = reqs[k]
        BY <2>5, <3>1
      <4> QED
        BY <4>1, <4>2, <4>3
    <3>2. CASE k \notin 1 .. n
      <4>1. k - n \in 1 .. m /\ n + (k - n) = k
        BY <2>3, <2>5, <3>2
      <4>2. reqs'[k] = <<s, k - n>>
        BY <2>5, <4>1
      <4> QED
        BY <2>16, <4>1, <4>2 DEF m
    <3> QED
      BY <3>1, <3>2
  <2>18. ReadyIsWhole'
    BY <1>3, <2>2 DEF RingAgrees, ReadyIsWhole, NoneReadied
  <2> QED
    BY <2>10, <2>11, <2>17, <2>18 DEF RingAgrees
<1> QED
  BY <1>5, <1>6

\* A response is consumed once, and its request leaves its SRB's list.
LEMMA ConsumeRing ==
  ASSUME TypeOK, RingAgrees, NEW c \in Cpus, ConsumeResponse(c)
  PROVE  RingAgrees'
<1>1. rspCons + 1 \in 1 .. Len(rsps) /\ rspCons \in Nat /\ Len(rsps) \in Nat
  BY PushedTypes DEF ConsumeResponse
<1>2. PICK s \in Data, i \in Nat : Pair(NextRsp) = <<s, i>> /\ NextRsp[1] = s /\ NextRsp[2] = i
  BY <1>1, RspsEntry DEF NextRsp, Pair
<1>3. /\ UNCHANGED <<reqs, rsps, pushed, answers, issued, pc, cur>>
      /\ rspCons' = rspCons + 1
      /\ requests' = [requests EXCEPT ![s] = @ \ {i}]
      /\ \/ requests[s] \ {i} # {} /\ UNCHANGED <<queueHead, done>>
         \/ requests[s] \ {i} = {} /\ RemoveFrom("Submitted", s)
            /\ \E srb, scsi : Complete(s, srb, scsi)
  BY <1>2 DEF ConsumeResponse, IsLast, cpuVars
<1>4. s \in Srbs
  BY DEF Srbs
<1>5. PICK p \in 1 .. pushed : reqs[p] = <<s, i>>
  BY <1>1, <1>2 DEF RingAgrees, ResponsesMatch, NextRsp
<1>6. p \in 1 .. Len(reqs)
  BY PushedTypes
<1>7. Tracked(s) /\ i \in 1 .. NumRequests[s]
  <2>1. Tracked(reqs[p][1]) /\ reqs[p][2] \in 1 .. NumRequests[reqs[p][1]]
    BY <1>6 DEF RingAgrees, RingTracks
  <2>2. reqs[p][1] = s /\ reqs[p][2] = i
    BY <1>5
  <2> QED
    BY <2>1, <2>2
<1>8. \A t \in Data \ {s} : /\ queueHead'[t] = queueHead[t] /\ done'[t] = done[t]
                           /\ requests'[t] = requests[t]
  BY <1>3, <1>4 DEF RemoveFrom, Complete, TypeOK, QueueTypes, SrbTypes, Srbs
<1>9. (queueHead'[s] = queueHead[s] \/ queueHead'[s] = None) /\ requests'[s] = requests[s] \ {i}
  BY <1>3, <1>4 DEF RemoveFrom, TypeOK, QueueTypes, SrbTypes
<1>10. None \notin {"Fresh", "Prepared"}
  BY ConstantsAssumption DEF ConstantsAssumption, QueueNames
<1>11. \A t \in Data : (Waits(t)' => Waits(t)) /\ (Ready(t)' => Ready(t))
  BY <1>3, <1>8, <1>9, <1>10 DEF Waits, Ready, Holds
<1>12. ReadyIsWhole'
  <2>1. ~Ready(s)
    BY <1>7, ReadyWaits DEF Tracked
  <2> QED
    BY <1>3, <1>8, <1>11, <2>1 DEF RingAgrees, ReadyIsWhole
<1>13. RingFits'
  BY <1>1, <1>3, PushedTypes, ConstantsAssumption
     DEF RingAgrees, RingFits, ConstantsAssumption
<1>14. ResponsesMatch'
  BY <1>3 DEF RingAgrees, ResponsesMatch, Pair
<1>15. \A t \in Data, k \in Nat : Consumed(<<t, k>>)' <=> Consumed(<<t, k>>) \/ <<t, k>> = <<s, i>>
  <2>1. 1 .. rspCons' = 1 .. rspCons \cup {rspCons + 1}
    BY <1>1, <1>3
  <2>2. Pair(rsps[rspCons + 1]) = <<s, i>>
    BY <1>2 DEF NextRsp
  <2> QED
    BY <1>3, <2>1, <2>2 DEF Consumed, Pair
<1>16. ASSUME NEW t \in Data, Tracked(t)
       PROVE  Tracked(t)'
  <2>1. \A k \in 1 .. NumRequests[t] : k \in Nat
    OBVIOUS
  <2>2. ~Waits(t)'
    BY <1>11, <1>16 DEF Tracked
  <2>3. requests[t] = {k \in 1 .. NumRequests[t] : ~Consumed(<<t, k>>)}
    BY <1>16 DEF Tracked
  <2>4. requests'[t] = {k \in 1 .. NumRequests[t] : ~Consumed(<<t, k>>)'}
    <3>1. CASE t = s
      <4>1. \A k \in 1 .. NumRequests[s] : Consumed(<<s, k>>)' <=> Consumed(<<s, k>>) \/ k = i
        BY <1>15, <2>1, <3>1
      <4> QED
        BY <1>9, <2>3, <3>1, <4>1
    <3>2. CASE t # s
      <4>1. \A k \in 1 .. NumRequests[t] : Consumed(<<t, k>>)' <=> Consumed(<<t, k>>)
        BY <1>15, <2>1, <3>2
      <4> QED
        BY <1>8, <2>3, <3>2, <4>1
    <3> QED
      BY <3>1, <3>2
  <2>5. done'[t] # << >> => requests'[t] = {}
    BY <1>3, <1>8, <1>9, <1>16 DEF Tracked
  <2>6. \A k \in 1 .. NumRequests[t] : \E j \in 1 .. Len(reqs') : reqs'[j] = <<t, k>>
    BY <1>3, <1>16 DEF Tracked
  <2>7. \A k \in 1 .. NumRequests[t], a \in Answers :
          <<t, k, a>> \in answers' <=> \E j \in 1 .. Len(rsps') : rsps'[j] = <<t, k, a>>
    BY <1>3, <1>16 DEF Tracked
  <2> QED
    BY <2>2, <2>4, <2>5, <2>6, <2>7 DEF Tracked
<1>17. RingTracks'
  <2> SUFFICES ASSUME NEW k \in 1 .. Len(reqs)
               PROVE  (reqs[k][2] \in 1 .. NumRequests[reqs[k][1]] /\ Tracked(reqs[k][1]))'
    BY <1>3 DEF RingTracks
  <2>1. PICK t \in Data : t = reqs[k][1]
    BY ReqsEntry
  <2>2. Tracked(t) /\ reqs[k][2] \in 1 .. NumRequests[t]
    BY <2>1 DEF RingAgrees, RingTracks
  <2>3. Tracked(t)'
    BY <1>16, <2>2
  <2> QED
    BY <1>3, <2>1, <2>2, <2>3
<1> QED
  BY <1>12, <1>13, <1>14, <1>17 DEF RingAgrees

\* No more than m things can be told apart by a number from 1 to m.
LEMMA Pigeonhole ==
  ASSUME NEW n \in Nat, NEW m \in Nat, NEW f \in [1 .. n -> 1 .. m],
         \A j, k \in 1 .. n : f[j] = f[k] => j = k
  PROVE  n <= m
<1>1. /\ IsFiniteSet(1 .. n) /\ Cardinality(1 .. n) = n
      /\ IsFiniteSet(1 .. m) /\ Cardinality(1 .. m) = m
  BY FS_Interval
<1> QED
  BY <1>1, FS_PigeonHole

\* The backend answers a published request that has no answer yet, so the responses
\* never outnumber the requests.
LEMMA BackendRing ==
  ASSUME TypeOK, RingAgrees, Backend
  PROVE  RingAgrees'
<1> DEFINE n == Len(rsps)
<1>1. PICK p \in 1 .. pushed, a \in Answers :
        /\ \A j \in 1 .. n : <<rsps[j][1], rsps[j][2]>> # reqs[p]
        /\ rsps' = Append(rsps, <<reqs[p][1], reqs[p][2], a>>)
        /\ answers' = answers \cup {<<reqs[p][1], reqs[p][2], a>>}
  BY DEF Backend
<1>2. UNCHANGED <<queueHead, requests, done, issued, pc, cur, reqs, pushed, rspCons>>
  BY DEF Backend, cpuVars
<1>3. n \in Nat /\ p \in 1 .. Len(reqs) /\ pushed \in Nat
  BY PushedTypes
<1>4. PICK s \in Data, i \in Nat : reqs[p] = <<s, i>>
  BY <1>3, ReqsEntry
<1>5. /\ rsps' = Append(rsps, <<s, i, a>>) /\ answers' = answers \cup {<<s, i, a>>}
      /\ \A j \in 1 .. n : Pair(rsps[j]) # <<s, i>>
  BY <1>1, <1>4 DEF Pair
<1>6. /\ Len(rsps') = n + 1 /\ rsps'[n + 1] = <<s, i, a>>
      /\ \A j \in 1 .. n : rsps'[j] = rsps[j]
  <2>1. rsps \in Seq(Data \X Nat \X Answers) /\ <<s, i, a>> \in Data \X Nat \X Answers
    BY DEF TypeOK, RingTypes
  <2> QED
    BY <1>5, <2>1, AppendProperties
<1> HIDE DEF n
<1>7. ResponsesMatch'
  <2>1. \A j \in 1 .. n : Pair(rsps'[j]) = Pair(rsps[j]) /\ Pair(rsps[j]) # <<s, i>>
    BY <1>5, <1>6
  <2>2. Pair(rsps'[n + 1]) = <<s, i>>
    BY <1>6 DEF Pair
  <2>3. \A j \in 1 .. n + 1 : j \in 1 .. n \/ j = n + 1
    BY <1>3
  <2>4. \A j, k \in 1 .. n : Pair(rsps[j]) = Pair(rsps[k]) => j = k
    BY DEF RingAgrees, ResponsesMatch, n
  <2>5. \A j, k \in 1 .. n + 1 : Pair(rsps'[j]) = Pair(rsps'[k]) => j = k
    BY <2>1, <2>2, <2>3, <2>4
  <2>6. \A j \in 1 .. n + 1 : \E k \in 1 .. pushed : reqs[k] = Pair(rsps'[j])
    BY <1>4, <2>1, <2>2, <2>3 DEF RingAgrees, ResponsesMatch, n
  <2> QED
    BY <1>2, <1>6, <2>5, <2>6 DEF ResponsesMatch, Pair
<1>8. RingFits'
  <2> DEFINE f == [j \in 1 .. n + 1 |-> CHOOSE k \in 1 .. pushed : reqs[k] = Pair(rsps'[j])]
  <2>1. \A j \in 1 .. n + 1 : \E k \in 1 .. pushed : reqs[k] = Pair(rsps'[j])
    BY <1>2, <1>6, <1>7 DEF ResponsesMatch, Pair
  <2>2. \A j \in 1 .. n + 1 : f[j] \in 1 .. pushed /\ reqs[f[j]] = Pair(rsps'[j])
    BY <2>1
  <2>3. f \in [1 .. n + 1 -> 1 .. pushed]
    BY <2>2
  <2> HIDE DEF f
  <2>4. \A j, k \in 1 .. n + 1 : f[j] = f[k] => j = k
    BY <1>6, <1>7, <2>2 DEF ResponsesMatch, Pair
  <2>5. n + 1 <= pushed
    BY <1>3, <2>3, <2>4, Pigeonhole
  <2> QED
    BY <1>2, <1>3, <1>6, <2>5, PushedTypes DEF RingAgrees, RingFits, n
<1>9. rspCons \in 0 .. n
  BY PushedTypes DEF RingAgrees, RingFits, n
<1>10. \A t \in Data, k \in Nat : Consumed(<<t, k>>)' <=> Consumed(<<t, k>>)
  <2>1. \A j \in 1 .. rspCons : rsps'[j] = rsps[j]
    BY <1>3, <1>6, <1>9
  <2> QED
    BY <1>2, <2>1 DEF Consumed, Pair
<1>11. \A t \in Data : (Waits(t)' <=> Waits(t)) /\ (Ready(t)' <=> Ready(t))
  BY <1>2 DEF Waits, Ready, Holds
<1>12. Tracked(s)
  BY <1>3, <1>4 DEF RingAgrees, RingTracks
<1>13. ReadyIsWhole'
  <2>1. ~Ready(s)
    BY <1>12, ReadyWaits DEF Tracked
  <2> QED
    BY <1>2, <1>5, <1>11, <2>1 DEF RingAgrees, ReadyIsWhole
<1>14. ASSUME NEW t \in Data, Tracked(t)
       PROVE  Tracked(t)'
  <2>1. \A k \in 1 .. NumRequests[t] : k \in Nat
    OBVIOUS
  <2>2. requests'[t] = {k \in 1 .. NumRequests[t] : ~Consumed(<<t, k>>)'}
    BY <1>2, <1>10, <1>14, <2>1 DEF Tracked
  <2>3. ASSUME NEW k \in 1 .. NumRequests[t], NEW b \in Answers
        PROVE  <<t, k, b>> \in answers' <=> \E j \in 1 .. Len(rsps') : rsps'[j] = <<t, k, b>>
    <3>1. <<t, k, b>> \in answers <=> \E j \in 1 .. n : rsps[j] = <<t, k, b>>
      BY <1>14 DEF Tracked, n
    <3>2. 1 .. Len(rsps') = 1 .. n \cup {n + 1}
      BY <1>3, <1>6
    <3>3. (\E j \in 1 .. Len(rsps') : rsps'[j] = <<t, k, b>>)
            <=> (\E j \in 1 .. n : rsps[j] = <<t, k, b>>) \/ <<s, i, a>> = <<t, k, b>>
      BY <1>6, <3>2
    <3> QED
      BY <1>5, <3>1, <3>3
  <2> QED
    BY <1>2, <1>11, <1>14, <2>2, <2>3 DEF Tracked
<1>15. RingTracks'
  <2> SUFFICES ASSUME NEW k \in 1 .. Len(reqs)
               PROVE  (reqs[k][2] \in 1 .. NumRequests[reqs[k][1]] /\ Tracked(reqs[k][1]))'
    BY <1>2 DEF RingTracks
  <2>1. PICK t \in Data : t = reqs[k][1]
    BY ReqsEntry
  <2>2. Tracked(t) /\ reqs[k][2] \in 1 .. NumRequests[t]
    BY <2>1 DEF RingAgrees, RingTracks
  <2>3. Tracked(t)'
    BY <1>14, <2>2
  <2> QED
    BY <1>2, <2>1, <2>2, <2>3
<1> QED
  BY <1>7, <1>8, <1>13, <1>15 DEF RingAgrees

\* At the start the ring is empty.
LEMMA InitRing == Init => PowerAgrees /\ RingAgrees
<1> SUFFICES ASSUME Init PROVE PowerAgrees /\ RingAgrees
  OBVIOUS
<1>1. PowerAgrees
  BY DEF Init, PowerAgrees, SettingState, Enabled, Down
<1>2. None # "Prepared"
  BY ConstantsAssumption DEF ConstantsAssumption, QueueNames
<1>3. ReadyIsWhole
  BY <1>2 DEF Init, ReadyIsWhole, Ready, Holds, Srbs
<1>4. Len(reqs) = 0 /\ Len(rsps) = 0 /\ pushed = 0 /\ rspCons = 0
  BY EmptySeq DEF Init
<1>5. RingFits
  BY <1>4, ConstantsAssumption DEF RingFits, ConstantsAssumption
<1>6. ResponsesMatch /\ RingTracks
  BY <1>4 DEF ResponsesMatch, RingTracks
<1> QED
  BY <1>1, <1>3, <1>5, <1>6 DEF RingAgrees

\* Every step keeps the ring and the SRBs in agreement.
LEMMA NextRing ==
  TypeOK /\ Ownership /\ PowerAgrees /\ RingAgrees /\ [Next]_vars => RingAgrees'
<1> SUFFICES ASSUME TypeOK, Ownership, PowerAgrees, RingAgrees, [Next]_vars
             PROVE  RingAgrees'
  OBVIOUS
<1>1. ASSUME NEW c \in Cpus, StartIo(c) \/ StartReset(c) \/ PowerUp(c)
      PROVE  RingAgrees'
  BY <1>1, StartRing, QuietActionsRing
<1>2. ASSUME NEW c \in Cpus, SubmitLoop(c)
      PROVE  RingAgrees'
  BY <1>2, PopRing, SubmitRing, PutDownRing, QuietActionsRing DEF SubmitLoop
<1>3. ASSUME NEW c \in Cpus, Callback(c)
      PROVE  RingAgrees'
  BY <1>3, QuietActionsRing, ConsumeRing, PopRing, CompletesRing DEF Callback
<1>4. ASSUME NEW c \in Cpus, Run(c)
      PROVE  RingAgrees'
  BY <1>2, <1>3, <1>4, PrepareRing, PutDownRing, CompletesRing, RenewedRing,
     QuietActionsRing DEF Run
<1>5. CASE PowerThread
  BY <1>5, QuietActionsRing, AbortRing DEF PowerThread
<1> QED
  BY <1>1, <1>4, <1>5, QuietActionsRing, SuspendRing, BackendRing DEF Next

\* PowerAgrees and RingAgrees hold in every reachable state.
LEMMA RingAgreesHolds == Spec => [](PowerAgrees /\ RingAgrees)
BY InitRing, NextPower, NextRing, TypeCorrect, OwnershipHolds, PTL DEF Spec

\* On any number of CPUs, the id in a response that has not been read yet is the
\* address of a request still on its SRB's list: __FrontendCompleteResponses follows
\* no pointer to a request that was freed, until a CPU whose ring was freed under its
\* loop takes its next step (Stray; srb_smp_ring.cfg gets there).
THEOREM ResponsesAreLive == Spec => []ResponseIdsLive
<1>1. TypeOK /\ RingAgrees => ResponseIdsLive
  <2> SUFFICES ASSUME TypeOK, RingAgrees, NEW j \in rspCons + 1 .. Len(rsps)
               PROVE  rsps[j][2] \in requests[rsps[j][1]]
    BY DEF ResponseIdsLive
  <2>1. j \in 1 .. Len(rsps) /\ \A k \in 1 .. rspCons : k \in 1 .. Len(rsps) /\ k # j
    BY PushedTypes DEF RingAgrees, RingFits
  <2>2. PICK s \in Data, i \in Nat : Pair(rsps[j]) = <<s, i>> /\ rsps[j][1] = s /\ rsps[j][2] = i
    BY <2>1, RspsEntry DEF Pair
  <2>3. PICK p \in 1 .. pushed : reqs[p] = <<s, i>>
    BY <2>1, <2>2 DEF RingAgrees, ResponsesMatch
  <2>4. p \in 1 .. Len(reqs)
    BY PushedTypes
  <2>5. Tracked(reqs[p][1]) /\ reqs[p][2] \in 1 .. NumRequests[reqs[p][1]]
    BY <2>4 DEF RingAgrees, RingTracks
  <2>6. Tracked(s) /\ i \in 1 .. NumRequests[s]
    BY <2>3, <2>5
  <2>7. ~Consumed(<<s, i>>)
    BY <2>1, <2>2 DEF Consumed, RingAgrees, ResponsesMatch
  <2> QED
    BY <2>2, <2>6, <2>7 DEF Tracked
<1> QED
  BY <1>1, RingAgreesHolds, TypeCorrect, PTL

-----------------------------------------------------------------------------
\* On one CPU.

OneCpu == \A c, d \in Cpus : c = d

\* From FrontendSubmitRequest to FrontendPushRequests: what PdoSubmitPrepared has put on
\* the ring and not published is the SRB it has in hand.
Unpushed == {"Queue", "Mark", "Push"}
SubmitAgrees ==
  /\ \A c \in Cpus :
       /\ pc[c] \in Unpushed \cup {"Consume"} => ringUp
       /\ pc[c] # "Stray"
       /\ pc[c] = "Queue" => /\ OnRing(cur[c]) /\ requests[cur[c]] # {}
                             /\ \A k \in pushed + 1 .. Len(reqs) : reqs[k][1] = cur[c]
       /\ pc[c] \in {"Queue", "Mark"} => \A k \in 1 .. pushed : reqs[k][1] # cur[c]
  /\ (\A c \in Cpus : pc[c] \notin Unpushed) => pushed = Len(reqs)

\* An SRB on SubmittedSrbs waits for an answer, and is on the ring while there is one.
SubmittedAgrees ==
  /\ \A s \in Data : queueHead[s] = "Submitted" => /\ requests[s] # {}
                                                   /\ connected => OnRing(s)
  /\ power \in {"D3", "Opening"} => \A s \in Data : queueHead[s] # "Submitted"

\* SRB_STATUS_SUCCESS stays on an SRB only while its responses are BLKIF_RSP_OKAY.
OnlyOkay == \A s \in Data : srbStatus[s] = "Success" /\ OnRing(s) =>
  \A j \in 1 .. rspCons : rsps[j][1] = s => rsps[j][3] = "Okay"

\* What PdoCompleteShutdown has seen empty is still empty.
PeeksAgree == \A c \in Cpus, s \in Data :
  /\ pc[c] = "PeekPrepared" => queueHead[s] # "Fresh"
  /\ pc[c] = "PeekSubmitted" => queueHead[s] \notin {"Fresh", "Prepared"}
  /\ pc[c] = "PopShutdown" => queueHead[s] \notin {"Fresh", "Prepared", "Submitted"}

OneCpuAgrees == NoBugcheck /\ SubmitAgrees /\ SubmittedAgrees /\ OnlyOkay
                  /\ GoodMeansDone /\ PeeksAgree

\* The response PdoCompleteSubmittedRequest reads next is for an SRB on SubmittedSrbs.
LEMMA NextIsSubmitted ==
  ASSUME OneCpu, TypeOK, Ownership, NothingLost, RingAgrees, NEW c \in Cpus,
         pc[c] = "Consume", rspCons < Len(rsps)
  PROVE  /\ NextRsp[1] \in Data /\ NextRsp[2] \in requests[NextRsp[1]]
         /\ queueHead[NextRsp[1]] = "Submitted"
<1>1. rspCons + 1 \in 1 .. Len(rsps) /\ rspCons + 1 \in rspCons + 1 .. Len(rsps)
  BY PushedTypes
<1>2. PICK s \in Data, i \in Nat : Pair(NextRsp) = <<s, i>> /\ NextRsp[1] = s /\ NextRsp[2] = i
  BY <1>1, RspsEntry DEF NextRsp, Pair
<1>3. PICK p \in 1 .. pushed : reqs[p] = <<s, i>>
  BY <1>1, <1>2 DEF RingAgrees, ResponsesMatch, NextRsp
<1>4. p \in 1 .. Len(reqs)
  BY PushedTypes
<1>5. Tracked(s) /\ i \in 1 .. NumRequests[s]
  BY <1>3, <1>4 DEF RingAgrees, RingTracks
<1>6. ~Consumed(<<s, i>>)
  <2>1. \A j \in 1 .. rspCons : j \in 1 .. Len(rsps) /\ j # rspCons + 1
    BY <1>1, PushedTypes
  <2> QED
    BY <1>1, <1>2, <2>1 DEF NextRsp, Consumed, RingAgrees, ResponsesMatch
<1>7. i \in requests[s] /\ done[s] = << >> /\ ~Waits(s)
  BY <1>5, <1>6 DEF Tracked
<1>8. \A d \in Cpus : ~Holds(d, s)
  BY DEF OneCpu, Holds, Holding
<1>9. s \in issued /\ queueHead[s] \notin {"Fresh", "Prepared"}
  BY <1>7 DEF Waits
<1>10. queueHead[s] # None
  BY <1>7, <1>8, <1>9 DEF NothingLost, Placed
<1>11. queueHead[s] \in QueueNames
  BY <1>10 DEF TypeOK, QueueTypes, Srbs
<1>12. queueHead[s] # "Shutdown"
  <2> SUFFICES ASSUME queueHead[s] = "Shutdown" PROVE FALSE
    OBVIOUS
  <2>1. On(s, queue["Shutdown"])
    BY <1>10 DEF NothingLost, HeadsTrue, Srbs
  <2>2. PICK k \in 1 .. Len(queue["Shutdown"]) : queue["Shutdown"][k] = s
    BY <2>1 DEF On
  <2>3. queue["Shutdown"] \in Seq(Flushes)
    BY DEF TypeOK, QueueTypes, QueueNames, Carries
  <2>4. s \in Flushes
    BY <2>2, <2>3, ElementOfSeq
  <2> QED
    BY <2>4, ConstantsAssumption DEF ConstantsAssumption
<1> QED
  BY <1>2, <1>7, <1>9, <1>11, <1>12 DEF QueueNames

\* No ASSERT fails and no freed ring is touched.
LEMMA NothingFatal ==
  ASSUME OneCpu, TypeOK, Ownership, NothingLost, RingAgrees, SubmitAgrees, NEW c \in Cpus
  PROVE  ~Bugcheck(c)
<1> SUFFICES ASSUME Fatal(c) PROVE FALSE
  BY DEF Bugcheck
<1>1. CASE (pc[c] = "Push" /\ ~ringUp) \/ pc[c] = "Stray"
  BY <1>1 DEF SubmitAgrees, Unpushed
<1>2. CASE /\ pc[c] = "Consume" /\ rspCons < Len(rsps)
           /\ queueHead[NextRsp[1]] # "Submitted"
  BY <1>2, NextIsSubmitted
<1> QED
  BY <1>1, <1>2 DEF Fatal

-----------------------------------------------------------------------------
\* SubmitAgrees.

\* No CPU is between FrontendSubmitRequest and FrontendPushRequests, before or after.
LEMMA SubmitQuiet ==
  ASSUME SubmitAgrees, \A c \in Cpus : pc[c] \notin Unpushed,
         \A c \in Cpus : pc'[c] \notin Unpushed \cup {"Consume", "Stray"},
         UNCHANGED <<reqs, pushed>> \/ (reqs' = << >> /\ pushed' = 0)
  PROVE  SubmitAgrees'
<1>1. pushed' = Len(reqs')
  BY EmptySeq DEF SubmitAgrees
<1> QED
  BY <1>1 DEF SubmitAgrees, Unpushed

\* A step that touches none of what SubmitAgrees speaks of.
LEMMA SubmitStill ==
  ASSUME SubmitAgrees, UNCHANGED <<pc, cur, ringUp, reqs, pushed, requests>>
  PROVE  SubmitAgrees'
BY DEF SubmitAgrees, OnRing, Unpushed

\* The steps of the only CPU outside PdoSubmitPrepared and the response loop.
LEMMA ElsewhereSubmits ==
  ASSUME OneCpu, TypeOK, SubmitAgrees, NEW c \in Cpus,
         \/ StartIo(c) \/ StartReset(c) \/ PowerUp(c) \/ PrepareOk(c) \/ PrepareFails(c)
         \/ PopPrepared(c) \/ PutBack(c) \/ LeaveComplete(c)
         \/ PopFresh(c) \/ PeekShutdown(c) \/ PeekOthers(c) \/ PopShutdown(c)
         \/ StartDpc(c) \/ Unmask(c) \/ ResetFresh(c) \/ ResetPeek(c)
         \/ SetState(c, "Drained", "Closing", "Disable")
         \/ Disable(c) \/ Close(c) \/ FreeRing(c) \/ NewRing(c) \/ Enable(c)
  PROVE  SubmitAgrees'
<1> DEFINE Rest == Pcs \ (Unpushed \cup {"Consume", "Stray"})
<1>1. UNCHANGED <<reqs, pushed>> \/ (reqs' = << >> /\ pushed' = 0)
  <2>1. CASE FreeRing(c) \/ NewRing(c)
    BY <2>1 DEF FreeRing, NewRing, ClearRing
  <2>2. CASE \/ StartIo(c) \/ StartReset(c) \/ PowerUp(c) \/ PrepareOk(c) \/ PrepareFails(c)
             \/ PopPrepared(c) \/ PutBack(c) \/ LeaveComplete(c)
             \/ PopFresh(c) \/ PeekShutdown(c) \/ PeekOthers(c) \/ PopShutdown(c)
    BY <2>2 DEF StartIo, StartData, StartFlush, StartReset, PowerUp, SetState, PrepareOk,
       PrepareFails, PopPrepared, PutBack, LeaveComplete, PopFresh, PeekShutdown,
       PeekOthers, PopShutdown, ringVars
  <2>3. CASE \/ StartDpc(c) \/ Unmask(c) \/ ResetFresh(c) \/ ResetPeek(c)
             \/ SetState(c, "Drained", "Closing", "Disable")
             \/ Disable(c) \/ Close(c) \/ Enable(c)
    BY <2>3 DEF StartDpc, Unmask, ResetFresh, ResetPeek, SetState, Disable, Close, Enable,
       ringVars
  <2> QED
    BY <2>1, <2>2, <2>3
<1>2. AfterSubmit(c) \in Rest /\ AfterCallback(c) \in Rest
  BY Returns DEF TypeOK, CpuTypes, AfterSubmit, AfterCallback, Pcs, Unpushed
<1>3. pc[c] \notin Unpushed
  <2>1. CASE \/ StartIo(c) \/ StartReset(c) \/ PowerUp(c) \/ PrepareOk(c) \/ PrepareFails(c)
             \/ PopPrepared(c) \/ PutBack(c) \/ LeaveComplete(c)
             \/ PopFresh(c) \/ PeekShutdown(c) \/ PeekOthers(c) \/ PopShutdown(c)
    BY <2>1 DEF StartIo, StartData, StartFlush, StartReset, PowerUp, SetState, PrepareOk,
       PrepareFails, PopPrepared, PutBack, LeaveComplete, PopFresh, PeekShutdown,
       PeekOthers, Peeks, PopShutdown, AtPassive, At, Unpushed
  <2>2. CASE \/ StartDpc(c) \/ Unmask(c) \/ ResetFresh(c) \/ ResetPeek(c)
             \/ SetState(c, "Drained", "Closing", "Disable")
             \/ Disable(c) \/ Close(c) \/ FreeRing(c) \/ NewRing(c) \/ Enable(c)
    BY <2>2 DEF StartDpc, Unmask, ResetFresh, ResetPeek, SetState, Disable, Close, FreeRing,
       NewRing, Enable, AtPassive, At, Unpushed
  <2> QED
    BY <2>1, <2>2
<1>4. pc'[c] \in Rest
  <2>1. CASE (UNCHANGED pc /\ pc[c] # "Consume") \/ \E l \in Rest : Goto(c, l)
    BY <1>3, <2>1 DEF TypeOK, CpuTypes, Goto, SubmitAgrees
  <2>2. CASE \/ StartIo(c) \/ StartReset(c) \/ PowerUp(c) \/ PrepareOk(c) \/ PrepareFails(c)
    BY <2>1, <2>2 DEF StartIo, StartData, StartFlush, StartReset, PowerUp, SetState,
       PrepareOk, PrepareFails, At, Pcs, Holding, SettingState, Unpushed, cpuVars
  <2>3. CASE \/ PopPrepared(c) \/ PutBack(c) \/ LeaveComplete(c)
             \/ PopFresh(c) \/ PopShutdown(c)
    BY <1>2, <2>1, <2>3 DEF PopPrepared, PutBack, LeaveComplete, PopFresh, PopShutdown,
       At, Pcs, Holding, Unpushed
  <2>4. CASE PeekShutdown(c) \/ PeekOthers(c)
    <3>1. CASE PeekShutdown(c)
      BY <1>2, <2>1, <3>1 DEF PeekShutdown, Pcs, Unpushed
    <3>2. CASE PeekOthers(c)
      <4>1. PICK p \in Peeks :
              Goto(c, IF queue[p[2]] = << >> THEN p[3] ELSE AfterCallback(c))
        BY <3>2 DEF PeekOthers
      <4>2. p[3] \in {"PeekPrepared", "PeekSubmitted", "PopShutdown"}
        BY DEF Peeks
      <4>3. p[3] \in Rest
        BY <4>2 DEF Pcs, Unpushed
      <4> QED
        BY <1>2, <2>1, <4>1, <4>3
    <3> QED
      BY <2>4, <3>1, <3>2
  <2>5. CASE \/ StartDpc(c) \/ Unmask(c) \/ ResetFresh(c) \/ ResetPeek(c)
    BY <2>1, <2>5 DEF StartDpc, Unmask, ResetFresh, ResetPeek, At, Pcs, Unpushed, cpuVars,
       Holding
  <2>6. CASE \/ SetState(c, "Drained", "Closing", "Disable")
             \/ Disable(c) \/ Close(c) \/ NewRing(c) \/ Enable(c)
    BY <2>1, <2>6 DEF SetState, Disable, Close, NewRing, Enable, At, Pcs,
       SettingState, Unpushed, Holding
  <2>7. CASE FreeRing(c)
    BY <2>7, FreeRingMoves DEF Pcs, Unpushed
  <2> QED
    BY <2>2, <2>3, <2>4, <2>5, <2>6, <2>7
<1> QED
  BY <1>1, <1>3, <1>4, SubmitQuiet DEF OneCpu

\* PdoSubmitPrepared: submit, queue, mark, push.
LEMMA SubmittingSubmits ==
  ASSUME OneCpu, TypeOK, Ownership, RingAgrees, SubmitAgrees, NEW c \in Cpus,
         Submit(c) \/ QueueSubmitted(c) \/ Mark(c) \/ Push(c)
  PROVE  SubmitAgrees'
<1>0. \A d \in Cpus : d = c
  BY DEF OneCpu
<1>1. CASE Submit(c) /\ ~CanSubmit(cur[c])
  <2>1. pc[c] = "Submit" /\ pc'[c] = "PutBack" /\ UNCHANGED <<reqs, pushed>>
    BY <1>1 DEF Submit, At, Goto, TypeOK, CpuTypes
  <2> QED
    BY <1>0, <2>1, SubmitQuiet DEF Unpushed
<1>2. CASE Submit(c) /\ CanSubmit(cur[c])
  <2>1. PICK s \in Data : s = cur[c] /\ pc[c] = "Submit"
    BY <1>2 DEF TypeOK, CpuTypes, Submit, At, Holding
  <2>2. /\ reqs' = reqs \o RingEntries(s) /\ ringUp /\ cur'[c] = s
        /\ UNCHANGED <<pushed, ringUp, requests, rsps, rspCons>>
        /\ pc'[c] = "Queue"
    BY <1>2, <2>1 DEF Submit, CanSubmit, srbVars, Goto, TypeOK, CpuTypes
  <2>3. NumRequests[s] \in Nat \ {0}
    BY ConstantsAssumption DEF ConstantsAssumption
  <2>4. Ready(s) /\ requests[s] = 1 .. NumRequests[s]
    <3>1. Ready(s)
      BY <2>1 DEF Ready, Holds, Holding
    <3> QED
      BY <3>1 DEF RingAgrees, ReadyIsWhole
  <2>5. requests'[s] # {}
    BY <2>2, <2>3, <2>4
  <2>6. pushed = Len(reqs) /\ Len(reqs) \in Nat
    BY <1>0, <2>1, PushedTypes DEF SubmitAgrees, Unpushed
  <2>8. /\ Len(reqs') = Len(reqs) + NumRequests[s]
        /\ \A k \in 1 .. Len(reqs) : reqs'[k] = reqs[k]
        /\ \A k \in Len(reqs) + 1 .. Len(reqs') : reqs'[k][1] = s
    <3>1. /\ Len(reqs') = Len(reqs) + NumRequests[s]
          /\ \A k \in 1 .. Len(reqs) : reqs'[k] = reqs[k]
          /\ \A k \in Len(reqs) + 1 .. Len(reqs') : reqs'[k] = <<s, k - Len(reqs)>>
      BY <2>2, RingAppends
    <3> QED
      BY <3>1
  <2>9. \A k \in 1 .. Len(reqs) : reqs[k][1] # s
    <3> SUFFICES ASSUME NEW k \in 1 .. Len(reqs), reqs[k][1] = s PROVE FALSE
      OBVIOUS
    <3>1. ~Waits(s)
      BY DEF RingAgrees, RingTracks, Tracked
    <3> QED
      BY <2>4, <3>1, ReadyWaits
  <2>10. OnRing(s)'
    <3>1. Len(reqs) + 1 \in 1 .. Len(reqs') /\ Len(reqs) + 1 \in Len(reqs) + 1 .. Len(reqs')
      BY <2>3, <2>6, <2>8
    <3> QED
      BY <2>8, <3>1 DEF OnRing
  <2>11. OnRing(cur[c])' /\ requests'[cur'[c]] # {}
    BY <2>2, <2>5, <2>10 DEF OnRing
  <2>12. \A k \in pushed' + 1 .. Len(reqs') : reqs'[k][1] = cur'[c]
    BY <2>2, <2>6, <2>8
  <2>13. \A k \in 1 .. pushed' : reqs'[k][1] # cur'[c]
    BY <2>2, <2>6, <2>8, <2>9
  <2>14. ringUp' /\ pc'[c] = "Queue"
    BY <2>2
  <2>15. \A d \in Cpus :
          /\ ringUp' /\ pc'[d] # "Stray"
          /\ OnRing(cur[d])' /\ requests'[cur'[d]] # {}
          /\ \A k \in pushed' + 1 .. Len(reqs') : reqs'[k][1] = cur'[d]
          /\ \A k \in 1 .. pushed' : reqs'[k][1] # cur'[d]
    BY <1>0, <2>11, <2>12, <2>13, <2>14
  <2>16. ~\A d \in Cpus : pc'[d] \notin Unpushed
    BY <2>14 DEF Unpushed
  <2> QED
    BY <2>15, <2>16 DEF SubmitAgrees
<1>3. CASE QueueSubmitted(c)
  <2>1. /\ pc[c] = "Queue" /\ pc'[c] = "Mark"
        /\ UNCHANGED <<reqs, pushed, ringUp, cur>>
    BY <1>3 DEF QueueSubmitted, At, Goto, TypeOK, CpuTypes, ringVars
  <2> QED
    BY <1>0, <2>1 DEF SubmitAgrees, Unpushed
<1>4. CASE Mark(c)
  <2>1. pc[c] = "Mark" /\ pc'[c] = "Push" /\ UNCHANGED <<reqs, pushed, ringUp>>
    BY <1>4 DEF Mark, At, Goto, TypeOK, CpuTypes, ringVars
  <2> QED
    BY <1>0, <2>1 DEF SubmitAgrees, Unpushed
<1>5. CASE Push(c)
  <2>1. pc'[c] = "Pop" /\ UNCHANGED reqs /\ pushed' = Len(reqs)
    BY <1>5 DEF Push, At, Goto, TypeOK, CpuTypes
  <2> QED
    BY <1>0, <2>1 DEF SubmitAgrees, Unpushed
<1> QED
  BY <1>1, <1>2, <1>3, <1>4, <1>5

\* Entering and running the response loop.
LEMMA ConsumingSubmits ==
  ASSUME OneCpu, TypeOK, SubmitAgrees, NEW c \in Cpus,
         EnterComplete(c) \/ ConsumeResponse(c)
  PROVE  SubmitAgrees'
<1>0. \A d \in Cpus : d = c
  BY DEF OneCpu
<1>1. /\ pc[c] \in {"Complete", "Consume"} /\ UNCHANGED <<reqs, pushed, ringUp>>
      /\ pc'[c] \in {"Consume", "PopFresh"} /\ (pc'[c] = "Consume" => ringUp)
  BY DEF EnterComplete, ConsumeResponse, At, Goto, TypeOK, CpuTypes, cpuVars, ringVars,
         SubmitAgrees
<1> QED
  BY <1>0, <1>1 DEF SubmitAgrees, Unpushed

\* The power thread, a resume and the backend.
LEMMA OutsideSubmits ==
  ASSUME OneCpu, TypeOK, SubmitAgrees,
         \/ Pause \/ SeeDrained \/ Unpause \/ Suspend \/ Backend \/ UNCHANGED vars
         \/ Abort("AbortFresh", "Fresh", "AbortPrepared")
         \/ Abort("AbortPrepared", "Prepared", "AbortSubmitted")
         \/ Abort("AbortSubmitted", "Submitted", "D3")
  PROVE  SubmitAgrees'
<1>1. CASE Pause \/ SeeDrained \/ Unpause \/ Backend \/ UNCHANGED vars
  BY <1>1, SubmitStill DEF Pause, SeeDrained, Unpause, Backend, vars, cpuVars, srbVars,
     ringVars
<1>2. CASE Suspend \/ \E q, state, next : Abort(state, q, next)
  <2>1. UNCHANGED pc /\ \A c \in Cpus : pc[c] = "Idle"
    BY <1>2 DEF Suspend, Abort, Passive, AtPassive, At, cpuVars, OneCpu
  <2>2. UNCHANGED <<reqs, pushed>> \/ (reqs' = << >> /\ pushed' = 0)
    BY <1>2 DEF Suspend, ClearRing, Abort, ringVars
  <2> QED
    BY <2>1, <2>2, SubmitQuiet DEF Unpushed
<1> QED
  BY <1>1, <1>2

\* Every step of one CPU keeps SubmitAgrees.
LEMMA NextSubmits ==
  ASSUME OneCpu, TypeOK, Ownership, NothingLost, RingAgrees, SubmitAgrees, [Next]_vars
  PROVE  SubmitAgrees'
<1>1. ASSUME NEW c \in Cpus, Run(c) \/ StartIo(c) \/ StartReset(c) \/ PowerUp(c)
      PROVE  SubmitAgrees'
  BY <1>1, ElsewhereSubmits, SubmittingSubmits, ConsumingSubmits, NothingFatal
     DEF Run, SubmitLoop, Callback
<1>2. CASE PowerThread
  BY <1>2, ElsewhereSubmits, OutsideSubmits DEF PowerThread
<1> QED
  BY <1>1, <1>2, OutsideSubmits DEF Next

-----------------------------------------------------------------------------
\* SubmittedAgrees.

\* A step that puts nothing on SubmittedSrbs, and connects nothing.
LEMMA SubmittedQuiet ==
  ASSUME SubmittedAgrees,
         \A s \in Data : queueHead'[s] = "Submitted" =>
           queueHead[s] = "Submitted" /\ requests'[s] = requests[s],
         connected' => connected /\ \A s \in Data : OnRing(s) => OnRing(s)',
         power' \in {"D3", "Opening"} => power \in {"D3", "Opening"}
  PROVE  SubmittedAgrees'
BY DEF SubmittedAgrees, OnRing

\* The steps that neither prepare, complete, submit nor answer anything.
Plain(c) ==
  \/ StartReset(c) \/ PowerUp(c) \/ PrepareFails(c) \/ PopPrepared(c) \/ PutBack(c)
  \/ QueueSubmitted(c) \/ Push(c) \/ EnterComplete(c) \/ LeaveComplete(c) \/ PopFresh(c)
  \/ PeekShutdown(c) \/ PeekOthers(c) \/ StartDpc(c) \/ Unmask(c) \/ ResetPeek(c)
  \/ SetState(c, "Drained", "Closing", "Disable") \/ Disable(c) \/ Close(c) \/ Enable(c)

\* They change no request, no status, no completion and no entry of the ring.
LEMMA PlainUnchanged ==
  ASSUME NEW c \in Cpus, Plain(c)
  PROVE  UNCHANGED <<requests, srbStatus, done, answers, reqs, rsps, rspCons>>
BY DEF Plain, StartReset, PowerUp, PrepareFails, PopPrepared, PutBack, QueueSubmitted, Push,
   EnterComplete, LeaveComplete, PopFresh, PeekShutdown, PeekOthers, StartDpc, Unmask,
   ResetPeek, SetState, Disable, Close, Enable, srbVars, ringVars

\* QueueInsertTail, QueueInsertHead and QueuePop of another queue.
LEMMA OtherQueue ==
  ASSUME TypeOK, NEW q \in QueueNames, NEW s \in Srbs, NEW x \in QueueNames \ {"Submitted"},
         InsertTail(x, s) \/ InsertHead(x, s) \/ Pop(q) \/ UNCHANGED queueHead
  PROVE  \A t \in Data : queueHead'[t] = "Submitted" => queueHead[t] = "Submitted"
<1>1. None # "Submitted"
  BY ConstantsAssumption DEF ConstantsAssumption, QueueNames
<1>2. \A t \in Data : t \in Srbs
  BY DEF Srbs
<1> QED
  BY <1>1, <1>2 DEF InsertTail, InsertHead, Pop, TypeOK, QueueTypes

\* SubmittedAgrees under the plain steps: QueueSubmitted and Enable are the ones that count.
LEMMA PlainSubmitted ==
  ASSUME OneCpu, TypeOK, PowerAgrees, RingAgrees, SubmitAgrees, SubmittedAgrees,
         NEW c \in Cpus, Plain(c)
  PROVE  SubmittedAgrees'
<1>1. CASE QueueSubmitted(c)
  <2>1. PICK s \in Data : s = cur[c] /\ pc[c] = "Queue"
    BY <1>1 DEF TypeOK, CpuTypes, QueueSubmitted, At, Holding
  <2>2. /\ UNCHANGED <<requests, connected, power, reqs>>
        /\ queueHead' = [queueHead EXCEPT ![s] = "Submitted"]
    BY <1>1, <2>1 DEF QueueSubmitted, InsertTail, ringVars
  <2>3. OnRing(s)' /\ requests[s] # {} /\ ringUp
    BY <2>1, <2>2 DEF SubmitAgrees, Unpushed, OnRing
  <2>4. power \notin {"D3", "Opening"}
    <3>1. power # "D3"
      BY <2>3 DEF PowerAgrees, Down
    <3>2. power # "Opening"
      BY <2>1 DEF PowerAgrees, SettingState, OneCpu
    <3> QED
      BY <3>1, <3>2
  <2>5. ASSUME NEW t \in Data, queueHead'[t] = "Submitted"
        PROVE  requests'[t] # {} /\ (connected' => OnRing(t)')
    <3>1. CASE t = s
      BY <2>2, <2>3, <3>1
    <3>2. CASE t # s
      <4>1. queueHead[t] = "Submitted"
        BY <2>2, <2>5, <3>2 DEF TypeOK, QueueTypes, Srbs
      <4> QED
        BY <2>2, <4>1 DEF SubmittedAgrees, OnRing
    <3> QED
      BY <3>1, <3>2
  <2> QED
    BY <2>2, <2>4, <2>5 DEF SubmittedAgrees
<1>2. CASE Enable(c)
  <2>1. /\ pc[c] = "Enable" /\ power' = "Unpausing"
        /\ UNCHANGED <<queueHead, requests>>
    BY <1>2 DEF Enable, At, srbVars
  <2>2. power = "Opening"
    BY <2>1 DEF PowerAgrees
  <2> QED
    BY <2>1, <2>2 DEF SubmittedAgrees
<1>3. CASE \/ StartReset(c) \/ PowerUp(c) \/ PrepareFails(c) \/ PopPrepared(c)
           \/ PutBack(c) \/ Push(c) \/ EnterComplete(c) \/ LeaveComplete(c) \/ PopFresh(c)
           \/ PeekShutdown(c) \/ PeekOthers(c) \/ StartDpc(c) \/ Unmask(c) \/ ResetPeek(c)
           \/ SetState(c, "Drained", "Closing", "Disable") \/ Disable(c) \/ Close(c)
  <2>1. UNCHANGED <<requests, reqs>>
    BY PlainUnchanged
  <2>2. connected' => connected
    BY <1>3 DEF StartReset, PowerUp, PrepareFails, PopPrepared, PutBack, Push,
       EnterComplete, LeaveComplete, PopFresh, PeekShutdown, PeekOthers, StartDpc, Unmask,
       ResetPeek, SetState, Disable, Close
  <2>3. power' \in {"D3", "Opening"} => power \in {"D3", "Opening"}
    BY <1>3 DEF StartReset, PowerUp, PrepareFails, PopPrepared, PutBack, Push,
       EnterComplete, LeaveComplete, PopFresh, PeekShutdown, PeekOthers, StartDpc, Unmask,
       ResetPeek, SetState, Disable, Close
  <2>4. \A t \in Data : queueHead'[t] = "Submitted" => queueHead[t] = "Submitted"
    <3>1. CASE PrepareFails(c) \/ PutBack(c)
      <4>1. cur[c] \in Srbs
        BY <3>1 DEF PrepareFails, PutBack, At, TypeOK, CpuTypes, Holding, Srbs
      <4>2. \E x \in {"Fresh", "Prepared"} : InsertTail(x, cur[c]) \/ InsertHead(x, cur[c])
        BY <3>1 DEF PrepareFails, PutBack
      <4> QED
        BY <4>1, <4>2, OtherQueue DEF QueueNames
    <3>2. CASE PopPrepared(c) \/ PopFresh(c)
      <4>1. UNCHANGED queueHead \/ \E q \in QueueNames : Pop(q)
        BY <3>2 DEF PopPrepared, PopFresh, QueueNames
      <4>2. None # "Submitted"
        BY ConstantsAssumption DEF ConstantsAssumption, QueueNames
      <4>3. \A t \in Data : t \in Srbs
        BY DEF Srbs
      <4> QED
        BY <4>1, <4>2, <4>3 DEF Pop, TypeOK, QueueTypes
    <3>3. CASE ~(PrepareFails(c) \/ PutBack(c) \/ PopPrepared(c) \/ PopFresh(c))
      BY <1>3, <3>3 DEF StartReset, PowerUp, Push, EnterComplete, LeaveComplete,
         PeekShutdown, PeekOthers, StartDpc, Unmask, ResetPeek, SetState, Disable, Close,
         srbVars
    <3> QED
      BY <3>1, <3>2, <3>3
  <2>5. \A s \in Data : OnRing(s) => OnRing(s)'
    BY <2>1 DEF OnRing
  <2> QED
    BY <2>1, <2>2, <2>3, <2>4, <2>5, SubmittedQuiet
<1> QED
  BY <1>1, <1>2, <1>3 DEF Plain

\* The steps that prepare, complete or answer.
LEMMA WorkSubmitted ==
  ASSUME OneCpu, TypeOK, Ownership, PowerAgrees, SubmittedAgrees, NEW c \in Cpus,
         \/ StartIo(c) \/ PrepareOk(c) \/ Submit(c) \/ Mark(c) \/ ConsumeResponse(c)
         \/ PopShutdown(c) \/ ResetFresh(c) \/ FreeRing(c) \/ NewRing(c)
  PROVE  SubmittedAgrees'
<1>0. None # "Submitted"
  BY ConstantsAssumption DEF ConstantsAssumption, QueueNames
<1>1. \A t \in Data : t \in Srbs
  BY DEF Srbs
<1>2. CASE StartIo(c) \/ PopShutdown(c) \/ ResetFresh(c) \/ Mark(c)
  <2>1. UNCHANGED <<requests, reqs, connected, power>>
    BY <1>2 DEF StartIo, StartData, StartFlush, PopShutdown, ResetFresh, Mark, ringVars
  <2>2. \A t \in Data : queueHead'[t] = "Submitted" => queueHead[t] = "Submitted"
    BY <1>0, <1>1, <1>2 DEF StartIo, StartData, StartFlush, PopShutdown, ResetFresh, Mark,
       InsertTail, Pop, TypeOK, QueueTypes
  <2>3. \A t \in Data : OnRing(t) => OnRing(t)'
    BY <2>1 DEF OnRing
  <2> QED
    BY <2>1, <2>2, <2>3, SubmittedQuiet
<1>3. CASE PrepareOk(c)
  <2>1. PICK s \in Data : s = cur[c]
    BY <1>3 DEF TypeOK, CpuTypes, PrepareOk, At, Holding
  <2>2. /\ UNCHANGED <<reqs, connected, power>>
        /\ requests' = [requests EXCEPT ![s] = 1 .. NumRequests[s]]
        /\ queueHead' = [queueHead EXCEPT ![s] = "Prepared"]
    BY <1>3, <2>1 DEF PrepareOk, InsertTail, ringVars
  <2>3. \A t \in Data : queueHead'[t] = "Submitted" =>
          queueHead[t] = "Submitted" /\ requests'[t] = requests[t]
    BY <1>1, <2>2 DEF TypeOK, QueueTypes, SrbTypes
  <2>4. \A t \in Data : OnRing(t) => OnRing(t)'
    BY <2>2 DEF OnRing
  <2> QED
    BY <2>2, <2>3, <2>4, SubmittedQuiet
<1>4. CASE Submit(c)
  <2>1. UNCHANGED <<queueHead, requests, connected, power>>
    BY <1>4 DEF Submit, srbVars
  <2>2. \A t \in Data : OnRing(t) => OnRing(t)'
    <3>1. PICK s \in Data : s = cur[c]
      BY <1>4 DEF TypeOK, CpuTypes, Submit, At, Holding
    <3>2. CASE UNCHANGED reqs
      BY <3>2 DEF OnRing
    <3>3. CASE reqs' = reqs \o RingEntries(s)
      BY <3>3, RingAppends DEF OnRing
    <3> QED
      BY <1>4, <3>1, <3>2, <3>3 DEF Submit
  <2> QED
    BY <2>1, <2>2, SubmittedQuiet
<1>5. CASE ConsumeResponse(c)
  <2>1. PICK s \in Data : s = NextRsp[1]
    BY <1>5, NextRspType DEF TypeOK, ConsumeResponse
  <2>2. /\ UNCHANGED <<reqs, connected, power>>
        /\ requests' = [requests EXCEPT ![s] = @ \ {NextRsp[2]}]
        /\ \/ requests[s] \ {NextRsp[2]} # {} /\ UNCHANGED queueHead
           \/ queueHead' = [queueHead EXCEPT ![s] = None]
    BY <1>5, <2>1 DEF ConsumeResponse, IsLast, RemoveFrom
  <2>3. ASSUME NEW t \in Data, queueHead'[t] = "Submitted"
        PROVE  queueHead[t] = "Submitted" /\ requests'[t] # {}
    <3>1. CASE t = s
      BY <1>0, <1>1, <2>2, <2>3, <3>1 DEF TypeOK, QueueTypes, SrbTypes
    <3>2. CASE t # s
      <4>1. queueHead[t] = "Submitted" /\ requests'[t] = requests[t]
        BY <1>1, <2>2, <2>3, <3>2 DEF TypeOK, QueueTypes, SrbTypes
      <4> QED
        BY <4>1 DEF SubmittedAgrees
    <3> QED
      BY <3>1, <3>2
  <2> QED
    BY <2>2, <2>3 DEF SubmittedAgrees, OnRing
<1>6. CASE FreeRing(c) \/ NewRing(c)
  <2>1. ~connected' /\ UNCHANGED <<queueHead, requests>>
    BY <1>6 DEF FreeRing, NewRing, PowerAgrees, At, srbVars, Down
  <2>2. power' \in {"D3", "Opening"} => power \in {"D3", "Opening"}
    BY <1>6 DEF FreeRing, NewRing
  <2> QED
    BY <2>1, <2>2, SubmittedQuiet
<1> QED
  BY <1>2, <1>3, <1>4, <1>5, <1>6

\* SubmittedAgrees under the power thread, a resume and the backend.
LEMMA OutsideSubmitted ==
  ASSUME TypeOK, Ownership, NothingLost, PowerAgrees, SubmittedAgrees,
         \/ Pause \/ SeeDrained \/ Unpause \/ Suspend \/ Backend \/ UNCHANGED vars
         \/ Abort("AbortFresh", "Fresh", "AbortPrepared")
         \/ Abort("AbortPrepared", "Prepared", "AbortSubmitted")
         \/ Abort("AbortSubmitted", "Submitted", "D3")
  PROVE  SubmittedAgrees'
<1>0. None # "Submitted"
  BY ConstantsAssumption DEF ConstantsAssumption, QueueNames
<1>1. \A t \in Data : t \in Srbs
  BY DEF Srbs
<1>2. CASE Pause \/ SeeDrained \/ Unpause \/ Backend \/ UNCHANGED vars
  <2>1. UNCHANGED <<queueHead, requests, reqs, connected>>
    BY <1>2 DEF Pause, SeeDrained, Unpause, Backend, vars, srbVars, ringVars
  <2>2. power' \in {"D3", "Opening"} => power \in {"D3", "Opening"}
    BY <1>2 DEF Pause, SeeDrained, Unpause, Backend, vars
  <2>3. \A t \in Data : OnRing(t) => OnRing(t)'
    BY <2>1 DEF OnRing
  <2> QED
    BY <2>1, <2>2, <2>3, SubmittedQuiet
<1>3. CASE Suspend
  <2>1. \A t \in Data : queueHead'[t] # "Submitted"
    BY <1>1, <1>3 DEF Suspend, PreResume
  <2> QED
    BY <2>1 DEF SubmittedAgrees
<1>4. ASSUME NEW q \in {"Fresh", "Prepared", "Submitted"}, NEW state \in Down, NEW next \in Down,
             Abort(state, q, next), next = "D3" => q = "Submitted"
      PROVE  SubmittedAgrees'
  <2>1. ~connected' /\ UNCHANGED reqs
    BY <1>4 DEF Abort, Passive, PowerAgrees, ringVars
  <2>2. CASE queue[q] = << >> /\ power' = next /\ UNCHANGED <<queueHead, requests>>
    <3>1. ASSUME NEW t \in Data, next = "D3", queueHead[t] = "Submitted"
          PROVE  FALSE
      <4>1. On(t, queue["Submitted"])
        BY <1>0, <1>1, <3>1 DEF NothingLost, HeadsTrue
      <4> QED
        BY <1>4, <2>2, <3>1, <4>1, EmptySeq DEF On
    <3>2. next # "Opening" \/ power \in {"D3", "Opening"}
      BY <1>4 DEF Down
    <3> QED
      BY <2>1, <2>2, <3>1, <3>2 DEF SubmittedAgrees
  <2>3. CASE /\ Pop(q) /\ UNCHANGED power
             /\ requests' = [requests EXCEPT ![Head(queue[q])] = IF q = "Fresh" THEN @ ELSE {}]
    <3>1. \A t \in Data : queueHead'[t] = "Submitted" =>
            queueHead[t] = "Submitted" /\ requests'[t] = requests[t]
      <4>1. PICK s \in Data : s = Head(queue[q])
        BY <2>3, PoppedHead DEF Carries, QueueNames
      <4>2. queueHead'[s] = None /\ \A t \in Srbs \ {s} : queueHead'[t] = queueHead[t]
        BY <2>3, <4>1, PoppedHead DEF QueueNames
      <4> QED
        BY <1>0, <1>1, <2>3, <4>1, <4>2 DEF TypeOK, SrbTypes
    <3> QED
      BY <2>1, <2>3, <3>1, SubmittedQuiet
  <2> QED
    BY <1>4, <2>2, <2>3 DEF Abort
<1>5. CASE \/ Abort("AbortFresh", "Fresh", "AbortPrepared")
           \/ Abort("AbortPrepared", "Prepared", "AbortSubmitted")
           \/ Abort("AbortSubmitted", "Submitted", "D3")
  <2>1. {"AbortFresh", "AbortPrepared", "AbortSubmitted", "D3"} \subseteq Down
    BY DEF Down
  <2> QED
    BY <1>4, <1>5, <2>1
<1> QED
  BY <1>2, <1>3, <1>5

-----------------------------------------------------------------------------
\* OnlyOkay.

\* What waits is not on the ring, and what is not on the ring has no response there.
LEMMA OffRing ==
  ASSUME TypeOK, RingAgrees, NEW s \in Data, Waits(s) \/ ~OnRing(s)
  PROVE  ~OnRing(s) /\ \A j \in 1 .. Len(rsps) : rsps[j][1] # s
<1>1. ~OnRing(s)
  BY DEF RingAgrees, RingTracks, Tracked, OnRing
<1>2. ASSUME NEW j \in 1 .. Len(rsps), rsps[j][1] = s
      PROVE  FALSE
  <2>1. PICK i \in 1 .. pushed : reqs[i] = Pair(rsps[j])
    BY DEF RingAgrees, ResponsesMatch
  <2>2. i \in 1 .. Len(reqs) /\ reqs[i][1] = s
    BY <1>2, <2>1, PushedTypes DEF Pair
  <2> QED
    BY <1>1, <2>2 DEF OnRing
<1> QED
  BY <1>1, <1>2

\* A step that gives no SRB on the ring a good status, and reads no response.
LEMMA OkayQuiet ==
  ASSUME OnlyOkay, UNCHANGED rspCons, \A j \in 1 .. rspCons : rsps'[j] = rsps[j],
         \A s \in Data : OnRing(s)' /\ srbStatus'[s] = "Success" =>
           \/ OnRing(s) /\ srbStatus[s] = "Success"
           \/ \A j \in 1 .. rspCons : rsps[j][1] # s
  PROVE  OnlyOkay'
<1> SUFFICES ASSUME NEW s \in Data, srbStatus'[s] = "Success", OnRing(s)',
                    NEW j \in 1 .. rspCons, rsps[j][1] = s
             PROVE  rsps[j][3] = "Okay"
  BY DEF OnlyOkay, OnRing
<1> QED
  BY DEF OnlyOkay

\* The only CPU submits, marks and reads responses.
LEMMA WorkOkay ==
  ASSUME OneCpu, TypeOK, Ownership, RingAgrees, SubmitAgrees, OnlyOkay, NEW c \in Cpus,
         \/ StartIo(c) \/ PrepareOk(c) \/ Submit(c) \/ Mark(c) \/ ConsumeResponse(c)
         \/ PopShutdown(c) \/ ResetFresh(c) \/ FreeRing(c) \/ NewRing(c)
  PROVE  OnlyOkay'
<1>0. 1 .. rspCons \subseteq 1 .. Len(rsps)
  BY PushedTypes DEF RingAgrees, RingFits
<1>1. CASE StartIo(c)
  <2>1. UNCHANGED <<reqs, rsps, rspCons>>
    BY <1>1 DEF StartIo, StartData, StartFlush, ringVars
  <2>2. ASSUME NEW s \in Data, srbStatus'[s] # srbStatus[s]
        PROVE  Waits(s)
    BY <1>1, <2>2 DEF StartIo, StartData, StartFlush, TypeOK, SrbTypes, Srbs, Waits
  <2>3. \A s \in Data : OnRing(s)' => OnRing(s)
    BY <2>1 DEF OnRing
  <2>4. \A s \in Data : OnRing(s) => srbStatus'[s] = srbStatus[s]
    BY <2>2, OffRing
  <2> QED
    BY <2>1, <2>3, <2>4, OkayQuiet
<1>2. CASE PrepareOk(c) \/ ResetFresh(c)
  BY <1>2, OkayQuiet DEF PrepareOk, ResetFresh, ringVars, OnRing
<1>3. CASE PopShutdown(c)
  <2>1. UNCHANGED <<reqs, rsps, rspCons>>
    BY <1>3 DEF PopShutdown, ringVars
  <2>2. \A s \in Data : srbStatus'[s] = srbStatus[s]
    <3>1. ASSUME Pop("Shutdown")
          PROVE  Head(queue["Shutdown"]) \in Flushes
      BY <3>1, PoppedHead DEF Carries, QueueNames
    <3> QED
      BY <1>3, <3>1, ConstantsAssumption
         DEF PopShutdown, ConstantsAssumption, TypeOK, SrbTypes, Srbs
  <2> QED
    BY <2>1, <2>2, OkayQuiet DEF OnRing
<1>4. CASE FreeRing(c) \/ NewRing(c)
  BY <1>4, EmptySeq DEF FreeRing, NewRing, ClearRing, OnlyOkay, OnRing
<1>5. CASE Submit(c)
  <2>1. PICK s \in Data : s = cur[c] /\ pc[c] = "Submit"
    BY <1>5 DEF TypeOK, CpuTypes, Submit, At, Holding
  <2>2. UNCHANGED <<rsps, rspCons, srbStatus>>
    BY <1>5 DEF Submit, srbVars
  <2>3. \A j \in 1 .. Len(rsps) : rsps[j][1] # s
    BY <2>1, OffRing DEF Waits, Holds, Holding, Before
  <2>4. \A t \in Data : OnRing(t)' => OnRing(t) \/ t = s
    <3>1. CASE UNCHANGED reqs
      BY <3>1 DEF OnRing
    <3>2. CASE reqs' = reqs \o RingEntries(s)
      <4>1. ASSUME NEW t \in Data, NEW k \in 1 .. Len(reqs'), reqs'[k][1] = t
            PROVE  OnRing(t) \/ t = s
        <5>1. k \in 1 .. Len(reqs) \/ k \in Len(reqs) + 1 .. Len(reqs')
          BY PushedTypes
        <5>2. CASE k \in 1 .. Len(reqs)
          <6>1. reqs'[k] = reqs[k]
            BY <3>2, <5>2, RingAppends
          <6> QED
            BY <4>1, <5>2, <6>1 DEF OnRing
        <5>3. CASE k \in Len(reqs) + 1 .. Len(reqs')
          <6>1. reqs'[k] = <<s, k - Len(reqs)>>
            BY <3>2, <5>3, RingAppends
          <6> QED
            BY <4>1, <6>1
        <5> QED
          BY <5>1, <5>2, <5>3
      <4> QED
        BY <4>1 DEF OnRing
    <3> QED
      BY <1>5, <2>1, <3>1, <3>2 DEF Submit
  <2> QED
    BY <1>0, <2>2, <2>3, <2>4, OkayQuiet
<1>6. CASE Mark(c)
  <2>1. PICK s \in Data : s = cur[c] /\ pc[c] = "Mark"
    BY <1>6 DEF TypeOK, CpuTypes, Mark, At, Holding
  <2>2. UNCHANGED <<reqs, rsps, rspCons>> /\ srbStatus' = [srbStatus EXCEPT ![s] = "Success"]
    BY <1>6, <2>1 DEF Mark, ringVars
  <2>3. \A k \in 1 .. pushed : reqs[k][1] # s
    BY <2>1 DEF SubmitAgrees
  <2>4. ASSUME NEW j \in 1 .. Len(rsps)
        PROVE  rsps[j][1] # s
    <3>1. PICK i \in 1 .. pushed : reqs[i] = Pair(rsps[j])
      BY DEF RingAgrees, ResponsesMatch
    <3>2. reqs[i][1] = rsps[j][1]
      BY <3>1 DEF Pair
    <3> QED
      BY <2>3, <3>2
  <2>5. \A t \in Data : t # s => srbStatus'[t] = srbStatus[t]
    BY <2>2 DEF TypeOK, SrbTypes
  <2> QED
    BY <1>0, <2>2, <2>4, <2>5, OkayQuiet DEF OnRing
<1>7. CASE ConsumeResponse(c)
  <2>1. PICK s \in Data : s = NextRsp[1]
    BY <1>7, NextRspType DEF TypeOK, ConsumeResponse
  <2>2. /\ UNCHANGED <<reqs, rsps>> /\ rspCons' = rspCons + 1
        /\ srbStatus' = [srbStatus EXCEPT ![s] = StatusAfter(srbStatus[s], NextRsp[3])]
    BY <1>7, <2>1 DEF ConsumeResponse
  <2>3. NextRsp[3] \in {"Okay", "Error", "NotSupp"}
    BY <1>7, NextRspType, ConstantsAssumption
       DEF TypeOK, ConsumeResponse, ConstantsAssumption
  <2>4. srbStatus'[s] = "Success" => srbStatus[s] = "Success" /\ NextRsp[3] = "Okay"
    BY <2>2, <2>3 DEF StatusAfter, TypeOK, SrbTypes, Srbs
  <2>5. \A t \in Data : t # s => srbStatus'[t] = srbStatus[t]
    BY <2>2 DEF TypeOK, SrbTypes
  <2>6. 1 .. rspCons' = 1 .. rspCons \cup {rspCons + 1}
    BY <2>2, PushedTypes
  <2> SUFFICES ASSUME NEW t \in Data, srbStatus'[t] = "Success", OnRing(t),
                      NEW j \in 1 .. rspCons \cup {rspCons + 1}, rsps[j][1] = t
               PROVE  rsps[j][3] = "Okay"
    BY <2>2, <2>6 DEF OnlyOkay, OnRing
  <2>7. CASE j = rspCons + 1
    BY <2>1, <2>4, <2>7 DEF NextRsp
  <2>8. CASE j \in 1 .. rspCons
    <3>1. srbStatus[t] = "Success"
      BY <2>4, <2>5
    <3> QED
      BY <2>8, <3>1 DEF OnlyOkay
  <2> QED
    BY <2>7, <2>8
<1> QED
  BY <1>1, <1>2, <1>3, <1>4, <1>5, <1>6, <1>7

\* The power thread, a resume and the backend.
LEMMA OutsideOkay ==
  ASSUME TypeOK, RingAgrees, OnlyOkay,
         \/ Pause \/ SeeDrained \/ Unpause \/ Suspend \/ Backend \/ UNCHANGED vars
         \/ \E q, state, next : Abort(state, q, next)
  PROVE  OnlyOkay'
<1>1. CASE \/ Pause \/ SeeDrained \/ Unpause \/ UNCHANGED vars
           \/ \E q, state, next : Abort(state, q, next)
  BY <1>1, OkayQuiet DEF Pause, SeeDrained, Unpause, vars, srbVars, ringVars, Abort, OnRing
<1>2. CASE Suspend
  <2>1. CASE ClearRing
    BY <2>1, EmptySeq DEF ClearRing, OnlyOkay, OnRing
  <2>2. CASE UNCHANGED <<reqs, rsps, rspCons>>
    <3>1. \A s \in Data : srbStatus'[s] = "Success" => srbStatus[s] = "Success"
      BY <1>2 DEF Suspend, PreResume, Srbs
    <3> QED
      BY <2>2, <3>1, OkayQuiet DEF OnRing
  <2> QED
    BY <1>2, <2>1, <2>2 DEF Suspend
<1>3. CASE Backend
  <2>1. PICK r \in Data \X Nat \X Answers : rsps' = Append(rsps, r)
    <3>1. PICK i \in 1 .. pushed, a \in Answers :
            rsps' = Append(rsps, <<reqs[i][1], reqs[i][2], a>>)
      BY <1>3 DEF Backend
    <3>2. i \in 1 .. Len(reqs)
      BY PushedTypes
    <3>3. reqs[i] \in Data \X Nat
      BY <3>2, ReqsEntry
    <3> QED
      BY <3>1, <3>3
  <2>2. \A j \in 1 .. Len(rsps) : rsps'[j] = rsps[j]
    BY <2>1, AppendProperties DEF TypeOK, RingTypes
  <2>3. 1 .. rspCons \subseteq 1 .. Len(rsps)
    BY PushedTypes DEF RingAgrees, RingFits
  <2>4. UNCHANGED <<reqs, rspCons, srbStatus>>
    BY <1>3 DEF Backend
  <2> QED
    BY <2>2, <2>3, <2>4, OkayQuiet DEF OnRing
<1> QED
  BY <1>1, <1>2, <1>3

-----------------------------------------------------------------------------
\* GoodMeansDone.

\* A step that completes nothing well, and after which the answers to what was completed
\* well are the same.
LEMMA GoodQuiet ==
  ASSUME GoodMeansDone,
         \A s \in ReadWrites :
           \/ \A k \in 1 .. Len(done'[s]) : done'[s][k].scsi = "Aborted"
           \/ /\ done'[s] = done[s]
              /\ \A i \in 1 .. NumRequests[s], a \in Answers :
                   <<s, i, a>> \in answers' <=> <<s, i, a>> \in answers
  PROVE  GoodMeansDone'
<1> SUFFICES ASSUME NEW s \in ReadWrites, NEW k \in 1 .. Len(done'[s]),
                    done'[s][k] = [srb |-> "Success", scsi |-> "Good"],
                    NEW i \in 1 .. NumRequests[s], NEW a \in Answers
             PROVE  <<s, i, a>> \in answers' <=> a = "Okay"
  BY DEF GoodMeansDone
<1>1. done'[s][k].scsi # "Aborted"
  OBVIOUS
<1>2. done'[s] = done[s] /\ (<<s, i, a>> \in answers' <=> <<s, i, a>> \in answers)
  BY <1>1
<1> QED
  BY <1>2 DEF GoodMeansDone

\* An SRB that has not been completed is completed once.
LEMMA CompletedFirst ==
  ASSUME SrbTypes, NEW s \in Srbs, done[s] = << >>, NEW srb, NEW scsi,
         Complete(s, srb, scsi)
  PROVE  done'[s] = << [srb |-> srb, scsi |-> scsi] >>
<1> DEFINE r == [srb |-> srb, scsi |-> scsi]
<1>1. done' = [done EXCEPT ![s] = Append(@, r)]
  BY DEF Complete
<1> HIDE DEF r
<1>2. done'[s] = Append(<< >>, r)
  BY <1>1 DEF SrbTypes
<1>3. done'[s] = <<r>>
  BY <1>2
<1> QED
  BY <1>3 DEF r

\* An SRB is taken off its queue and aborted.
LEMMA AbortedGood ==
  ASSUME TypeOK, GoodMeansDone, NEW s \in Srbs, done[s] = << >>, NEW srb,
         Complete(s, srb, "Aborted"), UNCHANGED answers
  PROVE  GoodMeansDone'
<1>1. done'[s] = << [srb |-> srb, scsi |-> "Aborted"] >>
  BY CompletedFirst DEF TypeOK
<1>2. \A k \in 1 .. Len(done'[s]) : done'[s][k].scsi = "Aborted"
  BY <1>1
<1>3. \A t \in ReadWrites : t # s => done'[t] = done[t]
  BY CompleteRecords DEF TypeOK, Srbs, Data
<1> QED
  BY <1>2, <1>3, GoodQuiet

\* Completing the last request of an SRB with SRB_STATUS_SUCCESS: all the answers were
\* BLKIF_RSP_OKAY.
LEMMA ConsumeGood ==
  ASSUME OneCpu, TypeOK, Ownership, RingAgrees, OnlyOkay, GoodMeansDone, NEW c \in Cpus,
         ConsumeResponse(c)
  PROVE  GoodMeansDone'
<1>1. /\ rspCons + 1 \in 1 .. Len(rsps) /\ rspCons \in Nat
      /\ 1 .. rspCons \subseteq 1 .. Len(rsps)
  BY PushedTypes DEF ConsumeResponse
<1>2. PICK s \in Data, i \in Nat : Pair(NextRsp) = <<s, i>> /\ NextRsp[1] = s /\ NextRsp[2] = i
  BY <1>1, RspsEntry DEF NextRsp, Pair
<1> DEFINE status == StatusAfter(srbStatus[s], NextRsp[3])
           scsi == IF status = "Success" THEN "Good" ELSE "Aborted"
<1>3. UNCHANGED answers /\ s \in Srbs
  BY DEF ConsumeResponse, Srbs
<1>4. CASE UNCHANGED done
  BY <1>3, <1>4, GoodQuiet
<1>5. CASE requests[s] \ {i} = {} /\ queueHead[s] = "Submitted" /\ Complete(s, status, scsi)
  <2>1. None # "Submitted"
    BY ConstantsAssumption DEF ConstantsAssumption, QueueNames
  <2>2. done[s] = << >>
    BY <1>3, <1>5, <2>1 DEF Ownership, QueuedOpen, Open
  <2>3. \A t \in ReadWrites : t # s => done'[t] = done[t]
    BY <1>3, <1>5, CompleteRecords DEF TypeOK, Srbs, Data
  <2> HIDE DEF status, scsi
  <2>4. done'[s] = << [srb |-> status, scsi |-> scsi] >>
    BY <1>3, <1>5, <2>2, CompletedFirst DEF TypeOK
  <2>5. CASE status # "Success"
    <3>1. \A k \in 1 .. Len(done'[s]) : done'[s][k].scsi = "Aborted"
      BY <2>4, <2>5 DEF scsi
    <3> QED
      BY <1>3, <2>3, <3>1, GoodQuiet
  <2>6. CASE status = "Success"
    <3>1. PICK p \in 1 .. Len(reqs) : reqs[p] = <<s, i>>
      BY <1>1, <1>2, PushedTypes DEF RingAgrees, ResponsesMatch, NextRsp
    <3>2. Tracked(s) /\ OnRing(s)
      BY <3>1 DEF RingAgrees, RingTracks, OnRing
    <3>3. NextRsp[3] \in {"Okay", "Error", "NotSupp"}
      BY NextRspType, ConstantsAssumption DEF TypeOK, ConsumeResponse, ConstantsAssumption
    <3>4. srbStatus[s] = "Success" /\ NextRsp[3] = "Okay"
      BY <2>6, <3>3 DEF status, StatusAfter, TypeOK, SrbTypes
    <3>5. ASSUME NEW k \in 1 .. NumRequests[s]
          PROVE  \E j \in 1 .. Len(rsps) : rsps[j] = <<s, k, "Okay">>
      <4>1. CASE k = i
        <5>1. NextRsp = <<s, i, "Okay">>
          BY <1>1, <1>2, <3>4, RspsEntry DEF NextRsp
        <5> QED
          BY <1>1, <4>1, <5>1 DEF NextRsp
      <4>2. CASE k # i
        <5>1. Consumed(<<s, k>>)
          BY <1>5, <3>2, <4>2 DEF Tracked
        <5>2. PICK j \in 1 .. rspCons : Pair(rsps[j]) = <<s, k>>
          BY <5>1 DEF Consumed
        <5>3. j \in 1 .. Len(rsps) /\ rsps[j][1] = s /\ rsps[j][2] = k
          BY <1>1, <5>2 DEF Pair
        <5>4. rsps[j][3] = "Okay"
          BY <3>2, <3>4, <5>3 DEF OnlyOkay
        <5> QED
          BY <5>3, <5>4, RspsEntry
      <4> QED
        BY <4>1, <4>2
    <3>6. ASSUME NEW k \in 1 .. NumRequests[s], NEW a \in Answers
          PROVE  <<s, k, a>> \in answers <=> a = "Okay"
      <4>1. <<s, k, a>> \in answers <=> \E j \in 1 .. Len(rsps) : rsps[j] = <<s, k, a>>
        BY <3>2 DEF Tracked
      <4>2. PICK j \in 1 .. Len(rsps) : rsps[j] = <<s, k, "Okay">>
        BY <3>5
      <4>3. \A l \in 1 .. Len(rsps) : rsps[l] = <<s, k, a>> => l = j
        BY <4>2 DEF RingAgrees, ResponsesMatch, Pair
      <4> QED
        BY <4>1, <4>2, <4>3
    <3> SUFFICES ASSUME NEW t \in ReadWrites, NEW k \in 1 .. Len(done'[t]),
                        done'[t][k] = [srb |-> "Success", scsi |-> "Good"],
                        NEW n \in 1 .. NumRequests[t], NEW a \in Answers
                 PROVE  <<t, n, a>> \in answers <=> a = "Okay"
      BY <1>3 DEF GoodMeansDone
    <3>7. CASE t = s
      BY <3>6, <3>7
    <3>8. CASE t # s
      BY <2>3, <3>8 DEF GoodMeansDone
    <3> QED
      BY <3>7, <3>8
  <2> QED
    BY <2>5, <2>6
<1> QED
  BY <1>2, <1>4, <1>5 DEF ConsumeResponse, IsLast

\* The backend answers no request of an SRB that was completed.
LEMMA BackendGood ==
  ASSUME TypeOK, RingAgrees, GoodMeansDone, Backend
  PROVE  GoodMeansDone'
<1>1. PICK p \in 1 .. pushed, a \in Answers :
        /\ \A j \in 1 .. Len(rsps) : <<rsps[j][1], rsps[j][2]>> # reqs[p]
        /\ answers' = answers \cup {<<reqs[p][1], reqs[p][2], a>>}
  BY DEF Backend
<1>2. p \in 1 .. Len(reqs) /\ 1 .. rspCons \subseteq 1 .. Len(rsps)
  BY PushedTypes DEF RingAgrees, RingFits
<1>3. PICK s \in Data, i \in Nat : reqs[p] = <<s, i>>
  BY <1>2, ReqsEntry
<1>4. Tracked(s) /\ i \in 1 .. NumRequests[s]
  <2>1. Tracked(reqs[p][1]) /\ reqs[p][2] \in 1 .. NumRequests[reqs[p][1]]
    BY <1>2 DEF RingAgrees, RingTracks
  <2>2. reqs[p][1] = s /\ reqs[p][2] = i
    BY <1>3
  <2> QED
    BY <2>1, <2>2
<1>5. ~Consumed(<<s, i>>)
  BY <1>1, <1>2, <1>3 DEF Consumed, Pair
<1>6. done[s] = << >> /\ UNCHANGED done
  BY <1>4, <1>5 DEF Tracked, Backend
<1>7. \A k \in 1 .. Len(done'[s]) : done'[s][k].scsi = "Aborted"
  BY <1>6
<1>8. \A t \in ReadWrites : t # s => \A k \in 1 .. NumRequests[t], b \in Answers :
        <<t, k, b>> \in answers' <=> <<t, k, b>> \in answers
  BY <1>1, <1>3
<1> QED
  BY <1>6, <1>7, <1>8, GoodQuiet

\* The other steps: what they complete they abort, or it is a flush or was not queued.
LEMMA OthersGood ==
  ASSUME TypeOK, Ownership, GoodMeansDone,
         \/ \E c \in Cpus : StartIo(c) \/ PrepareOk(c) \/ PopShutdown(c) \/ ResetFresh(c)
         \/ \E q \in QueueNames : \E state, next : Abort(state, q, next)
  PROVE  GoodMeansDone'
<1>1. ASSUME NEW c \in Cpus, StartIo(c)
      PROVE  GoodMeansDone'
  <2>1. UNCHANGED answers
    BY <1>1 DEF StartIo, StartData, StartFlush
  <2>2. CASE UNCHANGED done
    BY <2>1, <2>2, GoodQuiet
  <2>3. ASSUME NEW s \in Data, s \notin issued, NEW srb, Complete(s, srb, "Aborted")
        PROVE  GoodMeansDone'
    <3>1. s \in Srbs /\ done[s] = << >>
      BY <2>3 DEF Srbs, Ownership, DoneOnce
    <3> QED
      BY <2>1, <2>3, <3>1, AbortedGood
  <2>4. ASSUME NEW s \in Syncs, Complete(s, "Success", "Good")
        PROVE  GoodMeansDone'
    <3>1. \A t \in ReadWrites : t \in Srbs \ {s}
      BY ConstantsAssumption DEF ConstantsAssumption, Srbs, Data
    <3>2. s \in Srbs
      BY DEF Srbs, Data
    <3>3. \A t \in ReadWrites : done'[t] = done[t]
      BY <2>4, <3>1, <3>2, CompleteRecords DEF TypeOK
    <3> QED
      BY <2>1, <3>3, GoodQuiet
  <2> QED
    BY <1>1, <2>2, <2>3, <2>4 DEF StartIo, StartData, StartFlush
<1>2. ASSUME NEW c \in Cpus, PrepareOk(c)
      PROVE  GoodMeansDone'
  <2>1. PICK s \in Data : s = cur[c] /\ pc[c] \in {"Prepare", "PrepFresh"}
    BY <1>2 DEF TypeOK, CpuTypes, PrepareOk, At, Holding
  <2>2. s \in Srbs /\ Holds(c, s)
    BY <2>1 DEF Srbs, Holds, Holding
  <2>3. done[s] = << >> /\ UNCHANGED done
    BY <1>2, <2>2 DEF Ownership, HeldOpen, Open, PrepareOk
  <2>4. \A k \in 1 .. Len(done'[s]) : done'[s][k].scsi = "Aborted"
    BY <2>3
  <2>5. \A t \in ReadWrites : t # s => \A k \in 1 .. NumRequests[t], b \in Answers :
          <<t, k, b>> \in answers' <=> <<t, k, b>> \in answers
    BY <1>2, <2>1 DEF PrepareOk
  <2> QED
    BY <2>3, <2>4, <2>5, GoodQuiet
<1>3. ASSUME NEW q \in QueueNames, Pop(q), NEW srb, UNCHANGED answers,
             Complete(Head(queue[q]), srb, "Aborted")
      PROVE  GoodMeansDone'
  <2>1. PICK s \in Srbs : s = Head(queue[q]) /\ queueHead[s] = q
    BY <1>3, PopAgrees DEF TypeOK, Ownership
  <2>2. q # None
    BY ConstantsAssumption DEF ConstantsAssumption
  <2>3. done[s] = << >>
    BY <2>1, <2>2 DEF Ownership, QueuedOpen, Open
  <2> QED
    BY <1>3, <2>1, <2>3, AbortedGood
<1>4. ASSUME NEW c \in Cpus, PopShutdown(c)
      PROVE  GoodMeansDone'
  <2>1. UNCHANGED answers
    BY <1>4 DEF PopShutdown
  <2>2. CASE UNCHANGED done
    BY <2>1, <2>2, GoodQuiet
  <2>3. CASE Pop("Shutdown") /\ Complete(Head(queue["Shutdown"]), "Success", "Good")
    <3>1. PICK f \in Flushes : f = Head(queue["Shutdown"])
      BY <2>3, PoppedHead DEF Carries, QueueNames
    <3>2. f \in Srbs /\ \A t \in ReadWrites : t \in Srbs \ {f}
      BY ConstantsAssumption DEF ConstantsAssumption, Srbs, Data
    <3>3. \A t \in ReadWrites : done'[t] = done[t]
      BY <2>3, <3>1, <3>2, CompleteRecords DEF TypeOK
    <3> QED
      BY <2>1, <3>3, GoodQuiet
  <2> QED
    BY <1>4, <2>2, <2>3 DEF PopShutdown
<1>5. ASSUME NEW c \in Cpus, ResetFresh(c)
      PROVE  GoodMeansDone'
  <2>1. UNCHANGED answers
    BY <1>5 DEF ResetFresh
  <2>2. CASE UNCHANGED done
    BY <2>1, <2>2, GoodQuiet
  <2> QED
    BY <1>3, <1>5, <2>1, <2>2 DEF ResetFresh, QueueNames
<1>6. ASSUME NEW q \in QueueNames, NEW state, NEW next, Abort(state, q, next)
      PROVE  GoodMeansDone'
  <2>1. UNCHANGED answers
    BY <1>6 DEF Abort
  <2>2. CASE UNCHANGED done
    BY <2>1, <2>2, GoodQuiet
  <2> QED
    BY <1>3, <1>6, <2>1, <2>2 DEF Abort
<1> QED
  BY <1>1, <1>2, <1>4, <1>5, <1>6

-----------------------------------------------------------------------------
\* PeeksAgree.

PeekPcs == {"PeekPrepared", "PeekSubmitted", "PopShutdown"}

\* Elsewhere nothing has been seen.
LEMMA PeeksQuiet ==
  ASSUME \A c \in Cpus : pc'[c] \notin PeekPcs
  PROVE  PeeksAgree'
BY DEF PeeksAgree, PeekPcs

\* The only CPU steps outside PdoCompleteShutdown.
LEMMA ElsewherePeeks ==
  ASSUME OneCpu, TypeOK, NEW c \in Cpus,
         \/ StartIo(c) \/ StartReset(c) \/ PowerUp(c) \/ PrepareOk(c) \/ PrepareFails(c)
         \/ PopPrepared(c) \/ Submit(c) \/ PutBack(c) \/ QueueSubmitted(c) \/ Mark(c)
         \/ Push(c) \/ EnterComplete(c) \/ ConsumeResponse(c) \/ LeaveComplete(c)
         \/ PopFresh(c) \/ PeekShutdown(c) \/ StartDpc(c) \/ Unmask(c) \/ ResetFresh(c)
         \/ ResetPeek(c) \/ SetState(c, "Drained", "Closing", "Disable")
         \/ Disable(c) \/ Close(c) \/ FreeRing(c) \/ NewRing(c) \/ Enable(c)
  PROVE  PeeksAgree'
<1> DEFINE Rest == Pcs \ PeekPcs
<1>1. AfterSubmit(c) \in Rest /\ AfterCallback(c) \in Rest
  BY Returns DEF TypeOK, CpuTypes, AfterSubmit, AfterCallback, Pcs, PeekPcs
<1>2. ASSUME (UNCHANGED pc /\ pc[c] \in Rest) \/ \E l \in Rest : Goto(c, l)
      PROVE  PeeksAgree'
  <2>1. pc'[c] \in Rest
    BY <1>2 DEF TypeOK, CpuTypes, Goto
  <2> QED
    BY <2>1, PeeksQuiet DEF OneCpu
<1>3. CASE \/ StartIo(c) \/ StartReset(c) \/ PowerUp(c) \/ PrepareOk(c) \/ PrepareFails(c)
  BY <1>2, <1>3 DEF StartIo, StartData, StartFlush, StartReset, PowerUp, SetState,
     PrepareOk, PrepareFails, At, Pcs, Holding, SettingState, PeekPcs, cpuVars
<1>4. CASE \/ PopPrepared(c) \/ Submit(c) \/ PutBack(c) \/ QueueSubmitted(c) \/ Mark(c)
           \/ Push(c)
  BY <1>1, <1>2, <1>4 DEF PopPrepared, Submit, PutBack, QueueSubmitted, Mark, Push, Pcs,
     Holding, PeekPcs
<1>5. CASE \/ EnterComplete(c) \/ ConsumeResponse(c) \/ LeaveComplete(c) \/ PopFresh(c)
           \/ PeekShutdown(c)
  BY <1>1, <1>2, <1>5 DEF EnterComplete, ConsumeResponse, LeaveComplete, PopFresh,
     PeekShutdown, At, Pcs, Holding, PeekPcs, cpuVars
<1>6. CASE StartDpc(c) \/ Unmask(c) \/ ResetFresh(c) \/ ResetPeek(c)
  BY <1>2, <1>6 DEF StartDpc, Unmask, ResetFresh, ResetPeek, At, Pcs, PeekPcs, cpuVars
<1>7. CASE \/ SetState(c, "Drained", "Closing", "Disable")
           \/ Disable(c) \/ Close(c) \/ NewRing(c) \/ Enable(c)
  BY <1>2, <1>7 DEF SetState, Disable, Close, NewRing, Enable, Pcs, SettingState, PeekPcs
<1>8. CASE FreeRing(c)
  <2>1. pc'[c] \notin PeekPcs
    BY <1>8, FreeRingMoves DEF PeekPcs
  <2> QED
    BY <2>1, PeeksQuiet DEF OneCpu
<1> QED
  BY <1>3, <1>4, <1>5, <1>6, <1>7, <1>8

\* PdoCompleteShutdown on the only CPU: what it saw empty nobody fills.
LEMMA PeekingPeeks ==
  ASSUME OneCpu, TypeOK, Ownership, NothingLost, PeeksAgree, NEW c \in Cpus,
         PeekOthers(c) \/ PopShutdown(c)
  PROVE  PeeksAgree'
<1>0. \A d \in Cpus : d = c
  BY DEF OneCpu
<1>1. AfterCallback(c) \notin PeekPcs
  BY Returns DEF TypeOK, CpuTypes, AfterCallback, PeekPcs
<1>2. CASE \E l : Goto(c, l) /\ l \notin PeekPcs
  <2>1. pc'[c] \notin PeekPcs
    BY <1>2 DEF TypeOK, CpuTypes, Goto
  <2> QED
    BY <1>0, <2>1, PeeksQuiet
<1>3. CASE PeekOthers(c)
  <2>1. PICK p \in Peeks : pc[c] = p[1]
                           /\ Goto(c, IF queue[p[2]] = << >> THEN p[3] ELSE AfterCallback(c))
    BY <1>3 DEF PeekOthers, At
  <2>2. p[2] \in {"Fresh", "Prepared", "Submitted"}
    BY DEF Peeks
  <2>3. CASE queue[p[2]] = << >>
    <3>1. \A s \in Data : queueHead[s] # p[2]
      <4> SUFFICES ASSUME NEW s \in Data, queueHead[s] = p[2] PROVE FALSE
        OBVIOUS
      <4>1. s \in Srbs /\ queueHead[s] # None
        BY <2>2, ConstantsAssumption DEF ConstantsAssumption, QueueNames, Srbs
      <4>2. On(s, queue[p[2]])
        BY <4>1 DEF NothingLost, HeadsTrue
      <4> QED
        BY <2>3, <4>2, EmptySeq DEF On
    <3>2. pc'[c] = p[3] /\ UNCHANGED queueHead
      BY <1>3, <2>1, <2>3 DEF PeekOthers, Goto, TypeOK, CpuTypes, srbVars
    <3> QED
      BY <1>0, <2>1, <3>1, <3>2 DEF PeeksAgree, Peeks
  <2>4. CASE queue[p[2]] # << >>
    BY <1>1, <1>2, <2>1, <2>4
  <2> QED
    BY <2>3, <2>4
<1>4. CASE PopShutdown(c)
  <2>1. CASE Pop("Shutdown") /\ UNCHANGED pc
    <3>1. PICK f \in Flushes : f = Head(queue["Shutdown"])
      BY <2>1, PoppedHead DEF Carries, QueueNames
    <3>2. \A t \in Data : t \in Srbs \ {f}
      BY ConstantsAssumption DEF ConstantsAssumption, Srbs
    <3>3. \A t \in Data : queueHead'[t] = queueHead[t]
      BY <2>1, <3>1, <3>2, PoppedHead DEF QueueNames
    <3> QED
      BY <2>1, <3>3 DEF PeeksAgree
  <2>2. CASE Goto(c, AfterCallback(c))
    BY <1>1, <1>2, <2>2
  <2> QED
    BY <1>4, <2>1, <2>2 DEF PopShutdown
<1> QED
  BY <1>3, <1>4

\* The power thread, a resume and the backend.
LEMMA OutsidePeeks ==
  ASSUME OneCpu, TypeOK, PeeksAgree,
         \/ Pause \/ SeeDrained \/ Unpause \/ Suspend \/ Backend \/ UNCHANGED vars
         \/ \E q, state, next : Abort(state, q, next)
  PROVE  PeeksAgree'
<1>1. CASE Pause \/ SeeDrained \/ Unpause \/ Backend \/ UNCHANGED vars
  <2>1. UNCHANGED <<pc, queueHead>>
    BY <1>1 DEF Pause, SeeDrained, Unpause, Backend, vars, srbVars, cpuVars
  <2> QED
    BY <2>1 DEF PeeksAgree
<1>2. CASE Suspend \/ \E q, state, next : Abort(state, q, next)
  <2>1. UNCHANGED pc /\ \A c \in Cpus : pc[c] = "Idle"
    BY <1>2 DEF Suspend, Abort, Passive, AtPassive, At, cpuVars, OneCpu
  <2> QED
    BY <2>1, PeeksQuiet DEF PeekPcs
<1> QED
  BY <1>1, <1>2

-----------------------------------------------------------------------------
\* What one CPU guarantees.

DataAgrees == TypeOK /\ Ownership /\ NothingLost /\ PowerAgrees /\ RingAgrees

\* What holds on any number of CPUs, in one invariant.
LEMMA DataAgreesHolds == Spec => []DataAgrees
BY TypeCorrect, OwnershipHolds, NothingLostHolds, RingAgreesHolds, PTL DEF DataAgrees

\* At the start nothing has been submitted.
LEMMA InitOneCpu == Init => OneCpuAgrees
<1> SUFFICES ASSUME Init PROVE OneCpuAgrees
  OBVIOUS
<1>1. None # "Submitted"
  BY ConstantsAssumption DEF ConstantsAssumption, QueueNames
<1>2. Len(reqs) = 0 /\ pushed = 0
  BY EmptySeq DEF Init
<1>3. NoBugcheck /\ SubmitAgrees /\ SubmittedAgrees /\ PeeksAgree
  BY <1>1, <1>2 DEF Init, NoBugcheck, SubmitAgrees, SubmittedAgrees, PeeksAgree, Unpushed,
     Srbs
<1>4. OnlyOkay
  BY <1>2 DEF Init, OnlyOkay, OnRing
<1>5. GoodMeansDone
  BY EmptySeq DEF Init, GoodMeansDone, Srbs, Data
<1> QED
  BY <1>3, <1>4, <1>5 DEF OneCpuAgrees

\* The steps of the only CPU.
LEMMA CpuOneCpu ==
  ASSUME OneCpu, DataAgrees, OneCpuAgrees, NEW c \in Cpus,
         \/ StartIo(c) \/ StartReset(c) \/ PowerUp(c) \/ Run(c)
         \/ SetState(c, "Drained", "Closing", "Disable")
  PROVE  SubmittedAgrees' /\ OnlyOkay' /\ GoodMeansDone' /\ PeeksAgree'
<1> USE DEF DataAgrees, OneCpuAgrees
<1>1. CASE Plain(c)
  <2>1. UNCHANGED <<requests, srbStatus, done, answers, reqs, rsps, rspCons>>
    BY <1>1, PlainUnchanged
  <2>2. OnlyOkay' /\ GoodMeansDone'
    BY <2>1, OkayQuiet, GoodQuiet DEF OnRing
  <2>3. SubmittedAgrees'
    BY <1>1, PlainSubmitted
  <2>4. PeeksAgree'
    BY <1>1, ElsewherePeeks, PeekingPeeks DEF Plain
  <2> QED
    BY <2>2, <2>3, <2>4
<1>2. CASE \/ StartIo(c) \/ PrepareOk(c) \/ PopShutdown(c) \/ ResetFresh(c)
           \/ ConsumeResponse(c)
  <2>1. SubmittedAgrees' /\ OnlyOkay'
    BY <1>2, WorkSubmitted, WorkOkay
  <2>2. GoodMeansDone'
    BY <1>2, OthersGood, ConsumeGood
  <2>3. PeeksAgree'
    BY <1>2, ElsewherePeeks, PeekingPeeks
  <2> QED
    BY <2>1, <2>2, <2>3
<1>3. CASE Submit(c) \/ Mark(c) \/ FreeRing(c) \/ NewRing(c)
  <2>1. SubmittedAgrees' /\ OnlyOkay' /\ PeeksAgree'
    BY <1>3, WorkSubmitted, WorkOkay, ElsewherePeeks
  <2>2. UNCHANGED <<done, answers>>
    BY <1>3 DEF Submit, Mark, FreeRing, NewRing, srbVars
  <2>3. GoodMeansDone'
    BY <2>2, GoodQuiet
  <2> QED
    BY <2>1, <2>3
<1>4. ~Bugcheck(c)
  BY NothingFatal
<1> QED
  BY <1>1, <1>2, <1>3, <1>4 DEF Run, SubmitLoop, Callback, Plain

\* The other steps.
LEMMA OutsideOneCpu ==
  ASSUME OneCpu, DataAgrees, OneCpuAgrees,
         \/ Pause \/ SeeDrained \/ Unpause \/ Suspend \/ Backend \/ UNCHANGED vars
         \/ Abort("AbortFresh", "Fresh", "AbortPrepared")
         \/ Abort("AbortPrepared", "Prepared", "AbortSubmitted")
         \/ Abort("AbortSubmitted", "Submitted", "D3")
  PROVE  SubmittedAgrees' /\ OnlyOkay' /\ GoodMeansDone' /\ PeeksAgree'
<1> USE DEF DataAgrees, OneCpuAgrees
<1>1. SubmittedAgrees'
  BY OutsideSubmitted
<1>2. OnlyOkay' /\ PeeksAgree'
  BY OutsideOkay, OutsidePeeks
<1>3. GoodMeansDone'
  <2>1. CASE Pause \/ SeeDrained \/ Unpause \/ Suspend \/ UNCHANGED vars
    <3>1. UNCHANGED <<done, answers>>
      BY <2>1 DEF Pause, SeeDrained, Unpause, Suspend, vars, srbVars
    <3> QED
      BY <3>1, GoodQuiet
  <2>2. CASE Backend
    BY <2>2, BackendGood
  <2>3. CASE \/ Abort("AbortFresh", "Fresh", "AbortPrepared")
             \/ Abort("AbortPrepared", "Prepared", "AbortSubmitted")
             \/ Abort("AbortSubmitted", "Submitted", "D3")
    BY <2>3, OthersGood DEF QueueNames
  <2> QED
    BY <2>1, <2>2, <2>3
<1> QED
  BY <1>1, <1>2, <1>3

\* Every step keeps OneCpuAgrees.
LEMMA NextOneCpu ==
  ASSUME OneCpu, DataAgrees, OneCpuAgrees, [Next]_vars
  PROVE  OneCpuAgrees'
<1>1. \A c \in Cpus : ~Bugcheck(c)
  BY NothingFatal DEF DataAgrees, OneCpuAgrees
<1>2. NoBugcheck'
  <2>1. UNCHANGED bugcheck
    <3>1. ASSUME NEW c \in Cpus, StartIo(c) \/ StartReset(c) \/ PowerUp(c)
          PROVE  UNCHANGED bugcheck
      BY <3>1 DEF StartIo, StartData, StartFlush, StartReset, PowerUp, SetState
    <3>2. ASSUME NEW c \in Cpus, SubmitLoop(c)
          PROVE  UNCHANGED bugcheck
      BY <3>2 DEF SubmitLoop, PopPrepared, Submit, PutBack, QueueSubmitted, Mark, Push
    <3>3. ASSUME NEW c \in Cpus, Callback(c)
          PROVE  UNCHANGED bugcheck
      BY <3>3 DEF Callback, EnterComplete, ConsumeResponse, LeaveComplete, PopFresh,
         PeekShutdown, PeekOthers, PopShutdown
    <3>4. ASSUME NEW c \in Cpus, Run(c)
          PROVE  UNCHANGED bugcheck
      BY <1>1, <3>2, <3>3, <3>4 DEF Run, PrepareOk, PrepareFails, StartDpc, Unmask,
         ResetFresh, ResetPeek, Disable, Close, FreeRing, NewRing, Enable
    <3>5. CASE PowerThread
      BY <3>5 DEF PowerThread, SeeDrained, Unpause, SetState, Abort
    <3>6. CASE Pause \/ Suspend \/ Backend \/ UNCHANGED vars
      BY <3>6 DEF Pause, Suspend, Backend, vars
    <3> QED
      BY <3>1, <3>4, <3>5, <3>6 DEF Next
  <2> QED
    BY <2>1 DEF OneCpuAgrees, NoBugcheck
<1>3. SubmitAgrees'
  BY NextSubmits DEF DataAgrees, OneCpuAgrees
<1>4. SubmittedAgrees' /\ OnlyOkay' /\ GoodMeansDone' /\ PeeksAgree'
  BY CpuOneCpu, OutsideOneCpu DEF Next, PowerThread
<1> QED
  BY <1>2, <1>3, <1>4 DEF OneCpuAgrees

\* OneCpuAgrees holds in every reachable state of one CPU.
LEMMA OneCpuAgreesHolds ==
  ASSUME OneCpu
  PROVE  Spec => []OneCpuAgrees
<1>1. DataAgrees /\ OneCpuAgrees /\ [Next]_vars => OneCpuAgrees'
  BY NextOneCpu
<1> QED
  BY <1>1, InitOneCpu, DataAgreesHolds, PTL DEF Spec

\* On one CPU queues and ring describe the same requests: no ASSERT fails and no freed
\* ring is touched, the requests never exceed the ring, and every SRB on SubmittedSrbs
\* waits for requests that are on the present ring, published or about to be, and whose
\* responses have not been read.
THEOREM RingIsSound ==
  ASSUME OneCpu
  PROVE  Spec => []RingSound
<1>1. DataAgrees /\ OneCpuAgrees => RingSound
  <2> SUFFICES ASSUME DataAgrees, OneCpuAgrees PROVE RingSound
    OBVIOUS
  <2>1. TypeOK /\ NoBugcheck /\ RingFits
    BY DEF DataAgrees, OneCpuAgrees, RingAgrees
  <2>2. ASSUME connected, NEW s \in Data, queueHead[s] = "Submitted", NEW i \in requests[s]
        PROVE  \E k \in 1 .. Len(reqs) :
                 /\ reqs[k] = <<s, i>>
                 /\ k <= pushed \/ \E c \in Cpus : pc[c] \in {"Mark", "Push"}
                 /\ \A j \in 1 .. rspCons : <<rsps[j][1], rsps[j][2]>> # reqs[k]
    <3>1. OnRing(s)
      BY <2>2 DEF OneCpuAgrees, SubmittedAgrees
    <3>2. Tracked(s)
      BY <3>1 DEF OnRing, DataAgrees, RingAgrees, RingTracks
    <3>3. i \in 1 .. NumRequests[s] /\ ~Consumed(<<s, i>>)
      BY <2>2, <3>2 DEF Tracked
    <3>4. PICK k \in 1 .. Len(reqs) : reqs[k] = <<s, i>>
      BY <3>2, <3>3 DEF Tracked
    <3>5. k <= pushed \/ \E c \in Cpus : pc[c] \in {"Mark", "Push"}
      <4>1. CASE \E c \in Cpus : pc[c] = "Queue"
        <5>1. PICK c \in Cpus : pc[c] = "Queue"
          BY <4>1
        <5>2. None # "Submitted"
          BY ConstantsAssumption DEF ConstantsAssumption, QueueNames
        <5>3. cur[c] # s
          BY <2>2, <5>1, <5>2 DEF DataAgrees, Ownership, HeldOpen, Holds, Holding, Srbs
        <5>4. k \notin pushed + 1 .. Len(reqs)
          BY <3>4, <5>1, <5>3 DEF OneCpuAgrees, SubmitAgrees
        <5> QED
          BY <2>1, <5>4, PushedTypes
      <4>2. CASE \A c \in Cpus : pc[c] \notin Unpushed
        BY <2>1, <4>2, PushedTypes DEF OneCpuAgrees, SubmitAgrees
      <4> QED
        BY <4>1, <4>2 DEF Unpushed
    <3> QED
      BY <3>3, <3>4, <3>5 DEF Consumed, Pair
  <2>3. SubmittedOnRing
    BY <2>2 DEF SubmittedOnRing, OneCpuAgrees, SubmittedAgrees
  <2> QED
    BY <2>1, <2>3 DEF RingSound
<1> QED
  BY <1>1, OneCpuAgreesHolds, DataAgreesHolds, PTL

\* On one CPU a read or write completed with SRB_STATUS_SUCCESS and SCSI_GOOD has had
\* every one of its requests answered BLKIF_RSP_OKAY, and nothing else.
THEOREM GoodIsDone ==
  ASSUME OneCpu
  PROVE  Spec => []GoodMeansDone
<1>1. OneCpuAgrees => GoodMeansDone
  BY DEF OneCpuAgrees
<1> QED
  BY <1>1, OneCpuAgreesHolds, PTL

\* On one CPU a flush or shutdown SRB is completed only when every read, write and
\* synchronize-cache SRB issued before has been: PdoCompleteShutdown peeks at three
\* queues one after the other, and nothing is in a CPU's hands meanwhile.
THEOREM FlushesComeLast ==
  ASSUME OneCpu
  PROVE  Spec => FlushAfterData
<1> DEFINE A == \A x \in Flushes : done'[x] # done[x] =>
                  \A s \in Data : s \in issued => done[s] # << >>
<1>1. DataAgrees /\ OneCpuAgrees /\ [Next]_vars => [A]_vars
  <2> SUFFICES ASSUME DataAgrees, OneCpuAgrees, Next, NEW x \in Flushes, done'[x] # done[x],
                      NEW s \in Data, s \in issued, done[s] = << >>
               PROVE  FALSE
    OBVIOUS
  <2> USE DEF DataAgrees
  <2>1. x \in Srbs /\ s \in Srbs /\ x \notin Data
    BY ConstantsAssumption DEF ConstantsAssumption, Srbs
  <2>2. ASSUME NEW t \in Data, NEW srb, NEW scsi, Complete(t, srb, scsi)
        PROVE  FALSE
    <3>1. t \in Srbs /\ x \in Srbs \ {t}
      BY <2>1 DEF Srbs
    <3> QED
      BY <2>2, <3>1, CompleteRecords DEF TypeOK
  <2>3. ASSUME NEW q \in QueueNames \ {"Shutdown"}, Pop(q), NEW srb, NEW scsi,
               Complete(Head(queue[q]), srb, scsi)
        PROVE  FALSE
    <3>1. Head(queue[q]) \in Data
      BY <2>3, PoppedHead DEF Carries
    <3> QED
      BY <2>2, <2>3, <3>1
  <2>4. PICK c \in Cpus : PopShutdown(c)
    <3>1. ASSUME NEW c \in Cpus, StartIo(c) \/ ConsumeResponse(c) \/ ResetFresh(c)
          PROVE  FALSE
      <4>1. CASE StartIo(c)
        BY <2>2, <4>1 DEF StartIo, StartData, StartFlush
      <4>2. CASE ConsumeResponse(c)
        <5>1. NextRsp[1] \in Data
          BY <4>2, NextRspType DEF TypeOK, ConsumeResponse
        <5> QED
          BY <2>2, <4>2, <5>1 DEF ConsumeResponse
      <4>3. CASE ResetFresh(c)
        BY <2>3, <4>3 DEF ResetFresh, QueueNames
      <4> QED
        BY <3>1, <4>1, <4>2, <4>3
    <3>2. ASSUME NEW c \in Cpus, Plain(c)
          PROVE  FALSE
      BY <3>2, PlainUnchanged
    <3>3. ASSUME NEW c \in Cpus,
                 \/ PrepareOk(c) \/ Submit(c) \/ Mark(c) \/ FreeRing(c) \/ NewRing(c)
                 \/ Bugcheck(c)
          PROVE  FALSE
      BY <3>3 DEF PrepareOk, Submit, Mark, FreeRing, NewRing, Bugcheck, srbVars
    <3>4. ASSUME NEW q \in QueueNames \ {"Shutdown"}, NEW state, NEW next,
                 Abort(state, q, next)
          PROVE  FALSE
      BY <2>3, <3>4 DEF Abort
    <3>5. ASSUME Pause \/ SeeDrained \/ Unpause \/ Suspend \/ Backend
          PROVE  FALSE
      BY <3>5 DEF Pause, SeeDrained, Unpause, Suspend, Backend, srbVars
    <3>6. ~PowerThread
      BY <3>2, <3>4, <3>5 DEF PowerThread, Plain, QueueNames
    <3> QED
      BY <3>1, <3>2, <3>3, <3>5, <3>6 DEF Next, Run, SubmitLoop, Callback, Plain
  <2>5. pc[c] = "PopShutdown"
    BY <2>4 DEF PopShutdown, At
  <2>6. \A d \in Cpus : ~Holds(d, s)
    BY <2>5 DEF OneCpu, Holds, Holding
  <2>7. queueHead[s] # None
    BY <2>6 DEF NothingLost, Placed
  <2>8. queueHead[s] \in QueueNames /\ On(s, queue[queueHead[s]])
    BY <2>1, <2>7 DEF NothingLost, HeadsTrue, TypeOK, QueueTypes
  <2>9. queueHead[s] = "Shutdown"
    BY <2>5, <2>8 DEF OneCpuAgrees, PeeksAgree, QueueNames
  <2>10. queue["Shutdown"] \in Seq(Flushes)
    BY DEF TypeOK, QueueTypes, QueueNames, Carries
  <2>11. s \in Flushes
    BY <2>8, <2>9, <2>10, ElementOfSeq DEF On
  <2> QED
    BY <2>11, ConstantsAssumption DEF ConstantsAssumption
<1>2. Spec => [][A]_vars
  <2> HIDE DEF A
  <2> QED
    BY <1>1, OneCpuAgreesHolds, DataAgreesHolds, PTL DEF Spec
<1> QED
  BY <1>2 DEF FlushAfterData
=============================================================================
