----------------------- MODULE SchedulerServiceProofs -----------------------
(***************************************************************************)
(* What is proved of ModelScheduler, for every number of requests and      *)
(* workers, every queue bound and every batching policy: its types, the    *)
(* bounded queue, that no request is lost or answered twice, the           *)
(* executors, the drain, the counters, the batches, and that the scheduler *)
(* implements RequestService.                                              *)
(***************************************************************************)
EXTENDS SchedulerService, SequenceTheorems, FiniteSetTheorems, InductionLemmas

-----------------------------------------------------------------------------
(* The operators the model is built from.                                  *)

\* RemoveAt erases one element: the rest is a sequence over the same set.
LEMMA RemoveAtType ==
    ASSUME NEW S, NEW q \in Seq(S), NEW i \in 1 .. Len(q)
    PROVE  RemoveAt(q, i) \in Seq(S) /\ Len(RemoveAt(q, i)) = Len(q) - 1
BY DEF RemoveAt

\* popNextPending takes the front: it is a request, and so is all that remains.
LEMMA FrontType ==
    ASSUME NEW S, NEW q \in Seq(S), q # <<>>
    PROVE  Head(q) \in S /\ Tail(q) \in Seq(S) /\ Len(Tail(q)) = Len(q) - 1 /\ Len(q) > 0
OBVIOUS

\* notify_one and notify_all only wake: a worker they reach goes back to the top of
\* the loop it slept in.
LEMMA NotifyOneType ==
    ASSUME NEW pcs \in [Workers -> WorkerPlaces], NEW woken \in NotifyOne(pcs)
    PROVE  woken \in [Workers -> WorkerPlaces]
BY DEF NotifyOne, Awake, Waiters, WorkerPlaces, Forming

LEMMA NotifyAllType ==
    ASSUME wpc \in [Workers -> WorkerPlaces]
    PROVE  NotifyAll \in [Workers -> WorkerPlaces]
BY DEF NotifyAll, Awake, Waiters, WorkerPlaces, Forming

LEMMA CountType ==
    ASSUME metrics \in Counters,
           NEW field \in {"accepted", "rejected", "timed_out", "completed"}, Count(field)
    PROVE  metrics' \in Counters
BY DEF Counters, Count

LEMMA ReplyType ==
    ASSUME NEW r \in Requests, NEW res \in Outcomes
    PROVE  ReplyTo(r, res) \in Replies
BY DEF Replies, ReplyTo

\* What formBatch does to its locals keeps them well typed.
LEMMA FormType ==
    /\ NoForm \in Forms
    /\ \A f \in Forms : f.iterator \in Nat \ {0} /\ f.merged \in Nat /\ f.delayed \in BOOLEAN
BY DEF Forms, NoForm

LEMMA FormFlags ==
    ASSUME NEW f \in Forms
    PROVE  /\ [f EXCEPT !.moved = TRUE] \in Forms
           /\ [f EXCEPT !.progress = TRUE] \in Forms
           /\ [f EXCEPT !.delayed = TRUE] \in Forms
BY DEF Forms

LEMMA FormPosition ==
    ASSUME NEW f \in Forms, NEW i \in Nat \ {0}
    PROVE  /\ [f EXCEPT !.iterator = i] \in Forms
           /\ [f EXCEPT !.iterator = i, !.moved = FALSE] \in Forms
BY DEF Forms

LEMMA FormTop ==
    ASSUME NEW f \in Forms, NEW i \in Nat \ {0}, NEW b \in BOOLEAN
    PROVE  [f EXCEPT !.iterator = i, !.progress = FALSE, !.elapsed = b] \in Forms
BY DEF Forms

LEMMA FormMerged ==
    ASSUME NEW f \in Forms, NEW n \in Nat
    PROVE  [f EXCEPT !.merged = n] \in Forms
BY DEF Forms

LEMMA FormFront ==
    ASSUME NEW f \in Forms, NEW r \in Requests
    PROVE  [f EXCEPT !.front = r, !.merged = BatchSize[r]] \in Forms
BY BatchAssumption DEF Forms

LEMMA FormUpdate ==
    ASSUME NEW F \in [Workers -> Forms], NEW w \in Workers, NEW f \in Forms
    PROVE  [F EXCEPT ![w] = f] \in [Workers -> Forms]
OBVIOUS

LEMMA DisturbedType ==
    ASSUME form \in [Workers -> Forms], NEW w \in Workers
    PROVE  Disturbed(w) \in [Workers -> Forms] /\ Disturbed(w)[w] \in Forms
BY FormFlags DEF Disturbed

-----------------------------------------------------------------------------
(* Type correctness.                                                       *)

LEMMA TypeInit == Init => TypeOK
<1> SUFFICES ASSUME Init PROVE TypeOK
  OBVIOUS
<1>1. draining \in BOOLEAN
  BY Zenon DEF Init
<1>2. cpc \in [Requests -> ClientPlaces] /\ wpc \in [Workers -> WorkerPlaces]
  BY DEF Init, ClientPlaces, WorkerPlaces
<1>3. form \in [Workers -> Forms] /\ metrics \in Counters
  BY FormType DEF Init, Counters
<1> QED  BY <1>1, <1>2, <1>3 DEF Init, TypeOK

\* The four steps that change the locals of formBatch in an involved way.
LEMMA PopFormType ==
    ASSUME TypeOK, NEW w \in Workers, PopNextPending(w)
    PROVE  form' \in [Workers -> Forms]
<1> DEFINE f == [Disturbed(w)[w] EXCEPT !.front = Head(queue), !.merged = BatchSize[Head(queue)]]
<1>1. form \in [Workers -> Forms]
  BY DEF TypeOK
<1>2. form' = form \/ (queue # <<>> /\ form' = [Disturbed(w) EXCEPT ![w] = f])
  BY DEF PopNextPending
<1>3. CASE queue # <<>>
  <2>1. Head(queue) \in Requests
    BY <1>3, FrontType DEF TypeOK
  <2>2. f \in Forms
    BY <1>1, <2>1, DisturbedType, FormFront
  <2> QED  BY <1>1, <1>2, <2>2, DisturbedType, FormUpdate
<1> QED  BY <1>1, <1>2, <1>3

LEMMA FormBatchType ==
    ASSUME TypeOK, NEW w \in Workers, FormBatch(w)
    PROVE  form' \in [Workers -> Forms]
<1> DEFINE f == [form[w] EXCEPT !.iterator = 1, !.progress = FALSE, !.elapsed = form[w].delayed]
<1>1. form \in [Workers -> Forms] /\ form[w] \in Forms /\ 1 \in Nat \ {0}
  BY DEF TypeOK
<1>2. form[w].delayed \in BOOLEAN
  BY <1>1, FormType
<1>3. f \in Forms
  BY <1>1, <1>2, FormTop, Zenon
<1>4. form' = [form EXCEPT ![w] = f] \/ form' = [form EXCEPT ![w] = NoForm]
  BY DEF FormBatch, FormReturn
<1> QED  BY <1>1, <1>3, <1>4, FormType, FormUpdate

LEMMA FormScanType ==
    ASSUME TypeOK, NEW w \in Workers, FormScan(w)
    PROVE  /\ form[w].iterator \in 1 .. Len(queue) /\ queue[form[w].iterator] \in Requests
           /\ form' \in [Workers -> Forms]
<1> DEFINE i == form[w].iterator
           n == BatchSize[queue[i]]
           d == Disturbed(w)
<1>1. /\ form \in [Workers -> Forms] /\ form[w] \in Forms
      /\ d \in [Workers -> Forms] /\ d[w] \in Forms
  BY DisturbedType DEF TypeOK
<1>2. i \in 1 .. Len(queue) /\ queue[i] \in Requests
  BY <1>1, FormType DEF FormScan, TypeOK
<1>3. [d[w] EXCEPT !.progress = TRUE] \in Forms
  BY <1>1, FormFlags
<1>4. [d[w] EXCEPT !.merged = @ + n] \in Forms
  <2>1. d[w].merged + n \in Nat
    BY <1>1, <1>2, FormType, BatchAssumption
  <2> QED  BY <1>1, <2>1, FormMerged
<1>5. [form[w] EXCEPT !.iterator = i + 1] \in Forms
  <2>1. i + 1 \in Nat \ {0}
    BY <1>1, FormType
  <2> QED  BY <1>1, <2>1, FormPosition
<1>6. \/ form' = [d EXCEPT ![w] = [d[w] EXCEPT !.progress = TRUE]]
      \/ form' = [d EXCEPT ![w] = [d[w] EXCEPT !.merged = @ + n]]
      \/ form' = [form EXCEPT ![w] = [form[w] EXCEPT !.iterator = i + 1]]
  BY DEF FormScan
<1>7. form' \in [Workers -> Forms]
  BY <1>1, <1>3, <1>4, <1>5, <1>6, FormUpdate
<1> QED  BY <1>2, <1>7

LEMMA FormRescanType ==
    ASSUME TypeOK, NEW w \in Workers, FormRescan(w)
    PROVE  form' \in [Workers -> Forms]
<1> DEFINE f(i) == [form[w] EXCEPT !.iterator = i, !.moved = FALSE]
<1>1. form \in [Workers -> Forms] /\ form[w] \in Forms
  BY DEF TypeOK
<1>2. ASSUME NEW i \in 1 .. Len(queue) + 1 PROVE i \in Nat \ {0}
  BY DEF TypeOK
<1>3. form' = form \/ \E i \in Nat \ {0} : form' = [form EXCEPT ![w] = f(i)]
  BY <1>2 DEF FormRescan
<1>4. \A i \in Nat \ {0} : f(i) \in Forms
  BY <1>1, FormPosition
<1> QED  BY <1>1, <1>3, <1>4, FormUpdate

\* The answers after an execution are well formed.
LEMMA ResultReplyType ==
    ASSUME TypeOK, NEW w \in Workers, ResultNext(w)
    PROVE  reply' \in [Workers -> Replies \cup {NoReply}]
<1>1. PICK r \in todo[w] : \/ reply' = reply
                           \/ reply' = [reply EXCEPT ![w] = ReplyTo(r, "timeout")]
                           \/ reply' = [reply EXCEPT ![w] = ReplyTo(r, "response")]
  BY DEF ResultNext, TimeOut, Fulfill
<1>2. r \in Requests
  BY DEF TypeOK
<1> QED  BY <1>1, <1>2, ReplyType DEF TypeOK, Outcomes

LEMMA TypeSubmit ==
    ASSUME TypeOK, NEW r \in Requests, SubmitStep(r)
    PROVE  TypeOK'
<1> USE DEF TypeOK, batchVars, execVars
<1>1. CASE Submit(r)
  BY <1>1, ZenonT(60) DEF SubmitStep, Submit, Return, ClientPlaces, Outcomes
<1>2. CASE SubmitLock(r)
  <2>1. metrics' \in Counters
    BY <1>2, CountType DEF SubmitLock
  <2>2. cpc' \in [Requests -> ClientPlaces]
    BY <1>2, ZenonT(60) DEF SubmitLock, Return, ClientPlaces
  <2> QED  BY <1>2, <2>1, <2>2 DEF SubmitStep, SubmitLock, Return, Outcomes
<1>3. CASE SubmitPush(r)
  <2>1. metrics' \in Counters
    BY <1>3, CountType DEF SubmitPush
  <2> QED  BY <1>3, <2>1 DEF SubmitStep, SubmitPush, ClientPlaces
<1>4. CASE SubmitNotify(r)
  <2>1. wpc' \in [Workers -> WorkerPlaces]
    BY <1>4, NotifyOneType DEF SubmitNotify
  <2> QED  BY <1>4, <2>1 DEF SubmitStep, SubmitNotify, ClientPlaces
<1>5. CASE SubmitWait(r)
  BY <1>5, ZenonT(60) DEF SubmitStep, SubmitWait, FutureReady, Return, ClientPlaces
<1>6. CASE SubmitCancel(r)
  <2>1. metrics' \in Counters
    BY <1>6, CountType DEF SubmitCancel
  <2> QED  BY <1>6, <2>1 DEF SubmitStep, SubmitCancel, Return, ClientPlaces, Outcomes
<1> QED  BY <1>1, <1>2, <1>3, <1>4, <1>5, <1>6 DEF SubmitStep

LEMMA TypeCollect ==
    ASSUME TypeOK, NEW w \in Workers, CollectStep(w)
    PROVE  TypeOK'
<1> USE DEF TypeOK, clientVars, flagVars, execVars, Goto
<1>1. CASE PopNextPending(w)
  <2>1. queue # <<>> => Head(queue) \in Requests /\ Tail(queue) \in Seq(Requests)
    BY FrontType
  <2>2. queue' \in Seq(Requests)
    BY <1>1, <2>1 DEF PopNextPending
  <2>6. batch' \in [Workers -> SUBSET Requests]
    BY <1>1, <2>1, SMTT(60) DEF PopNextPending
  <2>3. todo' \in [Workers -> SUBSET Requests]
    <3>1. todo' = todo \/ \E S \in SUBSET Requests : todo' = [todo EXCEPT ![w] = S]
      BY <1>1, <2>1 DEF PopNextPending, StartBatch
    <3> QED  BY <3>1
  <2>4. form' \in [Workers -> Forms]
    BY <1>1, PopFormType
  <2>5. wpc' \in [Workers -> WorkerPlaces]
    BY <1>1 DEF PopNextPending, WorkerPlaces, Forming
  <2> QED  BY <1>1, <2>2, <2>3, <2>4, <2>5, <2>6 DEF CollectStep, PopNextPending
<1>2. CASE PopBlock(w)
  BY <1>2 DEF CollectStep, PopBlock, WorkerPlaces, batchVars
<1>3. CASE FormBatch(w)
  <2>1. form' \in [Workers -> Forms]
    BY <1>3, FormBatchType
  <2>2. todo' \in [Workers -> SUBSET Requests]
    BY <1>3 DEF FormBatch, FormReturn, StartBatch
  <2> QED  BY <1>3, <2>1, <2>2 DEF CollectStep, FormBatch, WorkerPlaces, Forming
<1>4. CASE FormScan(w)
  <2> DEFINE i == form[w].iterator
  <2>1. i \in 1 .. Len(queue) /\ queue[i] \in Requests
    BY <1>4, FormScanType
  <2>2. RemoveAt(queue, i) \in Seq(Requests)
    BY <2>1, RemoveAtType
  <2>3. form' \in [Workers -> Forms]
    BY <1>4, FormScanType
  <2>4. reply' \in [Workers -> Replies \cup {NoReply}]
    BY <1>4, <2>1, ReplyType DEF FormScan, Outcomes
  <2>5. queue' \in Seq(Requests) /\ batch' \in [Workers -> SUBSET Requests]
    BY <1>4, <2>1, <2>2, SMTT(60) DEF FormScan
  <2> QED
    BY <1>4, <2>3, <2>4, <2>5 DEF CollectStep, FormScan, WorkerPlaces, Forming
<1>5. CASE FormScanEnd(w)
  <2>1. form' \in [Workers -> Forms]
    BY <1>5, FormType DEF FormScanEnd, FormReturn
  <2>2. todo' \in [Workers -> SUBSET Requests]
    BY <1>5 DEF FormScanEnd, FormReturn, StartBatch
  <2> QED  BY <1>5, <2>1, <2>2 DEF CollectStep, FormScanEnd, WorkerPlaces, Forming
<1>6. CASE FormWake(w)
  BY <1>6 DEF CollectStep, FormWake, WorkerPlaces, Forming, batchVars
<1>7. CASE ExpiredNotify(w)
  <2>1. [wpc EXCEPT ![w] = "rescan"] \in [Workers -> WorkerPlaces]
    BY DEF WorkerPlaces, Forming
  <2>2. wpc' \in [Workers -> WorkerPlaces]
    BY <1>7, <2>1, NotifyOneType DEF ExpiredNotify
  <2>3. metrics' \in Counters
    BY <1>7, CountType DEF ExpiredNotify
  <2> QED  BY <1>7, <2>2, <2>3 DEF CollectStep, ExpiredNotify, batchVars
<1>8. CASE FormRescan(w)
  <2>1. form' \in [Workers -> Forms]
    BY <1>8, FormRescanType
  <2> QED  BY <1>8, <2>1 DEF CollectStep, FormRescan, WorkerPlaces, Forming
<1>9. CASE FormJoined(w)
  <2> DEFINE next == IF ShouldDispatchBatchSize(form[w].merged, form[w].delayed)
                     THEN "late" ELSE "form"
  <2>1. [wpc EXCEPT ![w] = next] \in [Workers -> WorkerPlaces]
    BY DEF WorkerPlaces, Forming
  <2>2. wpc' \in [Workers -> WorkerPlaces]
    BY <1>9, <2>1, NotifyOneType DEF FormJoined
  <2>3. todo' \in [Workers -> SUBSET Requests]
    BY <1>9 DEF FormJoined, FormReturn, StartBatch
  <2>4. form' \in [Workers -> Forms]
    BY <1>9, FormType DEF FormJoined, FormReturn
  <2> QED  BY <1>9, <2>2, <2>3, <2>4 DEF CollectStep, FormJoined
<1> QED  BY <1>1, <1>2, <1>3, <1>4, <1>5, <1>6, <1>7, <1>8, <1>9 DEF CollectStep

LEMMA TypeProcess ==
    ASSUME TypeOK, NEW w \in Workers, ProcessStep(w)
    PROVE  TypeOK'
<1> USE DEF TypeOK, queueVars, clientVars, execVars, Goto
<1>1. CASE FulfillCheck(w)
  <2>1. reply' \in [Workers -> Replies \cup {NoReply}]
    BY <1>1, ZenonT(60) DEF FulfillCheck, Replies
  <2> QED  BY <1>1, <2>1 DEF ProcessStep, FulfillCheck
<1>2. CASE FulfillSet(w)
  <2>1. reply[w].res \in Outcomes
    BY <1>2 DEF FulfillSet, Replies
  <2> QED  BY <1>2, <2>1 DEF ProcessStep, FulfillSet
<1>3. CASE LateNext(w)
  <2>1. metrics' \in Counters
    BY <1>3, CountType DEF LateNext, TimeOut
  <2>2. reply' \in [Workers -> Replies \cup {NoReply}]
    BY <1>3, ReplyType DEF LateNext, TimeOut, Fulfill, Outcomes
  <2> QED  BY <1>3, <2>1, <2>2, ZenonT(60) DEF ProcessStep, LateNext
<1>4. CASE ActivePass(w)
  BY <1>4 DEF ProcessStep, ActivePass, Active, AfterActive, WorkerPlaces
<1>5. CASE FailNext(w)
  <2>1. reply' \in [Workers -> Replies \cup {NoReply}]
    BY <1>5, ReplyType DEF FailNext, Fulfill, Outcomes
  <2> QED  BY <1>5, <2>1, ZenonT(60) DEF ProcessStep, FailNext
<1>6. CASE ProcessSingle(w)
  <2>1. metrics' \in Counters
    BY <1>6, CountType DEF ProcessSingle, TimeOut
  <2>2. reply' \in [Workers -> Replies \cup {NoReply}]
    BY <1>6, ReplyType DEF ProcessSingle, TimeOut, Fulfill, Outcomes
  <2> QED  BY <1>6, <2>1, <2>2 DEF ProcessStep, ProcessSingle, WorkerPlaces
<1>7. CASE Select(w)
  BY <1>7 DEF ProcessStep, Select, WorkerPlaces
<1>8. CASE RunInference(w)
  <2>1. inflight' \in [Executors -> Nat]
    <3>1. inflight' = [inflight EXCEPT ![exec[w]] = IF @ > 0 THEN @ - 1 ELSE @]
      BY <1>8 DEF RunInference
    <3>2. ASSUME NEW e \in Executors PROVE inflight'[e] \in Nat
      BY <3>1
    <3> QED  BY <3>1, <3>2
  <2> QED  BY <1>8, <2>1 DEF ProcessStep, RunInference, WorkerPlaces
<1>9. CASE ResultNext(w)
  <2>1. metrics' \in Counters
    BY <1>9, CountType DEF ResultNext, TimeOut
  <2>2. reply' \in [Workers -> Replies \cup {NoReply}]
    BY <1>9, ResultReplyType
  <2> QED  BY <1>9, <2>1, <2>2, ZenonT(60) DEF ProcessStep, ResultNext
<1>10. CASE BatchDone(w)
  BY <1>10 DEF ProcessStep, BatchDone, WorkerPlaces
<1> QED  BY <1>1, <1>2, <1>3, <1>4, <1>5, <1>6, <1>7, <1>8, <1>9, <1>10 DEF ProcessStep

LEMMA TypeRetire ==
    ASSUME TypeOK, RetireStep
    PROVE  TypeOK'
<1> USE DEF TypeOK, clientVars, batchVars, execVars
<1>1. draining' \in BOOLEAN
  BY Zenon DEF RetireStep, StopAccepting, BeginDrain, DrainNotify, RejectQueuedRequests
<1>2. CASE StopAccepting \/ DrainNotify
  BY <1>1, <1>2, NotifyAllType DEF RetireStep, StopAccepting, DrainNotify
<1>3. CASE BeginDrain
  BY <1>1, <1>3 DEF RetireStep, BeginDrain
<1>4. CASE RejectQueuedRequests
  BY <1>1, <1>4 DEF RetireStep, RejectQueuedRequests, Outcomes
<1> QED  BY <1>2, <1>3, <1>4 DEF RetireStep

LEMMA TypeStep == TypeOK /\ [Next]_vars => TypeOK'
<1> SUFFICES ASSUME TypeOK, [Next]_vars PROVE TypeOK'
  OBVIOUS
<1>1. CASE \E r \in Requests : SubmitStep(r)
  BY <1>1, TypeSubmit
<1>2. CASE \E r \in Requests : Expire(r)
  BY <1>2 DEF Expire, TypeOK, queueVars, clientVars, batchVars, execVars
<1>3. CASE \E w \in Workers : CollectStep(w)
  BY <1>3, TypeCollect
<1>4. CASE \E w \in Workers : ProcessStep(w)
  BY <1>4, TypeProcess
<1>5. CASE \E w \in Workers : SpuriousWake(w)
  BY <1>5 DEF SpuriousWake, Goto, TypeOK, WorkerPlaces, queueVars, clientVars, flagVars,
              batchVars, execVars
<1>6. CASE \E w \in Workers : FormationExpire(w)
  <2>1. PICK w \in Workers : FormationExpire(w)
    BY <1>6
  <2>2. form \in [Workers -> Forms]
    BY DEF TypeOK
  <2>3. [form[w] EXCEPT !.delayed = TRUE] \in Forms
    BY <2>2, FormFlags
  <2>4. form' \in [Workers -> Forms]
    BY <2>1, <2>2, <2>3, FormUpdate DEF FormationExpire
  <2> QED
    BY <2>1, <2>4 DEF FormationExpire, TypeOK, queueVars, clientVars, flagVars, execVars
<1>7. CASE RetireStep
  BY <1>7, TypeRetire
<1>8. CASE UNCHANGED vars
  BY <1>8 DEF vars, TypeOK, queueVars, clientVars, flagVars, batchVars, execVars
<1> QED  BY <1>1, <1>2, <1>3, <1>4, <1>5, <1>6, <1>7, <1>8 DEF Next

\* Every reachable state of the scheduler is well typed: in particular no submitter is
\* handed the value of a promise nobody has set, and no executor's load drops below 0.
THEOREM TypeCorrect == Spec => []TypeOK
<1>1. Init => TypeOK
  BY TypeInit
<1>2. TypeOK /\ [Next]_vars => TypeOK'
  BY TypeStep
<1> QED  BY <1>1, <1>2, PTL DEF Spec

-----------------------------------------------------------------------------
(* The mutex, the bound of the queue and the end of the workers.           *)

\* Whoever is in the middle of a critical section owns queue_mutex_.
MutexInv ==
    /\ \A r \in Requests : cpc[r] = "push" => owner = r
    /\ \A w \in Workers : wpc[w] \in {"popBlock", "scan"} => owner = w

\* Between the test of the bound and the push there is still room.
RoomInv ==
    /\ Len(queue) <= MaxQueueSize
    /\ \A r \in Requests : cpc[r] = "push" => Len(queue) < MaxQueueSize

\* A worker leaves only after draining_ was set, and from then on nothing is pushed.
ExitInv ==
    \A w \in Workers : wpc[w] = "exited" =>
        draining /\ queue = <<>> /\ \A r \in Requests : cpc[r] # "push"

QueueInv == MutexInv /\ RoomInv /\ ExitInv

\* A notification moves workers to "pop" and "form" and nowhere else.
LEMMA NotifyOneMoves ==
    ASSUME NEW pcs \in [Workers -> WorkerPlaces], NEW woken \in NotifyOne(pcs), NEW v \in Workers
    PROVE  woken[v] = pcs[v] \/ (v \in Waiters /\ woken[v] \in {"pop", "form"})
BY DEF NotifyOne, Awake, Waiters

LEMMA NotifyAllMoves ==
    ASSUME NEW v \in Workers
    PROVE  NotifyAll[v] = wpc[v] \/ (v \in Waiters /\ NotifyAll[v] \in {"pop", "form"})
BY DEF NotifyAll, Awake, Waiters

\* A step that leaves the queue, the mutex, the flag and the submitters alone, and
\* moves workers only between places outside of the critical sections.
LEMMA QueueFrame ==
    ASSUME QueueInv, UNCHANGED <<queue, owner, cpc>>, draining => draining',
           \A v \in Workers : wpc'[v] = wpc[v] \/ wpc'[v] \notin {"popBlock", "scan", "exited"}
    PROVE  QueueInv'
BY DEF QueueInv, MutexInv, RoomInv, ExitInv

LEMMA QueueInit == Init => QueueInv
BY LimitsAssumption DEF Init, QueueInv, MutexInv, RoomInv, ExitInv

LEMMA QueueSubmit ==
    ASSUME TypeOK, QueueInv, NEW r \in Requests, SubmitStep(r)
    PROVE  QueueInv'
<1> USE DEF QueueInv
<1>1. CASE Submit(r) \/ SubmitWait(r) \/ SubmitCancel(r)
  BY <1>1 DEF SubmitStep, Submit, SubmitWait, SubmitCancel, Return, MutexInv, RoomInv, ExitInv, TypeOK
<1>2. CASE SubmitLock(r)
  <2>1. MutexInv'
    BY <1>2, ThreadsAssumption DEF SubmitLock, Return, MutexInv, TypeOK, NoOne
  <2>2. RoomInv'
    BY <1>2, LimitsAssumption DEF SubmitLock, QueueFull, Return, RoomInv, TypeOK
  <2>3. ExitInv'
    BY <1>2 DEF SubmitStep, SubmitLock, SeesDraining, Return, ExitInv, TypeOK
  <2> QED  BY <2>1, <2>2, <2>3
<1>3. CASE SubmitPush(r)
  <2>1. owner = r /\ \A s \in Requests : cpc[s] = "push" => s = r
    BY <1>3 DEF SubmitPush, MutexInv
  <2>2. MutexInv'
    BY <1>3, <2>1, ThreadsAssumption DEF SubmitPush, MutexInv, TypeOK
  <2>3. RoomInv'
    BY <1>3, <2>1, LimitsAssumption DEF SubmitPush, RoomInv, TypeOK
  <2>4. ExitInv'
    BY <1>3 DEF SubmitPush, ExitInv
  <2> QED  BY <2>2, <2>3, <2>4
<1>4. CASE SubmitNotify(r)
  <2>1. \A v \in Workers : wpc'[v] = wpc[v] \/ wpc'[v] \in {"pop", "form"}
    BY <1>4, NotifyOneMoves DEF SubmitNotify, TypeOK
  <2> QED
    BY <1>4, <2>1 DEF SubmitStep, SubmitNotify, MutexInv, RoomInv, ExitInv, TypeOK
<1> QED  BY <1>1, <1>2, <1>3, <1>4 DEF SubmitStep

LEMMA QueueCollect ==
    ASSUME TypeOK, QueueInv, NEW w \in Workers, CollectStep(w)
    PROVE  QueueInv'
<1> USE DEF QueueInv
<1>0. UNCHANGED <<draining, cpc>>
  BY DEF CollectStep, clientVars
<1>1. CASE PopNextPending(w)
  <2>1. \A r \in Requests : cpc[r] # "push"
    BY <1>1, ThreadsAssumption DEF PopNextPending, MutexInv, NoOne
  <2>2. \A v \in Workers : wpc[v] \notin {"popBlock", "scan"}
    BY <1>1, ThreadsAssumption DEF PopNextPending, MutexInv, NoOne
  <2>3. MutexInv'
    BY <1>0, <1>1, <2>1, <2>2 DEF PopNextPending, Goto, MutexInv, TypeOK
  <2>4. Len(queue') <= Len(queue)
    BY <1>1, FrontType DEF PopNextPending, TypeOK
  <2>5. RoomInv'
    BY <1>0, <2>1, <2>4, LimitsAssumption DEF RoomInv, PopNextPending, TypeOK
  <2>6. ExitInv'
    BY <1>0, <1>1, <2>1 DEF PopNextPending, MayExit, Goto, ExitInv, TypeOK
  <2> QED  BY <2>3, <2>5, <2>6
<1>2. CASE PopBlock(w)
  <2>1. \A r \in Requests : cpc[r] # "push"
    BY <1>2, ThreadsAssumption DEF PopBlock, MutexInv
  <2> QED
    BY <1>0, <1>2, <2>1 DEF PopBlock, Goto, MutexInv, RoomInv, ExitInv, TypeOK
<1>3. CASE FormBatch(w)
  <2>1. owner' = w \/ owner' = owner
    BY <1>3 DEF FormBatch
  <2>2. MutexInv'
    BY <1>0, <1>3, ThreadsAssumption DEF FormBatch, Goto, MutexInv, TypeOK, NoOne
  <2> QED
    BY <1>0, <1>3, <2>2 DEF FormBatch, Goto, RoomInv, ExitInv, TypeOK
<1>4. CASE FormScan(w)
  <2>1. owner = w /\ \A r \in Requests : cpc[r] # "push"
    BY <1>4, ThreadsAssumption DEF FormScan, MutexInv
  <2>2. form[w].iterator \in 1 .. Len(queue)
    BY <1>4, FormScanType
  <2>3. Len(queue') <= Len(queue)
    BY <1>4, <2>2, RemoveAtType DEF FormScan, TypeOK
  <2>4. queue # <<>>
    BY <2>2
  <2>5. MutexInv'
    BY <1>0, <1>4, <2>1 DEF FormScan, Goto, MutexInv, TypeOK
  <2>6. RoomInv'
    BY <1>0, <2>1, <2>3, LimitsAssumption DEF RoomInv, TypeOK
  <2>7. ExitInv'
    BY <1>0, <1>4, <2>1, <2>4 DEF FormScan, Goto, ExitInv, TypeOK
  <2> QED  BY <2>5, <2>6, <2>7
<1>5. CASE FormScanEnd(w)
  <2>1. owner = w /\ \A r \in Requests : cpc[r] # "push"
    BY <1>5, ThreadsAssumption DEF FormScanEnd, MutexInv
  <2> QED
    BY <1>0, <1>5, <2>1, SMTT(60) DEF FormScanEnd, Goto, MutexInv, RoomInv, ExitInv, TypeOK
<1>6. CASE FormWake(w)
  BY <1>0, <1>6, QueueFrame DEF FormWake, Goto, TypeOK
<1>7. CASE ExpiredNotify(w)
  <2>1. [wpc EXCEPT ![w] = "rescan"] \in [Workers -> WorkerPlaces]
    BY DEF WorkerPlaces, Forming, TypeOK
  <2>2. \A v \in Workers : wpc'[v] = wpc[v] \/ wpc'[v] \in {"pop", "form", "rescan"}
    BY <1>7, <2>1, NotifyOneMoves, ZenonT(60) DEF ExpiredNotify, TypeOK
  <2> QED  BY <1>0, <1>7, <2>2, QueueFrame DEF ExpiredNotify
<1>8. CASE FormRescan(w)
  <2>1. MutexInv'
    BY <1>0, <1>8, ThreadsAssumption DEF FormRescan, Goto, MutexInv, TypeOK, NoOne
  <2> QED
    BY <1>0, <1>8, <2>1 DEF FormRescan, Goto, RoomInv, ExitInv, TypeOK
<1>9. CASE FormJoined(w)
  <2> DEFINE next == IF ShouldDispatchBatchSize(form[w].merged, form[w].delayed)
                     THEN "late" ELSE "form"
  <2>1. [wpc EXCEPT ![w] = next] \in [Workers -> WorkerPlaces]
    BY DEF WorkerPlaces, Forming, TypeOK
  <2>2. \A v \in Workers : wpc'[v] = wpc[v] \/ wpc'[v] \in {"pop", "form", "late"}
    <3>1. wpc' \in NotifyOne([wpc EXCEPT ![w] = next])
      BY <1>9 DEF FormJoined
    <3>2. wpc \in [Workers -> WorkerPlaces] /\ next \in {"form", "late"}
      BY DEF TypeOK
    <3> QED  BY <2>1, <3>1, <3>2, NotifyOneMoves, ZenonT(60)
  <2> QED  BY <1>0, <1>9, <2>2, QueueFrame DEF FormJoined
<1> QED  BY <1>1, <1>2, <1>3, <1>4, <1>5, <1>6, <1>7, <1>8, <1>9 DEF CollectStep

LEMMA QueueProcess ==
    ASSUME TypeOK, QueueInv, NEW w \in Workers, ProcessStep(w)
    PROVE  QueueInv'
<1>1. UNCHANGED <<queue, draining, owner, cpc>>
  BY DEF ProcessStep, queueVars, clientVars
<1>2. \A v \in Workers : wpc'[v] = wpc[v] \/ wpc'[v] \notin {"popBlock", "scan", "exited"}
  BY DEF ProcessStep, FulfillCheck, FulfillSet, LateNext, ActivePass, AfterActive, FailNext,
         ProcessSingle, Select, RunInference, ResultNext, BatchDone, Goto, TypeOK
<1> QED  BY <1>1, <1>2, QueueFrame

LEMMA QueueRetire ==
    ASSUME TypeOK, QueueInv, RetireStep
    PROVE  QueueInv'
<1>1. UNCHANGED <<owner, cpc>>
  BY DEF RetireStep, clientVars
<1>2. draining => draining'
  BY Zenon DEF RetireStep, StopAccepting, BeginDrain, DrainNotify, RejectQueuedRequests
<1>3. \A v \in Workers : wpc'[v] = wpc[v] \/ wpc'[v] \in {"pop", "form"}
  BY NotifyAllMoves
  DEF RetireStep, StopAccepting, BeginDrain, DrainNotify, RejectQueuedRequests
<1>4. CASE StopAccepting \/ BeginDrain \/ DrainNotify
  BY <1>1, <1>2, <1>3, <1>4, QueueFrame DEF StopAccepting, BeginDrain, DrainNotify
<1>5. CASE RejectQueuedRequests
  <2>1. queue' = <<>> /\ UNCHANGED <<draining, wpc>>
    BY <1>5 DEF RejectQueuedRequests
  <2>2. \A r \in Requests : cpc[r] # "push"
    BY <1>5, WorkersAssumption DEF RejectQueuedRequests, QueueInv, ExitInv
  <2> QED
    BY <1>1, <2>1, <2>2, LimitsAssumption DEF QueueInv, MutexInv, RoomInv, ExitInv
<1> QED  BY <1>4, <1>5 DEF RetireStep

LEMMA QueueStep == TypeOK /\ QueueInv /\ [Next]_vars => QueueInv'
<1> SUFFICES ASSUME TypeOK, QueueInv, [Next]_vars PROVE QueueInv'
  OBVIOUS
<1>1. CASE \E r \in Requests : SubmitStep(r)
  BY <1>1, QueueSubmit
<1>2. CASE \E r \in Requests : Expire(r)
  BY <1>2, QueueFrame DEF Expire, queueVars, clientVars
<1>3. CASE \E w \in Workers : CollectStep(w)
  BY <1>3, QueueCollect
<1>4. CASE \E w \in Workers : ProcessStep(w)
  BY <1>4, QueueProcess
<1>5. CASE \E w \in Workers : SpuriousWake(w)
  BY <1>5, QueueFrame DEF SpuriousWake, Goto, TypeOK, queueVars, clientVars
<1>6. CASE \E w \in Workers : FormationExpire(w)
  BY <1>6, QueueFrame DEF FormationExpire, queueVars, clientVars
<1>7. CASE RetireStep
  BY <1>7, QueueRetire
<1>8. CASE UNCHANGED vars
  BY <1>8, QueueFrame DEF vars, queueVars, clientVars
<1> QED  BY <1>1, <1>2, <1>3, <1>4, <1>5, <1>6, <1>7, <1>8 DEF Next

LEMMA QueueInvariant == Spec => []QueueInv
<1>1. Init => QueueInv
  BY QueueInit
<1>2. TypeOK /\ QueueInv /\ [Next]_vars => QueueInv'
  BY QueueStep
<1> QED  BY <1>1, <1>2, TypeCorrect, PTL DEF Spec

\* Admission: the queue never exceeds max_queue_size, although submit() reads
\* draining_ and the length in one step and pushes in another.
THEOREM QueueIsBounded == Spec => []QueueBounded
<1>1. QueueInv => QueueBounded
  BY DEF QueueInv, RoomInv, QueueBounded
<1> QED  BY <1>1, QueueInvariant, PTL

\* Drain: once a worker has left workerLoop, the queue is empty and stays empty.
THEOREM ExitedWorkersLeaveNothing == Spec => []ExitedMeansEmpty
<1>1. QueueInv => ExitedMeansEmpty
  BY DEF QueueInv, ExitInv, ExitedMeansEmpty
<1> QED  BY <1>1, QueueInvariant, PTL

-----------------------------------------------------------------------------
(* Who answers a request.                                                  *)

\* The places where a worker goes through its batch answering, and those where it
\* may still be inside of fulfillResult.
Answering == {"late", "fail", "results"}
Replying == Answering \cup {"pop", "notifyExpired", "rescan"}

\* A member of a batch that nobody has begun to answer.
Open(w, r) ==
    /\ r \in batch[w]
    /\ \/ wpc[w] \notin Answering
       \/ r \in todo[w]
       \/ wpc[w] = "late" /\ ~due[r]

\* The queue holds a request once, a worker only what is not queued, and no two workers
\* the same; before the push a request is nowhere.
CustodyInv ==
    /\ \A i, j \in 1 .. Len(queue) : queue[i] = queue[j] => i = j
    /\ \A r \in Requests, w \in Workers : InQueue(r) => ~Holds(w, r)
    /\ \A r \in Requests, w, v \in Workers : Holds(w, r) /\ Holds(v, r) => w = v
    /\ \A r \in Requests : cpc[r] \in {"idle", "lock", "push"} =>
         ~InQueue(r) /\ \A w \in Workers : ~Holds(w, r)

\* What is left to answer in a batch is part of it; the first pass is over late ones.
TodoInv ==
    \A w \in Workers :
        /\ todo[w] \subseteq batch[w]
        /\ todo[w] # {} => wpc[w] \in Answering
        /\ wpc[w] = "late" => \A r \in todo[w] : due[r]

\* A promise is unset as long as somebody is still going to set it.
PromiseInv ==
    /\ \A r \in Requests : promise[r] # SetTwice
    /\ \A r \in Requests : cpc[r] \in {"idle", "lock", "push"} => promise[r] = Unset
    /\ \A r \in Requests : InQueue(r) => promise[r] = Unset
    /\ \A w \in Workers, r \in Requests : reply[w].req = r => promise[r] = Unset
    /\ \A w \in Workers, r \in Requests : Open(w, r) => promise[r] = Unset /\ reply[w].req # r

AnswerInv == CustodyInv /\ TodoInv /\ PromiseInv

\* What a worker has in its hands at each place: nothing between batches, one request
\* in processSingle, no pending answer where it would be overwritten.
PlaceInv ==
    \A w \in Workers :
        /\ wpc[w] \in {"pop", "popBlock", "popWait", "exited"} => batch[w] = {}
        /\ wpc[w] = "single" => \A r, s \in batch[w] : r = s
        /\ reply[w] # NoReply => wpc[w] \in Replying

\* Only a submitter that has returned cancels its request, and a request a batch is
\* done with has an answer or nobody who waits for one.
DoneInv ==
    /\ \A r \in Requests : cancelled[r] => cpc[r] = "returned"
    /\ \A w \in Workers : wpc[w] \in {"fail", "results"} =>
         \A r \in batch[w] : r \in todo[w] \/ reply[w].req = r \/ promise[r] # Unset
                             \/ cpc[r] = "returned"

DeliveryInv == PlaceInv /\ DoneInv /\ NoLostRequest

LEMMA RemoveAtMembers ==
    ASSUME NEW S, NEW q \in Seq(S), NEW i \in 1 .. Len(q)
    PROVE  /\ \A j \in 1 .. Len(RemoveAt(q, i)) :
                \E k \in 1 .. Len(q) : k # i /\ RemoveAt(q, i)[j] = q[k]
           /\ \A k \in 1 .. Len(q) : k # i =>
                \E j \in 1 .. Len(RemoveAt(q, i)) : RemoveAt(q, i)[j] = q[k]
<1> DEFINE p == RemoveAt(q, i)
<1>1. Len(p) = Len(q) - 1 /\ \A j \in 1 .. Len(q) - 1 : p[j] = IF j < i THEN q[j] ELSE q[j + 1]
  BY RemoveAtType DEF RemoveAt
<1>2. ASSUME NEW j \in 1 .. Len(p) PROVE \E k \in 1 .. Len(q) : k # i /\ p[j] = q[k]
  <2>1. CASE j < i  BY <1>1, <2>1
  <2>2. CASE ~(j < i)
    <3>1. j + 1 \in 1 .. Len(q) /\ j + 1 # i /\ p[j] = q[j + 1]  BY <1>1, <2>2
    <3> QED  BY <3>1
  <2> QED  BY <2>1, <2>2
<1>3. ASSUME NEW k \in 1 .. Len(q), k # i PROVE \E j \in 1 .. Len(p) : p[j] = q[k]
  <2>1. CASE k < i  BY <1>1, <2>1
  <2>2. CASE ~(k < i)
    <3>1. k - 1 \in 1 .. Len(p) /\ ~(k - 1 < i) /\ p[k - 1] = q[k]  BY <1>1, <1>3, <2>2
    <3> QED  BY <3>1
  <2> QED  BY <2>1, <2>2
<1> QED  BY <1>2, <1>3

LEMMA RemoveAtDistinct ==
    ASSUME NEW S, NEW q \in Seq(S), NEW i \in 1 .. Len(q),
           \A j, k \in 1 .. Len(q) : q[j] = q[k] => j = k
    PROVE  \A j, k \in 1 .. Len(RemoveAt(q, i)) : RemoveAt(q, i)[j] = RemoveAt(q, i)[k] => j = k
<1> DEFINE p == RemoveAt(q, i)
<1>1. Len(p) = Len(q) - 1 /\ \A j \in 1 .. Len(q) - 1 : p[j] = IF j < i THEN q[j] ELSE q[j + 1]
  BY RemoveAtType DEF RemoveAt
<1> QED  BY <1>1

LEMMA TailIsRemoveAt ==
    ASSUME NEW S, NEW q \in Seq(S), q # <<>>
    PROVE  Tail(q) = RemoveAt(q, 1) /\ Head(q) = q[1] /\ 1 \in 1 .. Len(q)
<1>1. Tail(q) \in Seq(S) /\ RemoveAt(q, 1) \in Seq(S)
  BY RemoveAtType
<1>2. Len(Tail(q)) = Len(q) - 1 /\ Len(RemoveAt(q, 1)) = Len(q) - 1
  BY RemoveAtType
<1>3. ASSUME NEW j \in 1 .. Len(Tail(q)) PROVE Tail(q)[j] = RemoveAt(q, 1)[j]
  BY <1>2 DEF RemoveAt
<1>4. Tail(q) = RemoveAt(q, 1)
  BY <1>1, <1>2, <1>3, SeqEqual
<1> QED  BY <1>4

\* A worker takes a request out of the queue: it was there once and is there no more.
LEMMA TakenOut ==
    ASSUME TypeOK, CustodyInv, NEW i \in 1 .. Len(queue), queue' = RemoveAt(queue, i)
    PROVE  /\ \A j, k \in 1 .. Len(queue') : queue'[j] = queue'[k] => j = k
           /\ \A s \in Requests : InQueue(s)' <=> InQueue(s) /\ s # queue[i]
<1>1. queue \in Seq(Requests) /\ \A j, k \in 1 .. Len(queue) : queue[j] = queue[k] => j = k
  BY DEF TypeOK, CustodyInv
<1>2. \A j, k \in 1 .. Len(queue') : queue'[j] = queue'[k] => j = k
  BY <1>1, RemoveAtDistinct
<1>3. /\ \A j \in 1 .. Len(queue') : \E k \in 1 .. Len(queue) : k # i /\ queue'[j] = queue[k]
      /\ \A k \in 1 .. Len(queue) : k # i => \E j \in 1 .. Len(queue') : queue'[j] = queue[k]
  BY <1>1, RemoveAtMembers, ZenonT(60)
<1>4. \A s \in Requests : InQueue(s)' <=> InQueue(s) /\ s # queue[i]
  BY <1>1, <1>3, SMTT(60) DEF InQueue
<1> QED  BY <1>2, <1>4

\* Steps that neither move nor answer a request.
LEMMA AnswerFrame ==
    ASSUME AnswerInv, UNCHANGED <<queue, batch, todo, reply, promise>>,
           \A r \in Requests : cpc'[r] \in {"idle", "lock", "push"} => cpc[r] \in {"idle", "lock", "push"},
           \A r \in Requests : due[r] => due'[r],
           \A w \in Workers : wpc'[w] = wpc[w] \/ (wpc[w] \notin Answering /\ wpc'[w] \notin Answering),
           \A w \in Workers : todo[w] \subseteq Requests
    PROVE  AnswerInv'
<1>1. \A r \in Requests : InQueue(r)' <=> InQueue(r)
  BY DEF InQueue
<1>2. \A r \in Requests, w \in Workers : Holds(w, r)' <=> Holds(w, r)
  BY DEF Holds
<1>3. CustodyInv'
  BY <1>1, <1>2 DEF AnswerInv, CustodyInv
<1>4. TodoInv'
  BY DEF AnswerInv, TodoInv, Answering
<1>5. \A r \in Requests, w \in Workers : Open(w, r)' => Open(w, r)
  BY DEF Open, Answering
<1>6. PromiseInv'
  BY <1>1, <1>5 DEF AnswerInv, PromiseInv
<1> QED  BY <1>3, <1>4, <1>6 DEF AnswerInv

LEMMA AnswerInit == Init => AnswerInv
<1> SUFFICES ASSUME Init PROVE AnswerInv
  OBVIOUS
<1>1. /\ \A r \in Requests : ~InQueue(r)
      /\ \A r \in Requests, w \in Workers : ~Holds(w, r)
  BY ThreadsAssumption DEF Init, InQueue, Holds, NoReply, NoOne
<1>2. CustodyInv
  <2>1. \A i, j \in 1 .. Len(queue) : queue[i] = queue[j] => i = j
    BY DEF Init
  <2> QED  BY <1>1, <2>1 DEF CustodyInv
<1>3. TodoInv
  BY DEF Init, TodoInv
<1>4. \A r \in Requests, w \in Workers : ~Open(w, r)
  BY DEF Init, Open
<1>5. PromiseInv
  BY <1>1, <1>4 DEF Init, PromiseInv, Unset, SetTwice
<1> QED  BY <1>2, <1>3, <1>5 DEF AnswerInv

LEMMA AnswerSubmit ==
    ASSUME TypeOK, AnswerInv, NEW r \in Requests, SubmitStep(r)
    PROVE  AnswerInv'
<1>1. UNCHANGED <<due, promise, batch, todo, reply>>
  BY DEF SubmitStep, batchVars
<1>2. \A w \in Workers : todo[w] \subseteq Requests
  BY DEF TypeOK
<1>3. CASE Submit(r) \/ SubmitLock(r) \/ SubmitWait(r) \/ SubmitCancel(r)
  <2>1. UNCHANGED <<queue, wpc>>
    BY <1>3 DEF Submit, SubmitLock, SubmitWait, SubmitCancel
  <2>2. \A s \in Requests : cpc'[s] \in {"idle", "lock", "push"} => cpc[s] \in {"idle", "lock", "push"}
    BY <1>3 DEF Submit, SubmitLock, SubmitWait, SubmitCancel, Return, TypeOK
  <2> QED  BY <1>1, <1>2, <2>1, <2>2, AnswerFrame
<1>4. CASE SubmitNotify(r)
  <2>1. \A w \in Workers : wpc'[w] = wpc[w] \/ (wpc[w] \notin Answering /\ wpc'[w] \notin Answering)
    BY <1>4, NotifyOneMoves, ZenonT(60) DEF SubmitNotify, Waiters, Answering, TypeOK
  <2>2. \A s \in Requests : cpc'[s] \in {"idle", "lock", "push"} => cpc[s] \in {"idle", "lock", "push"}
    BY <1>4 DEF SubmitNotify, TypeOK
  <2>3. queue' = queue
    BY <1>4 DEF SubmitNotify
  <2> QED  BY <1>1, <1>2, <2>1, <2>2, <2>3, AnswerFrame
<1>5. CASE SubmitPush(r)
  <2>1. /\ ~InQueue(r) /\ promise[r] = Unset /\ \A w \in Workers : ~Holds(w, r)
        /\ queue \in Seq(Requests)
    BY <1>5 DEF SubmitPush, AnswerInv, CustodyInv, PromiseInv, TypeOK
  <2>2. queue' = Append(queue, r) /\ wpc' = wpc /\ cpc' = [cpc EXCEPT ![r] = "notify"]
    BY <1>5 DEF SubmitPush
  <2>3. \A s \in Requests : InQueue(s)' <=> InQueue(s) \/ s = r
    BY <2>1, <2>2 DEF InQueue
  <2>4. \A j, k \in 1 .. Len(queue') : queue'[j] = queue'[k] => j = k
    BY <2>1, <2>2 DEF InQueue, AnswerInv, CustodyInv
  <2>5. \A s \in Requests, w \in Workers : Holds(w, s)' <=> Holds(w, s)
    BY <1>1 DEF Holds
  <2>6. \A s \in Requests : cpc'[s] = IF s = r THEN "notify" ELSE cpc[s]
    BY <2>2 DEF TypeOK
  <2>7. CustodyInv'
    BY <2>1, <2>3, <2>4, <2>5, <2>6 DEF AnswerInv, CustodyInv
  <2>8. TodoInv'
    BY <1>1, <2>2 DEF AnswerInv, TodoInv
  <2>9. \A s \in Requests, w \in Workers : Open(w, s)' <=> Open(w, s)
    BY <1>1, <2>2 DEF Open
  <2>10. PromiseInv'
    BY <1>1, <2>1, <2>3, <2>6, <2>9 DEF AnswerInv, PromiseInv
  <2> QED  BY <2>7, <2>8, <2>10 DEF AnswerInv
<1> QED  BY <1>3, <1>4, <1>5 DEF SubmitStep

\* formBatch returns: every member is open, and the late ones are to be answered first.
LEMMA AnswerDispatch ==
    ASSUME TypeOK, AnswerInv, NEW w \in Workers, wpc[w] \notin Answering,
           UNCHANGED <<queue, batch, reply, promise, cpc, due>>,
           wpc'[w] = "late", StartBatch(w, batch[w]),
           \A v \in Workers \ {w} :
               wpc'[v] = wpc[v] \/ (wpc[v] \notin Answering /\ wpc'[v] \notin Answering)
    PROVE  AnswerInv'
<1>1. /\ todo'[w] = {r \in batch[w] : due[r]}
      /\ \A v \in Workers \ {w} : todo'[v] = todo[v]
  BY DEF StartBatch, TypeOK
<1>2. CustodyInv'
  BY DEF AnswerInv, CustodyInv, InQueue, Holds
<1>3. TodoInv'
  <2>1. ASSUME NEW v \in Workers
        PROVE  /\ todo'[v] \subseteq batch'[v]
               /\ todo'[v] # {} => wpc'[v] \in Answering
               /\ wpc'[v] = "late" => \A r \in todo'[v] : due'[r]
    <3>1. CASE v = w  BY <1>1, <3>1 DEF Answering
    <3>2. CASE v # w  BY <1>1, <3>2 DEF AnswerInv, TodoInv, Answering
    <3> QED  BY <3>1, <3>2
  <2> QED  BY <2>1 DEF TodoInv
<1>4. \A r \in Requests, v \in Workers : Open(v, r)' => Open(v, r)
  <2>1. TAKE r \in Requests, v \in Workers
  <2>2. CASE v = w  BY <2>2 DEF Open
  <2>3. CASE v # w  BY <1>1, <2>3 DEF Open, Answering
  <2> QED  BY <2>2, <2>3
<1>5. PromiseInv'
  BY <1>4 DEF AnswerInv, PromiseInv, InQueue
<1> QED  BY <1>2, <1>3, <1>5 DEF AnswerInv

LEMMA AnswerPop ==
    ASSUME TypeOK, AnswerInv, NEW w \in Workers, PopNextPending(w), CollectStep(w)
    PROVE  AnswerInv'
<1>1. UNCHANGED <<cpc, due, promise, reply>> /\ reply[w] = NoReply
  BY DEF CollectStep, PopNextPending, clientVars, flagVars
<1>2. CASE queue = <<>>
  <2>1. UNCHANGED <<queue, batch, todo>>
    BY <1>2 DEF PopNextPending
  <2>2. \A v \in Workers : wpc'[v] = wpc[v] \/ (wpc[v] \notin Answering /\ wpc'[v] \notin Answering)
    BY <1>2 DEF PopNextPending, Goto, Answering, TypeOK
  <2>3. \A v \in Workers : todo[v] \subseteq Requests
    BY DEF TypeOK
  <2> QED  BY <1>1, <2>1, <2>2, <2>3, AnswerFrame
<1>3. CASE queue # <<>> /\ MayExit
  BY <1>3 DEF MayExit
<1>4. CASE queue # <<>> /\ ~MayExit
  <2> DEFINE h == Head(queue)
  <2>1. /\ h \in Requests /\ InQueue(h)
        /\ \A j, k \in 1 .. Len(queue') : queue'[j] = queue'[k] => j = k
        /\ \A s \in Requests : InQueue(s)' <=> InQueue(s) /\ s # h
    <3>1. queue' = Tail(queue) /\ queue \in Seq(Requests)
      BY <1>4 DEF PopNextPending, TypeOK
    <3>2. queue' = RemoveAt(queue, 1) /\ h = queue[1] /\ 1 \in 1 .. Len(queue)
      BY <1>4, <3>1, TailIsRemoveAt
    <3>3. h \in Requests /\ InQueue(h)
      BY <3>1, <3>2 DEF InQueue
    <3> QED  BY <3>2, <3>3, TakenOut DEF AnswerInv
  <2>2. batch'[w] = {h} /\ \A v \in Workers \ {w} : batch'[v] = batch[v]
    BY <1>4 DEF PopNextPending, TypeOK
  <2>3. /\ \A v \in Workers : ~Holds(v, h)
        /\ promise[h] = Unset /\ cpc[h] \notin {"idle", "lock", "push"}
    BY <2>1 DEF AnswerInv, CustodyInv, PromiseInv
  <2>4. \A s \in Requests, v \in Workers : Holds(v, s)' => Holds(v, s) \/ (v = w /\ s = h)
    BY <1>1, <2>2 DEF Holds
  <2>5. CustodyInv'
    <3>1. \A s \in Requests, v \in Workers : InQueue(s)' => ~Holds(v, s)'
      BY <2>1, <2>4 DEF AnswerInv, CustodyInv
    <3>2. \A s \in Requests, v, u \in Workers : Holds(v, s)' /\ Holds(u, s)' => v = u
      BY <2>3, <2>4 DEF AnswerInv, CustodyInv
    <3>3. \A s \in Requests : cpc'[s] \in {"idle", "lock", "push"} =>
            ~InQueue(s)' /\ \A v \in Workers : ~Holds(v, s)'
      BY <1>1, <2>1, <2>3, <2>4 DEF AnswerInv, CustodyInv
    <3> QED  BY <2>1, <3>1, <3>2, <3>3 DEF CustodyInv
  <2>6. /\ \A v \in Workers \ {w} : todo'[v] = todo[v] /\ wpc'[v] = wpc[v]
        /\ wpc[w] = "pop"
        /\ \/ wpc'[w] = "form" /\ todo'[w] = todo[w]
           \/ wpc'[w] = "late" /\ todo'[w] = {r \in {h} : due[r]}
    BY <1>4 DEF PopNextPending, StartBatch, Goto, TypeOK
  <2>7. TodoInv'
    <3>1. ASSUME NEW v \in Workers
          PROVE  /\ todo'[v] \subseteq batch'[v]
                 /\ todo'[v] # {} => wpc'[v] \in Answering
                 /\ wpc'[v] = "late" => \A r \in todo'[v] : due'[r]
      <4>1. CASE v = w
        <5>1. todo[w] = {}
          BY <2>6 DEF AnswerInv, TodoInv, Answering
        <5> QED  BY <1>1, <2>2, <2>6, <4>1, <5>1 DEF Answering
      <4>2. CASE v # w  BY <1>1, <2>2, <2>6, <4>2 DEF AnswerInv, TodoInv
      <4> QED  BY <4>1, <4>2
    <3> QED  BY <3>1 DEF TodoInv
  <2>8. \A s \in Requests, v \in Workers : Open(v, s)' => Open(v, s) \/ (v = w /\ s = h)
    BY <1>1, <2>2, <2>6 DEF Open, Answering
  <2>9. reply[w].req # h
    BY <2>3 DEF Holds
  <2>10. PromiseInv'
    BY <1>1, <2>1, <2>3, <2>8, <2>9 DEF AnswerInv, PromiseInv
  <2> QED  BY <2>5, <2>7, <2>10 DEF AnswerInv
<1> QED  BY <1>2, <1>3, <1>4

LEMMA AnswerScan ==
    ASSUME TypeOK, AnswerInv, NEW w \in Workers, FormScan(w), CollectStep(w)
    PROVE  AnswerInv'
<1> DEFINE i == form[w].iterator
           r == queue[i]
<1>1. UNCHANGED <<cpc, due, promise, todo>> /\ wpc[w] = "scan"
  BY DEF CollectStep, FormScan, clientVars, flagVars
<1>2. i \in 1 .. Len(queue) /\ r \in Requests /\ InQueue(r)
  BY FormScanType DEF InQueue
<1>3. \A v \in Workers : wpc'[v] = wpc[v] \/ (wpc[v] \notin Answering /\ wpc'[v] \notin Answering)
  BY DEF FormScan, Goto, Answering, TypeOK
<1>4. \A v \in Workers : todo[v] \subseteq Requests
  BY DEF TypeOK
<1>5. CASE queue' = queue /\ UNCHANGED <<batch, reply>>
  BY <1>1, <1>3, <1>4, <1>5, AnswerFrame
<1>6. CASE /\ queue' = RemoveAt(queue, i)
           /\ \/ UNCHANGED <<batch, reply>>
              \/ batch' = [batch EXCEPT ![w] = @ \cup {r}] /\ reply' = reply
              \/ batch' = batch /\ reply' = [reply EXCEPT ![w] = ReplyTo(r, "timeout")]
  <2>1. /\ \A j, k \in 1 .. Len(queue') : queue'[j] = queue'[k] => j = k
        /\ \A s \in Requests : InQueue(s)' <=> InQueue(s) /\ s # r
    BY <1>2, <1>6, TakenOut DEF AnswerInv
  <2>2. /\ \A v \in Workers : ~Holds(v, r)
        /\ promise[r] = Unset /\ cpc[r] \notin {"idle", "lock", "push"}
    BY <1>2 DEF AnswerInv, CustodyInv, PromiseInv
  <2>3. \A s \in Requests, v \in Workers : Holds(v, s)' => Holds(v, s) \/ (v = w /\ s = r)
    BY <1>2, <1>6 DEF Holds, ReplyTo, TypeOK
  <2>4. CustodyInv'
    <3>1. \A s \in Requests, v \in Workers : InQueue(s)' => ~Holds(v, s)'
      BY <2>1, <2>3 DEF AnswerInv, CustodyInv
    <3>2. \A s \in Requests, v, u \in Workers : Holds(v, s)' /\ Holds(u, s)' => v = u
      BY <2>2, <2>3 DEF AnswerInv, CustodyInv
    <3>3. \A s \in Requests : cpc'[s] \in {"idle", "lock", "push"} =>
            ~InQueue(s)' /\ \A v \in Workers : ~Holds(v, s)'
      BY <1>1, <2>1, <2>2, <2>3 DEF AnswerInv, CustodyInv
    <3> QED  BY <2>1, <3>1, <3>2, <3>3 DEF CustodyInv
  <2>5. \A v \in Workers : batch[v] \subseteq batch'[v]
    BY <1>6 DEF TypeOK
  <2>6. TodoInv'
    BY <1>1, <1>3, <2>5 DEF AnswerInv, TodoInv, Answering
  <2>7. \A s \in Requests, v \in Workers : reply'[v].req = s => promise[s] = Unset
    <3>1. \A s \in Requests, v \in Workers : reply[v].req = s => promise[s] = Unset
      BY DEF AnswerInv, PromiseInv
    <3>2. \A v \in Workers : reply'[v] = reply[v] \/ reply'[v].req = r
      BY <1>6 DEF ReplyTo, TypeOK
    <3> QED  BY <2>2, <3>1, <3>2
  <2>8. \A s \in Requests, v \in Workers :
          Open(v, s)' => promise[s] = Unset /\ reply'[v].req # s
    <3>1. TAKE s \in Requests, v \in Workers
    <3>2. CASE v # w
      BY <1>1, <1>3, <1>6, <3>2 DEF Open, Answering, AnswerInv, PromiseInv, TypeOK
    <3>3. CASE v = w
      <4>1. s \in batch'[w] => s = r \/ s \in batch[w]
        BY <1>6 DEF TypeOK
      <4>2. s \in batch[w] => promise[s] = Unset /\ reply[w].req # s /\ s # r
        BY <1>1, <2>2 DEF Open, Holds, Answering, AnswerInv, PromiseInv
      <4>3. s \in batch'[w] => reply'[w].req # s
        BY <1>2, <1>6, <2>2, <4>1, <4>2 DEF Holds, ReplyTo, TypeOK
      <4> QED  BY <2>2, <3>3, <4>1, <4>2, <4>3 DEF Open
    <3> QED  BY <3>2, <3>3
  <2>9. PromiseInv'
    BY <1>1, <2>1, <2>7, <2>8 DEF AnswerInv, PromiseInv
  <2> QED  BY <2>4, <2>6, <2>9 DEF AnswerInv
<1> QED  BY <1>5, <1>6 DEF FormScan

LEMMA AnswerCollect ==
    ASSUME TypeOK, AnswerInv, NEW w \in Workers, CollectStep(w)
    PROVE  AnswerInv'
<1>1. UNCHANGED <<cpc, due, promise>> /\ \A v \in Workers : todo[v] \subseteq Requests
  BY DEF CollectStep, clientVars, flagVars, TypeOK
<1>2. CASE PopNextPending(w)
  BY <1>2, AnswerPop
<1>3. CASE FormScan(w)
  BY <1>3, AnswerScan
<1>4. CASE PopBlock(w) \/ FormWake(w) \/ FormRescan(w)
  <2>1. UNCHANGED <<queue, batch, todo, reply>>
    BY <1>4 DEF PopBlock, FormWake, FormRescan, batchVars
  <2>2. \A v \in Workers : wpc'[v] = wpc[v] \/ (wpc[v] \notin Answering /\ wpc'[v] \notin Answering)
    BY <1>4 DEF PopBlock, FormWake, FormRescan, Goto, Answering, TypeOK
  <2> QED  BY <1>1, <2>1, <2>2, AnswerFrame
<1>5. CASE FormBatch(w) \/ FormScanEnd(w)
  <2>1. UNCHANGED <<queue, batch, reply>> /\ wpc[w] \notin Answering
    BY <1>5 DEF FormBatch, FormScanEnd, Answering
  <2>2. \A v \in Workers \ {w} : wpc'[v] = wpc[v]
    BY <1>5 DEF FormBatch, FormScanEnd, Goto, TypeOK
  <2>3. \/ wpc'[w] = "late" /\ StartBatch(w, batch[w])
        \/ wpc'[w] \notin Answering /\ todo' = todo
    BY <1>5 DEF FormBatch, FormScanEnd, FormReturn, Goto, Answering, TypeOK
  <2>4. CASE wpc'[w] = "late" /\ StartBatch(w, batch[w])
    BY <1>1, <2>1, <2>2, <2>4, AnswerDispatch
  <2>5. CASE wpc'[w] \notin Answering /\ todo' = todo
    BY <1>1, <2>1, <2>2, <2>5, AnswerFrame
  <2> QED  BY <2>3, <2>4, <2>5
<1>6. CASE ExpiredNotify(w)
  <2>1. [wpc EXCEPT ![w] = "rescan"] \in [Workers -> WorkerPlaces]
    BY DEF WorkerPlaces, Forming, TypeOK
  <2>2. \A v \in Workers : wpc'[v] = wpc[v] \/ (wpc[v] \notin Answering /\ wpc'[v] \notin Answering)
    BY <1>6, <2>1, NotifyOneMoves, ZenonT(60) DEF ExpiredNotify, Waiters, Answering, TypeOK
  <2>3. UNCHANGED <<queue, batch, todo, reply>>
    BY <1>6 DEF ExpiredNotify, batchVars
  <2> QED  BY <1>1, <2>2, <2>3, AnswerFrame
<1>7. CASE FormJoined(w)
  <2> DEFINE next == IF ShouldDispatchBatchSize(form[w].merged, form[w].delayed)
                     THEN "late" ELSE "form"
  <2>1. wpc' \in NotifyOne([wpc EXCEPT ![w] = next]) /\ wpc[w] = "joined"
    BY <1>7 DEF FormJoined
  <2>2. [wpc EXCEPT ![w] = next] \in [Workers -> WorkerPlaces] /\ wpc \in [Workers -> WorkerPlaces]
    BY DEF WorkerPlaces, Forming, TypeOK
  <2>3. wpc'[w] = next
    BY <2>1, <2>2, NotifyOneMoves, ZenonT(60) DEF Waiters
  <2>4. \A v \in Workers \ {w} :
          wpc'[v] = wpc[v] \/ (wpc[v] \notin Answering /\ wpc'[v] \notin Answering)
    <3> DEFINE pcs == [wpc EXCEPT ![w] = next]
    <3>1. \A v \in Workers \ {w} : pcs[v] = wpc[v]
      BY <2>2
    <3>2. pcs \in [Workers -> WorkerPlaces] /\ wpc' \in NotifyOne(pcs)
      BY <2>1, <2>2
    <3> HIDE DEF pcs
    <3>3. \A v \in Workers : wpc'[v] = pcs[v] \/ (v \in Waiters /\ wpc'[v] \in {"pop", "form"})
      BY <3>2, NotifyOneMoves
    <3> QED  BY <3>1, <3>3 DEF Waiters, Answering
  <2>5. UNCHANGED <<queue, batch, reply>> /\ wpc[w] \notin Answering
    BY <1>7 DEF FormJoined, Answering
  <2>6. CASE next = "late"
    <3>1. StartBatch(w, batch[w])
      BY <1>7, <2>6 DEF FormJoined, FormReturn
    <3> QED  BY <1>1, <2>3, <2>4, <2>5, <2>6, <3>1, AnswerDispatch
  <2>7. CASE next # "late"
    <3>1. todo' = todo /\ wpc'[w] \notin Answering
      BY <1>7, <2>3, <2>7 DEF FormJoined, Answering
    <3>2. \A v \in Workers : wpc'[v] = wpc[v] \/ (wpc[v] \notin Answering /\ wpc'[v] \notin Answering)
      BY <2>4, <2>5, <3>1
    <3> QED  BY <1>1, <2>5, <3>1, <3>2, AnswerFrame
  <2> QED  BY <2>6, <2>7
<1> QED  BY <1>2, <1>3, <1>4, <1>5, <1>6, <1>7 DEF CollectStep

\* Steps of processBatch that give up members or begin to answer one: the batch does
\* not grow, what is open was open, and a new answer goes to what was open.
LEMMA AnswerShrink ==
    ASSUME TypeOK, AnswerInv, NEW w \in Workers,
           UNCHANGED <<queue, cpc, due, promise>>,
           \A v \in Workers \ {w} : /\ batch'[v] = batch[v] /\ todo'[v] = todo[v]
                                    /\ reply'[v] = reply[v] /\ wpc'[v] = wpc[v],
           batch'[w] \subseteq batch[w], todo'[w] \subseteq batch'[w],
           todo'[w] # {} => wpc'[w] \in Answering,
           wpc'[w] = "late" => \A r \in todo'[w] : due[r],
           \A r \in Requests : Open(w, r)' => Open(w, r),
           \A r \in Requests : reply'[w].req = r =>
               (reply[w].req = r \/ Open(w, r)) /\ ~Open(w, r)'
    PROVE  AnswerInv'
<1>1. \A s \in Requests, v \in Workers : Holds(v, s)' => Holds(v, s)
  BY DEF Holds, Open
<1>2. \A s \in Requests : InQueue(s)' <=> InQueue(s)
  BY DEF InQueue
<1>3. CustodyInv'
  BY <1>1, <1>2 DEF AnswerInv, CustodyInv
<1>4. TodoInv'
  <2>1. ASSUME NEW v \in Workers
        PROVE  /\ todo'[v] \subseteq batch'[v]
               /\ todo'[v] # {} => wpc'[v] \in Answering
               /\ wpc'[v] = "late" => \A r \in todo'[v] : due'[r]
    <3>1. CASE v = w  BY <3>1
    <3>2. CASE v # w  BY <3>2 DEF AnswerInv, TodoInv
    <3> QED  BY <3>1, <3>2
  <2> QED  BY <2>1 DEF TodoInv
<1>5. \A s \in Requests, v \in Workers : Open(v, s)' => Open(v, s)
  BY DEF Open
<1>6. \A s \in Requests, v \in Workers :
        reply'[v].req = s => (reply[v].req = s \/ Open(v, s)) /\ (v = w => ~Open(v, s)')
  OBVIOUS
<1>7. PromiseInv'
  <2>1. \A s \in Requests, v \in Workers : reply'[v].req = s => promise[s] = Unset
    BY <1>6 DEF AnswerInv, PromiseInv
  <2>2. \A s \in Requests, v \in Workers : Open(v, s)' => promise[s] = Unset /\ reply'[v].req # s
    BY <1>5, <1>6 DEF AnswerInv, PromiseInv
  <2> QED  BY <1>2, <2>1, <2>2 DEF AnswerInv, PromiseInv
<1> QED  BY <1>3, <1>4, <1>7 DEF AnswerInv

LEMMA AnswerProcess ==
    ASSUME TypeOK, AnswerInv, NEW w \in Workers, ProcessStep(w)
    PROVE  AnswerInv'
<1>1. UNCHANGED <<queue, cpc, due, cancelled>>
  BY DEF ProcessStep, queueVars, clientVars
<1>2. \A r \in Requests : reply[w].req = r => ~Open(w, r)
  BY DEF AnswerInv, PromiseInv
<1>3. todo[w] \subseteq batch[w] /\ todo[w] \subseteq Requests /\ batch[w] \subseteq Requests
  BY DEF AnswerInv, TodoInv, TypeOK
<1>4. NoReply.req \notin Requests
  BY ThreadsAssumption DEF NoReply, NoOne
<1>5. CASE FulfillCheck(w)
  <2>1. UNCHANGED <<promise, wpc, batch, todo>>
    BY <1>5 DEF FulfillCheck
  <2>2. \A v \in Workers \ {w} : reply'[v] = reply[v]
    BY <1>5 DEF FulfillCheck, TypeOK
  <2>3. \A r \in Requests : reply'[w].req = r => reply[w].req = r
    BY <1>4, <1>5 DEF FulfillCheck, Replies, TypeOK
  <2>4. \A r \in Requests : Open(w, r)' <=> Open(w, r)
    BY <1>1, <2>1 DEF Open
  <2>5. /\ todo'[w] # {} => wpc'[w] \in Answering
        /\ wpc'[w] = "late" => \A r \in todo'[w] : due[r]
    BY <2>1 DEF AnswerInv, TodoInv
  <2> QED  BY <1>1, <1>2, <1>3, <2>1, <2>2, <2>3, <2>4, <2>5, AnswerShrink
<1>6. CASE FulfillSet(w)
  <2> DEFINE r == reply[w].req
  <2>1. r \in Requests /\ reply[w].res \in Outcomes
    BY <1>6 DEF FulfillSet, Replies, TypeOK
  <2>2. promise[r] = Unset /\ Holds(w, r)
    BY <2>1 DEF AnswerInv, PromiseInv, Holds
  <2>3. /\ UNCHANGED <<wpc, batch, todo>>
        /\ \A s \in Requests : promise'[s] = IF s = r THEN reply[w].res ELSE promise[s]
        /\ reply'[w] = NoReply /\ \A v \in Workers \ {w} : reply'[v] = reply[v]
    BY <1>6, <2>1, <2>2 DEF FulfillSet, TypeOK
  <2>4. /\ ~InQueue(r) /\ cpc[r] \notin {"idle", "lock", "push"}
        /\ \A v \in Workers \ {w} : ~Holds(v, r)
    BY <2>1, <2>2 DEF AnswerInv, CustodyInv
  <2>5. \A s \in Requests, v \in Workers : Holds(v, s)' => Holds(v, s)
    BY <1>4, <2>3 DEF Holds
  <2>6. \A s \in Requests : InQueue(s)' <=> InQueue(s)
    BY <1>1 DEF InQueue
  <2>7. CustodyInv'
    BY <1>1, <2>5, <2>6 DEF AnswerInv, CustodyInv
  <2>8. TodoInv'
    BY <1>1, <2>3 DEF AnswerInv, TodoInv
  <2>9. \A s \in Requests, v \in Workers : Open(v, s)' <=> Open(v, s)
    BY <1>1, <2>3 DEF Open
  <2>10. \A v \in Workers : ~Open(v, r)
    BY <1>2, <2>1, <2>4 DEF Open, Holds
  <2>11. \A v \in Workers : reply'[v].req # r
    BY <1>4, <2>1, <2>3, <2>4 DEF Holds
  <2>12. reply[w].res # SetTwice
    BY <2>1 DEF Outcomes, SetTwice
  <2>13. \A s \in Requests, v \in Workers : reply'[v].req = s => reply[v].req = s
    BY <1>4, <2>3
  <2>14. PromiseInv'
    BY <1>1, <2>3, <2>4, <2>6, <2>9, <2>10, <2>11, <2>12, <2>13 DEF AnswerInv, PromiseInv
  <2> QED  BY <2>7, <2>8, <2>14 DEF AnswerInv
<1>7. CASE LateNext(w) \/ FailNext(w) \/ ResultNext(w)
  <2>1. UNCHANGED <<promise, wpc, batch>> /\ wpc[w] \in Answering /\ reply[w] = NoReply
    BY <1>7 DEF LateNext, FailNext, ResultNext, Answering, execVars
  <2>2. PICK r \in todo[w] :
          /\ todo' = [todo EXCEPT ![w] = @ \ {r}]
          /\ reply' = reply \/ \E res \in Outcomes : reply' = [reply EXCEPT ![w] = ReplyTo(r, res)]
    BY <1>7 DEF LateNext, FailNext, ResultNext, TimeOut, Fulfill, Outcomes
  <2>3. /\ todo'[w] = todo[w] \ {r}
        /\ \A v \in Workers \ {w} : todo'[v] = todo[v] /\ reply'[v] = reply[v]
        /\ reply'[w] = NoReply \/ reply'[w].req = r
    BY <2>1, <2>2 DEF ReplyTo, TypeOK
  <2>4. /\ todo'[w] # {} => wpc'[w] \in Answering
        /\ wpc[w] = "late" => \A s \in todo[w] : due[s]
    BY <2>1 DEF AnswerInv, TodoInv
  <2>5. \A s \in Requests : Open(w, s)' => Open(w, s) /\ s # r
    BY <1>1, <2>1, <2>2, <2>3, <2>4 DEF Open
  <2>6. Open(w, r) /\ r \in Requests
    BY <1>3, <2>2 DEF Open
  <2>7. \A s \in Requests : reply'[w].req = s => Open(w, s) /\ ~Open(w, s)'
    BY <1>4, <2>3, <2>5, <2>6
  <2> QED  BY <1>1, <1>3, <2>1, <2>3, <2>4, <2>5, <2>7, AnswerShrink
<1>8. CASE ActivePass(w)
  <2>1. UNCHANGED <<promise, reply>> /\ wpc[w] = "late" /\ reply[w] = NoReply
    BY <1>8 DEF ActivePass
  <2>2. \A v \in Workers \ {w} : batch'[v] = batch[v] /\ todo'[v] = todo[v] /\ wpc'[v] = wpc[v]
    BY <1>8 DEF ActivePass, Goto, TypeOK
  <2>3. /\ batch'[w] \subseteq Active(w) /\ todo'[w] \subseteq batch'[w]
        /\ wpc'[w] # "late" /\ (todo'[w] # {} => wpc'[w] = "fail")
    BY <1>8 DEF ActivePass, AfterActive, Goto, TypeOK
  <2>4. \A s \in Requests : s \in batch'[w] => Open(w, s)
    BY <2>1, <2>3 DEF Open, Active
  <2>5. \A s \in Requests : Open(w, s)' => Open(w, s)
    BY <2>4 DEF Open
  <2>6. batch'[w] \subseteq batch[w] /\ (todo'[w] # {} => wpc'[w] \in Answering)
    BY <2>3 DEF Active, Answering
  <2>7. \A s \in Requests : reply'[w].req # s
    BY <1>4, <2>1
  <2> QED  BY <1>1, <2>1, <2>2, <2>3, <2>5, <2>6, <2>7, AnswerShrink
<1>9. CASE ProcessSingle(w)
  <2>1. UNCHANGED <<promise, todo>> /\ wpc[w] = "single" /\ todo[w] = {}
    BY <1>9 DEF ProcessSingle, AnswerInv, TodoInv, Answering
  <2>2. /\ \A v \in Workers \ {w} : batch'[v] = batch[v] /\ wpc'[v] = wpc[v] /\ reply'[v] = reply[v]
        /\ wpc'[w] \notin Answering
        /\ \/ batch'[w] \subseteq batch[w] /\ reply'[w] = reply[w]
           \/ batch'[w] = {} /\ reply'[w].req \in batch[w]
    BY <1>9 DEF ProcessSingle, TimeOut, Fulfill, ReplyTo, Goto, Answering, TypeOK
  <2>3. \A s \in Requests : s \in batch[w] => Open(w, s)
    BY <2>1 DEF Open, Answering
  <2>4. \A s \in Requests : Open(w, s)' => Open(w, s)
    BY <2>2, <2>3 DEF Open
  <2>5. \A s \in Requests : reply'[w].req = s =>
          (reply[w].req = s \/ Open(w, s)) /\ ~Open(w, s)'
    BY <1>2, <2>2, <2>3, <2>4 DEF Open
  <2>6. batch'[w] \subseteq batch[w] /\ todo'[w] = {} /\ wpc'[w] # "late"
    BY <2>1, <2>2 DEF Answering
  <2> QED  BY <1>1, <2>1, <2>2, <2>4, <2>5, <2>6, AnswerShrink
<1>10. CASE Select(w) \/ RunInference(w)
  <2>1. UNCHANGED <<promise, batch, reply>> /\ wpc[w] \notin Answering
    BY <1>10 DEF Select, RunInference, Answering
  <2>2. /\ \A v \in Workers \ {w} : todo'[v] = todo[v] /\ wpc'[v] = wpc[v]
        /\ \/ todo'[w] = todo[w] /\ wpc'[w] = "infer"
           \/ todo'[w] = batch[w] /\ wpc'[w] = "results"
    BY <1>10 DEF Select, RunInference, Goto, TypeOK
  <2>3. todo[w] = {}
    BY <2>1 DEF AnswerInv, TodoInv
  <2>4. \A s \in Requests : s \in batch[w] => Open(w, s)
    BY <2>1 DEF Open
  <2>5. \A s \in Requests : Open(w, s)' => Open(w, s)
    BY <2>1, <2>4 DEF Open
  <2>6. \A s \in Requests : reply'[w].req = s => reply[w].req = s /\ ~Open(w, s)'
    BY <1>2, <2>1, <2>5
  <2>7. todo'[w] \subseteq batch'[w] /\ (todo'[w] # {} => wpc'[w] \in Answering) /\ wpc'[w] # "late"
    BY <2>1, <2>2, <2>3 DEF Answering
  <2> QED  BY <1>1, <2>1, <2>2, <2>5, <2>6, <2>7, AnswerShrink
<1>11. CASE BatchDone(w)
  <2>1. UNCHANGED <<promise, todo, reply>> /\ todo[w] = {} /\ reply[w] = NoReply
    BY <1>11 DEF BatchDone
  <2>2. /\ \A v \in Workers \ {w} : batch'[v] = batch[v] /\ wpc'[v] = wpc[v]
        /\ batch'[w] = {} /\ wpc'[w] = "pop"
    BY <1>11 DEF BatchDone, Goto, TypeOK
  <2>3. \A s \in Requests : ~Open(w, s)' /\ reply'[w].req # s
    BY <1>4, <2>1, <2>2 DEF Open
  <2> QED  BY <1>1, <2>1, <2>2, <2>3, AnswerShrink
<1> QED  BY <1>5, <1>6, <1>7, <1>8, <1>9, <1>10, <1>11 DEF ProcessStep

LEMMA AnswerRetire ==
    ASSUME TypeOK, AnswerInv, RetireStep
    PROVE  AnswerInv'
<1>1. UNCHANGED <<cpc, due, batch, todo, reply>>
  BY DEF RetireStep, clientVars, batchVars
<1>2. \A w \in Workers : wpc'[w] = wpc[w] \/ (wpc[w] \notin Answering /\ wpc'[w] \notin Answering)
  BY NotifyAllMoves DEF RetireStep, StopAccepting, BeginDrain, DrainNotify, RejectQueuedRequests,
                        Waiters, Answering
<1>3. CASE StopAccepting \/ BeginDrain \/ DrainNotify
  <2>1. UNCHANGED <<queue, promise>> /\ \A w \in Workers : todo[w] \subseteq Requests
    BY <1>3 DEF StopAccepting, BeginDrain, DrainNotify, TypeOK
  <2> QED  BY <1>1, <1>2, <2>1, AnswerFrame
<1>4. CASE RejectQueuedRequests
  <2>1. queue' = <<>> /\ wpc' = wpc
    BY <1>4 DEF RejectQueuedRequests
  <2>2. \A s \in Requests : promise'[s] = IF InQueue(s) THEN "draining" ELSE promise[s]
    BY <1>4 DEF RejectQueuedRequests, AnswerInv, PromiseInv
  <2>3. \A s \in Requests : ~InQueue(s)'
    BY <2>1 DEF InQueue
  <2>4. \A s \in Requests, w \in Workers : Holds(w, s)' <=> Holds(w, s)
    BY <1>1 DEF Holds
  <2>5. CustodyInv'
    <3>1. \A i, j \in 1 .. Len(queue') : queue'[i] = queue'[j] => i = j
      BY <2>1
    <3> QED  BY <1>1, <2>3, <2>4, <3>1 DEF AnswerInv, CustodyInv
  <2>6. TodoInv'
    BY <1>1, <2>1 DEF AnswerInv, TodoInv
  <2>7. \A s \in Requests, w \in Workers : Open(w, s)' <=> Open(w, s)
    BY <1>1, <2>1 DEF Open
  <2>8. \A s \in Requests, w \in Workers : reply[w].req = s \/ Open(w, s) => ~InQueue(s)
    BY DEF AnswerInv, CustodyInv, Holds, Open
  <2>9. \A s \in Requests : cpc[s] \in {"idle", "lock", "push"} => ~InQueue(s)
    BY DEF AnswerInv, CustodyInv
  <2>10. PromiseInv'
    BY <1>1, <2>2, <2>3, <2>7, <2>8, <2>9 DEF AnswerInv, PromiseInv, SetTwice
  <2> QED  BY <2>5, <2>6, <2>10 DEF AnswerInv
<1> QED  BY <1>3, <1>4 DEF RetireStep

LEMMA AnswerStep == TypeOK /\ AnswerInv /\ [Next]_vars => AnswerInv'
<1> SUFFICES ASSUME TypeOK, AnswerInv, [Next]_vars PROVE AnswerInv'
  OBVIOUS
<1>0. \A w \in Workers : todo[w] \subseteq Requests
  BY DEF TypeOK
<1>1. CASE \E r \in Requests : SubmitStep(r)
  BY <1>1, AnswerSubmit
<1>2. CASE \E r \in Requests : Expire(r)
  <2>1. UNCHANGED <<queue, batch, todo, reply, promise, cpc, wpc>>
    BY <1>2 DEF Expire, queueVars, clientVars, batchVars
  <2>2. \A r \in Requests : due[r] => due'[r]
    BY <1>2 DEF Expire, TypeOK
  <2> QED  BY <1>0, <2>1, <2>2, AnswerFrame
<1>3. CASE \E w \in Workers : CollectStep(w)
  BY <1>3, AnswerCollect
<1>4. CASE \E w \in Workers : ProcessStep(w)
  BY <1>4, AnswerProcess
<1>5. CASE \E w \in Workers : SpuriousWake(w)
  <2>1. UNCHANGED <<queue, batch, todo, reply, promise, cpc, due>>
    BY <1>5 DEF SpuriousWake, queueVars, clientVars, flagVars, batchVars
  <2>2. \A w \in Workers : wpc'[w] = wpc[w] \/ (wpc[w] \notin Answering /\ wpc'[w] \notin Answering)
    BY <1>5 DEF SpuriousWake, Goto, Answering, TypeOK
  <2> QED  BY <1>0, <2>1, <2>2, AnswerFrame
<1>6. CASE \E w \in Workers : FormationExpire(w)
  BY <1>0, <1>6, AnswerFrame DEF FormationExpire, queueVars, clientVars, flagVars
<1>7. CASE RetireStep
  BY <1>7, AnswerRetire
<1>8. CASE UNCHANGED vars
  BY <1>0, <1>8, AnswerFrame DEF vars, queueVars, clientVars, flagVars, batchVars
<1> QED  BY <1>1, <1>2, <1>3, <1>4, <1>5, <1>6, <1>7, <1>8 DEF Next

LEMMA AnswerInvariant == Spec => []AnswerInv
<1>1. Init => AnswerInv
  BY AnswerInit
<1>2. TypeOK /\ AnswerInv /\ [Next]_vars => AnswerInv'
  BY AnswerStep
<1> QED  BY <1>1, <1>2, TypeCorrect, PTL DEF Spec

\* No request is answered twice: whatever the batching policy, the deadlines and the
\* drain do, at most one of the calls of promise.set_value happens for a request.
THEOREM AnsweredAtMostOnce == Spec => []AnsweredOnce
<1>1. AnswerInv => AnsweredOnce
  BY DEF AnswerInv, PromiseInv, AnsweredOnce
<1> QED  BY <1>1, AnswerInvariant, PTL

-----------------------------------------------------------------------------
(* No request is lost.                                                     *)

\* A step of worker w, or of nobody, as the other workers see it.
Others(w) ==
    \A v \in Workers \ {w} :
        /\ batch'[v] = batch[v] /\ todo'[v] = todo[v] /\ reply'[v] = reply[v]
        /\ wpc'[v] = wpc[v] \/ (v \in Waiters /\ wpc'[v] = Awake(v))

\* A notified worker returns to the loop it slept in, with what it had in its hands.
LEMMA NotifyOneWakes ==
    ASSUME NEW pcs \in [Workers -> WorkerPlaces], NEW woken \in NotifyOne(pcs), NEW v \in Workers
    PROVE  woken[v] = pcs[v] \/ (v \in Waiters /\ woken[v] = Awake(v))
BY DEF NotifyOne

LEMMA NotifyAllWakes ==
    ASSUME NEW v \in Workers
    PROVE  NotifyAll[v] = wpc[v] \/ (v \in Waiters /\ NotifyAll[v] = Awake(v))
BY DEF NotifyAll

LEMMA PlaceFrame ==
    ASSUME PlaceInv, NEW w \in Workers, Others(w),
           wpc'[w] \in {"pop", "popBlock", "popWait", "exited"} => batch'[w] = {},
           wpc'[w] = "single" => \A r, s \in batch'[w] : r = s,
           reply'[w] # NoReply => wpc'[w] \in Replying
    PROVE  PlaceInv'
<1>1. ASSUME NEW v \in Workers
      PROVE  /\ wpc'[v] \in {"pop", "popBlock", "popWait", "exited"} => batch'[v] = {}
             /\ wpc'[v] = "single" => \A r, s \in batch'[v] : r = s
             /\ reply'[v] # NoReply => wpc'[v] \in Replying
  <2>1. CASE v = w  BY <2>1
  <2>2. CASE v # w /\ wpc'[v] = wpc[v]  BY <2>2 DEF PlaceInv, Others
  <2>3. CASE v # w /\ v \in Waiters /\ wpc'[v] = Awake(v)
    BY <2>3 DEF PlaceInv, Others, Waiters, Awake, Replying, Answering
  <2> QED  BY <2>1, <2>2, <2>3 DEF Others
<1> QED  BY <1>1 DEF PlaceInv

\* Nobody's hands change.
LEMMA PlaceIdle ==
    ASSUME PlaceInv, UNCHANGED <<batch, reply>>,
           \A v \in Workers : wpc'[v] = wpc[v] \/ (v \in Waiters /\ wpc'[v] = Awake(v))
    PROVE  PlaceInv'
<1>1. ASSUME NEW v \in Workers
      PROVE  /\ wpc'[v] \in {"pop", "popBlock", "popWait", "exited"} => batch'[v] = {}
             /\ wpc'[v] = "single" => \A r, s \in batch'[v] : r = s
             /\ reply'[v] # NoReply => wpc'[v] \in Replying
  <2>1. CASE wpc'[v] = wpc[v]  BY <2>1 DEF PlaceInv
  <2>2. CASE v \in Waiters /\ wpc'[v] = Awake(v)
    BY <2>2 DEF PlaceInv, Waiters, Awake, Replying, Answering
  <2> QED  BY <2>1, <2>2
<1> QED  BY <1>1 DEF PlaceInv

\* What a step of a worker does to the hands of the others.
LEMMA CollectOthers ==
    ASSUME TypeOK, NEW w \in Workers, CollectStep(w)
    PROVE  Others(w)
<1>1. CASE ExpiredNotify(w)
  <2>1. [wpc EXCEPT ![w] = "rescan"] \in [Workers -> WorkerPlaces]
    BY DEF WorkerPlaces, Forming, TypeOK
  <2>2. \A v \in Workers \ {w} : wpc'[v] = wpc[v] \/ (v \in Waiters /\ wpc'[v] = Awake(v))
    BY <1>1, <2>1, NotifyOneWakes DEF ExpiredNotify, TypeOK
  <2> QED  BY <1>1, <2>2 DEF ExpiredNotify, batchVars, Others
<1>2. CASE FormJoined(w)
  <2> DEFINE next == IF ShouldDispatchBatchSize(form[w].merged, form[w].delayed)
                     THEN "late" ELSE "form"
             pcs == [wpc EXCEPT ![w] = next]
  <2>1. pcs \in [Workers -> WorkerPlaces] /\ \A v \in Workers \ {w} : pcs[v] = wpc[v]
    BY DEF WorkerPlaces, Forming, TypeOK
  <2>2. wpc' \in NotifyOne(pcs)
    BY <1>2 DEF FormJoined
  <2> HIDE DEF pcs
  <2>3. \A v \in Workers \ {w} : wpc'[v] = wpc[v] \/ (v \in Waiters /\ wpc'[v] = Awake(v))
    BY <2>1, <2>2, NotifyOneWakes
  <2>4. UNCHANGED <<batch, reply>> /\ \A v \in Workers \ {w} : todo'[v] = todo[v]
    BY <1>2 DEF FormJoined, FormReturn, StartBatch, TypeOK
  <2> QED  BY <2>3, <2>4 DEF Others
<1>3. CASE PopNextPending(w)
  BY <1>3 DEF PopNextPending, StartBatch, Goto, Others, TypeOK
<1>4. CASE PopBlock(w) \/ FormWake(w) \/ FormRescan(w)
  BY <1>4 DEF PopBlock, FormWake, FormRescan, Goto, Others, batchVars, TypeOK
<1>5. CASE FormBatch(w) \/ FormScanEnd(w)
  BY <1>5 DEF FormBatch, FormScanEnd, FormReturn, StartBatch, Goto, Others, TypeOK
<1>6. CASE FormScan(w)
  BY <1>6 DEF FormScan, Goto, Others, TypeOK
<1> QED  BY <1>1, <1>2, <1>3, <1>4, <1>5, <1>6 DEF CollectStep

LEMMA ProcessOthers ==
    ASSUME TypeOK, NEW w \in Workers, ProcessStep(w)
    PROVE  Others(w)
<1> USE DEF Others, TypeOK
<1>1. CASE FulfillCheck(w) \/ FulfillSet(w)
  BY <1>1 DEF FulfillCheck, FulfillSet
<1>2. CASE LateNext(w) \/ FailNext(w) \/ ResultNext(w)
  BY <1>2 DEF LateNext, FailNext, ResultNext, TimeOut, Fulfill
<1>3. CASE ActivePass(w) \/ BatchDone(w)
  BY <1>3 DEF ActivePass, BatchDone, Goto
<1>4. CASE ProcessSingle(w)
  BY <1>4 DEF ProcessSingle, TimeOut, Fulfill, Goto
<1>5. CASE Select(w) \/ RunInference(w)
  BY <1>5 DEF Select, RunInference, Goto
<1> QED  BY <1>1, <1>2, <1>3, <1>4, <1>5 DEF ProcessStep

LEMMA PlaceCollect ==
    ASSUME TypeOK, PlaceInv, NEW w \in Workers, CollectStep(w)
    PROVE  PlaceInv'
<1>1. Others(w)
  BY CollectOthers
<1>2. /\ wpc[w] \in {"pop", "popBlock", "popWait", "exited"} => batch[w] = {}
      /\ reply[w] # NoReply => wpc[w] \in Replying
  BY DEF PlaceInv
<1>3. CASE PopNextPending(w)
  <2>1. reply'[w] = NoReply /\ wpc[w] = "pop" /\ wpc'[w] # "single"
    BY <1>3 DEF PopNextPending, Goto, TypeOK
  <2>2. wpc'[w] \in {"pop", "popBlock", "popWait", "exited"} => batch' = batch
    BY <1>3 DEF PopNextPending, Goto, TypeOK
  <2> QED  BY <1>1, <1>2, <2>1, <2>2, PlaceFrame
<1>4. CASE PopBlock(w)
  <2>1. wpc'[w] = "popWait" /\ wpc[w] = "popBlock" /\ UNCHANGED <<batch, reply>>
    BY <1>4 DEF PopBlock, Goto, batchVars, TypeOK
  <2> QED  BY <1>1, <1>2, <2>1, PlaceFrame DEF Replying, Answering
<1>5. CASE FormBatch(w) \/ FormScanEnd(w) \/ FormWake(w) \/ FormRescan(w)
  <2>1. wpc'[w] \notin {"pop", "popBlock", "popWait", "exited", "single"} /\ reply' = reply
    BY <1>5 DEF FormBatch, FormScanEnd, FormWake, FormRescan, Goto, batchVars, TypeOK
  <2>2. reply[w] = NoReply
    BY <1>2, <1>5 DEF FormBatch, FormScanEnd, FormWake, FormRescan, Replying, Answering
  <2> QED  BY <1>1, <2>1, <2>2, PlaceFrame
<1>6. CASE FormScan(w)
  <2>1. reply[w] = NoReply
    BY <1>2, <1>6 DEF FormScan, Replying, Answering
  <2>2. /\ wpc'[w] \in {"scan", "notifyExpired", "joined"}
        /\ reply'[w] # NoReply => wpc'[w] = "notifyExpired"
    BY <1>6, <2>1 DEF FormScan, Goto, TypeOK
  <2> QED  BY <1>1, <2>2, PlaceFrame DEF Replying
<1>7. CASE ExpiredNotify(w)
  <2>1. [wpc EXCEPT ![w] = "rescan"] \in [Workers -> WorkerPlaces]
    BY DEF WorkerPlaces, Forming, TypeOK
  <2>2. wpc'[w] = "rescan"
    BY <1>7, <2>1, NotifyOneMoves DEF ExpiredNotify, Waiters, TypeOK
  <2> QED  BY <1>1, <2>2, PlaceFrame DEF Replying
<1>8. CASE FormJoined(w)
  <2> DEFINE next == IF ShouldDispatchBatchSize(form[w].merged, form[w].delayed)
                     THEN "late" ELSE "form"
  <2>1. wpc' \in NotifyOne([wpc EXCEPT ![w] = next]) /\ wpc[w] = "joined" /\ reply' = reply
    BY <1>8 DEF FormJoined
  <2>2. [wpc EXCEPT ![w] = next] \in [Workers -> WorkerPlaces] /\ wpc \in [Workers -> WorkerPlaces]
    BY DEF WorkerPlaces, Forming, TypeOK
  <2>3. wpc'[w] = next
    BY <2>1, <2>2, NotifyOneMoves, ZenonT(60) DEF Waiters
  <2>4. reply[w] = NoReply
    BY <1>2, <2>1 DEF Replying, Answering
  <2> QED  BY <1>1, <2>1, <2>3, <2>4, PlaceFrame
<1> QED  BY <1>3, <1>4, <1>5, <1>6, <1>7, <1>8 DEF CollectStep

LEMMA PlaceProcess ==
    ASSUME TypeOK, PlaceInv, NEW w \in Workers, ProcessStep(w)
    PROVE  PlaceInv'
<1>1. Others(w)
  BY ProcessOthers
<1>2. /\ wpc[w] \in {"pop", "popBlock", "popWait", "exited"} => batch[w] = {}
      /\ wpc[w] = "single" => \A r, s \in batch[w] : r = s
      /\ reply[w] # NoReply => wpc[w] \in Replying
  BY DEF PlaceInv
<1>3. CASE FulfillCheck(w) \/ FulfillSet(w)
  <2>1. UNCHANGED <<wpc, batch>> /\ reply[w] # NoReply
    BY <1>3 DEF FulfillCheck, FulfillSet
  <2> QED  BY <1>1, <1>2, <2>1, PlaceFrame
<1>4. CASE LateNext(w) \/ FailNext(w) \/ ResultNext(w)
  <2>1. wpc' = wpc /\ wpc[w] \in Answering
    BY <1>4 DEF LateNext, FailNext, ResultNext, Answering
  <2> QED  BY <1>1, <2>1, PlaceFrame DEF Answering, Replying
<1>5. CASE ActivePass(w)
  <2>1. reply'[w] = NoReply
    BY <1>5 DEF ActivePass
  <2>2. /\ wpc'[w] \in {"pop", "single", "fail", "select"}
        /\ wpc'[w] = "pop" => batch'[w] = {}
        /\ wpc'[w] = "single" => \E r \in Active(w) : batch'[w] = {r}
    BY <1>5 DEF ActivePass, AfterActive, Goto, TypeOK
  <2> QED  BY <1>1, <2>1, <2>2, PlaceFrame
<1>6. CASE ProcessSingle(w)
  <2>1. reply[w] = NoReply
    BY <1>2, <1>6 DEF ProcessSingle, Replying, Answering
  <2>2. \/ wpc'[w] = "pop" /\ batch'[w] = {}
        \/ wpc'[w] = "select" /\ reply' = reply
    BY <1>6 DEF ProcessSingle, Goto, TypeOK
  <2> QED  BY <1>1, <2>1, <2>2, PlaceFrame DEF Replying
<1>7. CASE Select(w) \/ RunInference(w)
  <2>1. reply[w] = NoReply /\ reply' = reply /\ wpc'[w] \in {"infer", "results"}
    BY <1>2, <1>7 DEF Select, RunInference, Goto, Replying, Answering, TypeOK
  <2> QED  BY <1>1, <2>1, PlaceFrame
<1>8. CASE BatchDone(w)
  <2>1. reply'[w] = NoReply /\ wpc'[w] = "pop" /\ batch'[w] = {}
    BY <1>8 DEF BatchDone, Goto, TypeOK
  <2> QED  BY <1>1, <2>1, PlaceFrame
<1> QED  BY <1>3, <1>4, <1>5, <1>6, <1>7, <1>8 DEF ProcessStep

LEMMA PlaceStep == TypeOK /\ PlaceInv /\ [Next]_vars => PlaceInv'
<1> SUFFICES ASSUME TypeOK, PlaceInv, [Next]_vars PROVE PlaceInv'
  OBVIOUS
<1>1. CASE \E r \in Requests : SubmitStep(r)
  <2>1. PICK r \in Requests : SubmitStep(r)
    BY <1>1
  <2>2. UNCHANGED <<batch, reply>>
    BY <2>1 DEF SubmitStep, batchVars
  <2>3. \A v \in Workers : wpc'[v] = wpc[v] \/ (v \in Waiters /\ wpc'[v] = Awake(v))
    BY <2>1, NotifyOneWakes DEF SubmitStep, Submit, SubmitLock, SubmitPush, SubmitNotify, SubmitWait,
                                SubmitCancel, TypeOK
  <2> QED  BY <2>2, <2>3, PlaceIdle
<1>2. CASE \E r \in Requests : Expire(r)
  BY <1>2, PlaceIdle DEF Expire, batchVars
<1>3. CASE \E w \in Workers : CollectStep(w)
  BY <1>3, PlaceCollect
<1>4. CASE \E w \in Workers : ProcessStep(w)
  BY <1>4, PlaceProcess
<1>5. CASE \E w \in Workers : SpuriousWake(w)
  <2>1. \A v \in Workers : wpc'[v] = wpc[v] \/ (v \in Waiters /\ wpc'[v] = Awake(v))
    BY <1>5 DEF SpuriousWake, Goto, Waiters, Awake, TypeOK
  <2> QED  BY <1>5, <2>1, PlaceIdle DEF SpuriousWake, batchVars
<1>6. CASE \E w \in Workers : FormationExpire(w)
  BY <1>6, PlaceIdle DEF FormationExpire
<1>7. CASE RetireStep
  <2>1. \A v \in Workers : wpc'[v] = wpc[v] \/ (v \in Waiters /\ wpc'[v] = Awake(v))
    BY <1>7, NotifyAllWakes
    DEF RetireStep, StopAccepting, BeginDrain, DrainNotify, RejectQueuedRequests
  <2> QED  BY <1>7, <2>1, PlaceIdle DEF RetireStep, batchVars
<1>8. CASE UNCHANGED vars
  BY <1>8, PlaceIdle DEF vars, batchVars
<1> QED  BY <1>1, <1>2, <1>3, <1>4, <1>5, <1>6, <1>7, <1>8 DEF Next

\* The batch of no worker is touched, and what was answered or given up stays so.
LEMMA DoneFrame ==
    ASSUME DoneInv, UNCHANGED <<batch, todo, reply>>,
           \A r \in Requests : cancelled'[r] => cancelled[r] \/ cpc'[r] = "returned",
           \A r \in Requests : cpc[r] = "returned" => cpc'[r] = "returned",
           \A r \in Requests : promise[r] # Unset => promise'[r] # Unset,
           \A v \in Workers : wpc'[v] = wpc[v] \/ wpc'[v] \notin {"fail", "results"},
           \A v \in Workers : batch[v] \subseteq Requests
    PROVE  DoneInv'
BY DEF DoneInv

LEMMA DoneWorker ==
    ASSUME TypeOK, DoneInv, NEW w \in Workers, Others(w), UNCHANGED <<cancelled, cpc>>,
           \A r \in Requests : promise[r] # Unset => promise'[r] # Unset,
           wpc'[w] \in {"fail", "results"} =>
               \A r \in batch'[w] : r \in todo'[w] \/ reply'[w].req = r \/ promise'[r] # Unset
                                    \/ cpc[r] = "returned"
    PROVE  DoneInv'
<1>1. ASSUME NEW v \in Workers, wpc'[v] \in {"fail", "results"}, NEW r \in batch'[v]
      PROVE  r \in todo'[v] \/ reply'[v].req = r \/ promise'[r] # Unset \/ cpc'[r] = "returned"
  <2>1. CASE v = w  BY <1>1, <2>1
  <2>2. CASE v # w
    <3>1. wpc[v] = wpc'[v] /\ batch'[v] = batch[v] /\ todo'[v] = todo[v] /\ reply'[v] = reply[v]
      BY <1>1, <2>2 DEF Others, Waiters, Awake
    <3>2. r \in Requests
      BY <3>1 DEF TypeOK
    <3> QED  BY <1>1, <3>1, <3>2 DEF DoneInv
  <2> QED  BY <2>1, <2>2
<1> QED  BY <1>1 DEF DoneInv

\* No step of a worker takes an answer back.
LEMMA PromiseKept ==
    ASSUME TypeOK, AnswerInv, NEW w \in Workers, ProcessStep(w)
    PROVE  \A r \in Requests : promise[r] # Unset => promise'[r] # Unset
<1>1. CASE FulfillSet(w)
  BY <1>1 DEF FulfillSet, Replies, Outcomes, Unset, SetTwice, TypeOK
<1>2. CASE ~FulfillSet(w)
  BY <1>2 DEF ProcessStep, FulfillCheck, LateNext, ActivePass, FailNext, ProcessSingle, Select,
              RunInference, ResultNext, BatchDone
<1> QED  BY <1>1, <1>2

LEMMA DoneProcess ==
    ASSUME TypeOK, AnswerInv, DoneInv, NEW w \in Workers, ProcessStep(w)
    PROVE  DoneInv'
<1>1. Others(w) /\ UNCHANGED <<cancelled, cpc>>
  BY ProcessOthers DEF ProcessStep, clientVars
<1>2. \A r \in Requests : promise[r] # Unset => promise'[r] # Unset
  BY PromiseKept
<1>3. \A r \in Requests : cancelled[r] => cpc[r] = "returned"
  BY DEF DoneInv
<1>4. wpc[w] \in {"fail", "results"} =>
        \A r \in batch[w] : r \in todo[w] \/ reply[w].req = r \/ promise[r] # Unset
                            \/ cpc[r] = "returned"
  BY DEF DoneInv
<1>5. batch[w] \subseteq Requests /\ NoReply.req \notin Requests
  BY ThreadsAssumption DEF TypeOK, NoReply, NoOne
<1>6. CASE FulfillCheck(w)
  <2>1. UNCHANGED <<wpc, batch, todo, promise>> /\ reply[w] \in Replies
    BY <1>6 DEF FulfillCheck, TypeOK
  <2>2. \A r \in Requests : reply[w].req = r => reply'[w].req = r \/ cancelled[r]
    BY <1>6, <2>1 DEF FulfillCheck, Replies, TypeOK
  <2> QED  BY <1>1, <1>2, <1>3, <1>4, <1>5, <2>1, <2>2, DoneWorker
<1>7. CASE FulfillSet(w)
  <2>1. UNCHANGED <<wpc, batch, todo>> /\ reply[w] \in Replies
    BY <1>7 DEF FulfillSet, TypeOK
  <2>2. reply[w].req \in Requests /\ promise'[reply[w].req] # Unset
    BY <1>7, <2>1 DEF FulfillSet, Replies, Outcomes, Unset, SetTwice, TypeOK
  <2> QED  BY <1>1, <1>2, <1>4, <1>5, <2>1, <2>2, DoneWorker
<1>8. CASE LateNext(w) \/ FailNext(w) \/ ResultNext(w)
  <2>1. UNCHANGED <<promise, wpc, batch>> /\ reply[w] = NoReply
    BY <1>8 DEF LateNext, FailNext, ResultNext
  <2>2. PICK r \in todo[w] :
          /\ todo' = [todo EXCEPT ![w] = @ \ {r}]
          /\ \/ cancelled[r]
             \/ \E res \in Outcomes : reply' = [reply EXCEPT ![w] = ReplyTo(r, res)]
    BY <1>8 DEF LateNext, FailNext, ResultNext, TimeOut, Fulfill, Outcomes
  <2>3. todo'[w] = todo[w] \ {r} /\ r \in Requests /\ (cancelled[r] \/ reply'[w].req = r)
    BY <2>2 DEF ReplyTo, TypeOK
  <2> QED  BY <1>1, <1>2, <1>3, <1>4, <1>5, <2>1, <2>3, DoneWorker
<1>9. CASE ActivePass(w)
  <2>1. wpc'[w] \notin {"fail", "results"} \/ todo'[w] = batch'[w]
    BY <1>9 DEF ActivePass, AfterActive, Goto, TypeOK
  <2> QED  BY <1>1, <1>2, <2>1, DoneWorker
<1>10. CASE ProcessSingle(w) \/ Select(w) \/ BatchDone(w)
  <2>1. wpc'[w] \notin {"fail", "results"}
    BY <1>10 DEF ProcessSingle, Select, BatchDone, Goto, TypeOK
  <2> QED  BY <1>1, <1>2, <2>1, DoneWorker
<1>11. CASE RunInference(w)
  <2>1. todo'[w] = batch'[w]
    BY <1>11 DEF RunInference, TypeOK
  <2> QED  BY <1>1, <1>2, <2>1, DoneWorker
<1> QED  BY <1>6, <1>7, <1>8, <1>9, <1>10, <1>11 DEF ProcessStep

LEMMA DoneStep == TypeOK /\ AnswerInv /\ DoneInv /\ [Next]_vars => DoneInv'
<1> SUFFICES ASSUME TypeOK, AnswerInv, DoneInv, [Next]_vars PROVE DoneInv'
  OBVIOUS
<1>0. \A v \in Workers : batch[v] \subseteq Requests
  BY DEF TypeOK
<1>1. CASE \E r \in Requests : SubmitStep(r)
  <2>1. PICK r \in Requests : SubmitStep(r)
    BY <1>1
  <2>2. UNCHANGED <<batch, todo, reply, promise>>
    BY <2>1 DEF SubmitStep, batchVars
  <2>3. \A v \in Workers : wpc'[v] = wpc[v] \/ wpc'[v] \notin {"fail", "results"}
    BY <2>1, NotifyOneMoves DEF SubmitStep, Submit, SubmitLock, SubmitPush, SubmitNotify,
                                SubmitWait, SubmitCancel, TypeOK
  <2>4. \A s \in Requests : cancelled'[s] => cancelled[s] \/ cpc'[s] = "returned"
    BY <2>1 DEF SubmitStep, Submit, SubmitLock, SubmitPush, SubmitNotify, SubmitWait, SubmitCancel,
                Return, TypeOK
  <2>5. \A s \in Requests : cpc[s] = "returned" => cpc'[s] = "returned"
    BY <2>1 DEF SubmitStep, Submit, SubmitLock, SubmitPush, SubmitNotify, SubmitWait, SubmitCancel,
                Return, TypeOK
  <2> QED  BY <1>0, <2>2, <2>3, <2>4, <2>5, DoneFrame
<1>2. CASE \E r \in Requests : Expire(r)
  BY <1>0, <1>2, DoneFrame DEF Expire, clientVars, batchVars
<1>3. CASE \E w \in Workers : CollectStep(w)
  <2>1. PICK w \in Workers : CollectStep(w)
    BY <1>3
  <2>2. Others(w) /\ UNCHANGED <<cancelled, cpc, promise>>
    BY <2>1, CollectOthers DEF CollectStep, clientVars, flagVars
  <2>3. wpc'[w] \notin {"fail", "results"}
    <3>1. CASE ExpiredNotify(w)
      <4>1. [wpc EXCEPT ![w] = "rescan"] \in [Workers -> WorkerPlaces]
        BY DEF WorkerPlaces, Forming, TypeOK
      <4> QED  BY <3>1, <4>1, NotifyOneMoves DEF ExpiredNotify, Waiters, TypeOK
    <3>2. CASE FormJoined(w)
      <4> DEFINE next == IF ShouldDispatchBatchSize(form[w].merged, form[w].delayed)
                         THEN "late" ELSE "form"
      <4>1. wpc' \in NotifyOne([wpc EXCEPT ![w] = next]) /\ wpc[w] = "joined"
        BY <3>2 DEF FormJoined
      <4>2. /\ [wpc EXCEPT ![w] = next] \in [Workers -> WorkerPlaces]
            /\ wpc \in [Workers -> WorkerPlaces]
        BY DEF WorkerPlaces, Forming, TypeOK
      <4>3. wpc'[w] = next
        BY <4>1, <4>2, NotifyOneMoves, ZenonT(60) DEF Waiters
      <4> QED  BY <4>3
    <3>3. CASE ~ExpiredNotify(w) /\ ~FormJoined(w)
      BY <2>1, <3>3 DEF CollectStep, PopNextPending, PopBlock, FormBatch, FormScan, FormScanEnd,
                        FormWake, FormRescan, Goto, TypeOK
    <3> QED  BY <3>1, <3>2, <3>3
  <2> QED  BY <2>2, <2>3, DoneWorker
<1>4. CASE \E w \in Workers : ProcessStep(w)
  BY <1>4, DoneProcess
<1>5. CASE \E w \in Workers : SpuriousWake(w)
  <2>1. \A v \in Workers : wpc'[v] = wpc[v] \/ wpc'[v] \notin {"fail", "results"}
    BY <1>5 DEF SpuriousWake, Goto, TypeOK
  <2> QED  BY <1>0, <1>5, <2>1, DoneFrame DEF SpuriousWake, clientVars, flagVars, batchVars
<1>6. CASE \E w \in Workers : FormationExpire(w)
  BY <1>0, <1>6, DoneFrame DEF FormationExpire, clientVars, flagVars
<1>7. CASE RetireStep
  <2>1. \A v \in Workers : wpc'[v] = wpc[v] \/ wpc'[v] \notin {"fail", "results"}
    BY <1>7, NotifyAllMoves
    DEF RetireStep, StopAccepting, BeginDrain, DrainNotify, RejectQueuedRequests
  <2>2. \A r \in Requests : promise[r] # Unset => promise'[r] # Unset
    BY <1>7 DEF RetireStep, StopAccepting, BeginDrain, DrainNotify, RejectQueuedRequests, SetTwice,
                Unset
  <2> QED  BY <1>0, <1>7, <2>1, <2>2, DoneFrame DEF RetireStep, clientVars, batchVars
<1>8. CASE UNCHANGED vars
  BY <1>0, <1>8, DoneFrame DEF vars, clientVars, flagVars, batchVars
<1> QED  BY <1>1, <1>2, <1>3, <1>4, <1>5, <1>6, <1>7, <1>8 DEF Next

\* Where a request may be: in the queue or in the hands of a worker.
Kept(r) == InQueue(r) \/ \E w \in Workers : Holds(w, r)

\* A request that somebody waits for and that is not late and not answered stays kept.
LEMMA LostFrame ==
    ASSUME NoLostRequest,
           \A r \in Requests : cpc'[r] \in {"notify", "wait"} /\ ~Kept(r)' =>
               cpc[r] \in {"notify", "wait"},
           \A r \in Requests : promise[r] # Unset => promise'[r] # Unset,
           \A r \in Requests : due[r] => due'[r],
           \A r \in Requests : Kept(r) =>
               Kept(r)' \/ cpc[r] = "returned" \/ due[r] \/ promise'[r] # Unset,
           \A r \in Requests : cpc[r] = "returned" => cpc'[r] = "returned"
    PROVE  NoLostRequest'
<1> SUFFICES ASSUME NEW r \in Requests, cpc'[r] \in {"notify", "wait"}, promise'[r] = Unset, ~due'[r],
                    ~Kept(r)'
             PROVE  FALSE
  BY DEF NoLostRequest, Kept
<1>1. cpc[r] \in {"notify", "wait"} /\ promise[r] = Unset /\ ~due[r]
  OBVIOUS
<1>2. Kept(r)
  BY <1>1 DEF NoLostRequest, Kept
<1> QED  BY <1>1, <1>2

\* A worker's step that leaves the queue alone can lose only what w itself held.
LEMMA LostWorker ==
    ASSUME NoLostRequest, NEW w \in Workers, Others(w), UNCHANGED <<queue, cpc, due>>,
           \A r \in Requests : promise[r] # Unset => promise'[r] # Unset,
           \A r \in Requests : Holds(w, r) =>
               Holds(w, r)' \/ cpc[r] = "returned" \/ due[r] \/ promise'[r] # Unset
    PROVE  NoLostRequest'
<1>1. \A r \in Requests : InQueue(r)' <=> InQueue(r)
  BY DEF InQueue
<1>2. \A r \in Requests, v \in Workers \ {w} : Holds(v, r)' <=> Holds(v, r)
  BY DEF Others, Holds
<1>3. \A r \in Requests : Kept(r) =>
        Kept(r)' \/ cpc[r] = "returned" \/ due[r] \/ promise'[r] # Unset
  BY <1>1, <1>2 DEF Kept
<1> QED  BY <1>3, LostFrame

\* A step that takes queue[i] out of the queue has to keep it or to have a reason.
LEMMA LostTaker ==
    ASSUME TypeOK, CustodyInv, NoLostRequest, NEW w \in Workers, Others(w),
           UNCHANGED <<cpc, due, promise>>,
           NEW i \in 1 .. Len(queue), queue' = RemoveAt(queue, i),
           NEW q \in Requests, q = queue[i],
           Holds(w, q)' \/ cpc[q] = "returned" \/ due[q],
           \A r \in Requests : Holds(w, r) => Holds(w, r)'
    PROVE  NoLostRequest'
<1>1. \A r \in Requests : InQueue(r)' <=> InQueue(r) /\ r # queue[i]
  BY TakenOut
<1>2. \A r \in Requests, v \in Workers \ {w} : Holds(v, r)' <=> Holds(v, r)
  BY DEF Others, Holds
<1>3. ASSUME NEW r \in Requests, Kept(r)
      PROVE  Kept(r)' \/ cpc[r] = "returned" \/ due[r]
  <2>1. CASE r = q
    BY <2>1 DEF Kept
  <2>2. CASE r # q /\ InQueue(r)
    <3>1. InQueue(r)'
      BY <1>1, <2>2
    <3> QED  BY <3>1 DEF Kept
  <2>3. CASE \E v \in Workers : Holds(v, r)
    BY <1>2, <2>3 DEF Kept
  <2> QED  BY <1>3, <2>1, <2>2, <2>3 DEF Kept
<1> QED  BY <1>3, LostFrame

LEMMA LostCollect ==
    ASSUME TypeOK, AnswerInv, DeliveryInv, NEW w \in Workers, CollectStep(w)
    PROVE  NoLostRequest'
<1>1. Others(w) /\ UNCHANGED <<cpc, due, promise, cancelled>>
  BY CollectOthers DEF CollectStep, clientVars, flagVars
<1>2. NoLostRequest /\ CustodyInv /\ \A r \in Requests : cancelled[r] => cpc[r] = "returned"
  BY DEF DeliveryInv, DoneInv, AnswerInv
<1>3. NoReply.req \notin Requests
  BY ThreadsAssumption DEF NoReply, NoOne
<1>4. CASE UNCHANGED <<queue, batch, reply>>
  <2>1. \A r \in Requests : Holds(w, r) => Holds(w, r)'
    BY <1>4 DEF Holds
  <2> QED  BY <1>1, <1>2, <1>4, <2>1, LostWorker
<1>5. CASE PopNextPending(w) /\ queue # <<>>
  <2>1. reply' = reply /\ reply[w] = NoReply /\ wpc[w] = "pop"
    BY <1>5 DEF PopNextPending
  <2>2. \A r \in Requests : ~Holds(w, r)
    BY <1>3, <2>1 DEF Holds, DeliveryInv, PlaceInv
  <2>3. queue' = Tail(queue) /\ queue \in Seq(Requests) /\ batch'[w] = {Head(queue)}
    BY <1>5 DEF PopNextPending, MayExit, TypeOK
  <2>4. queue' = RemoveAt(queue, 1) /\ Head(queue) = queue[1] /\ 1 \in 1 .. Len(queue)
    BY <1>5, <2>3, TailIsRemoveAt
  <2>5. PICK q \in Requests : q = queue[1]
    BY <2>3, <2>4
  <2>6. Holds(w, q)'
    BY <2>3, <2>4, <2>5 DEF Holds
  <2> QED  BY <1>1, <1>2, <2>2, <2>4, <2>5, <2>6, LostTaker
<1>6. CASE FormScan(w) /\ ~UNCHANGED <<queue, batch, reply>>
  <2>0. form[w].iterator \in 1 .. Len(queue) /\ queue[form[w].iterator] \in Requests
    BY <1>6, FormScanType
  <2>1. PICK i \in 1 .. Len(queue), q \in Requests : i = form[w].iterator /\ q = queue[i]
    BY <2>0
  <2>2. reply[w] = NoReply
    BY <1>6 DEF FormScan, DeliveryInv, PlaceInv, Replying, Answering
  <2>3. /\ queue' = RemoveAt(queue, i) /\ batch[w] \subseteq batch'[w]
        /\ cancelled[q] \/ due[q] \/ q \in batch'[w]
    BY <1>6, <2>1 DEF FormScan, TypeOK
  <2>4. \A r \in Requests : Holds(w, r) => Holds(w, r)'
    BY <1>3, <2>2, <2>3 DEF Holds
  <2>5. Holds(w, q)' \/ cpc[q] = "returned" \/ due[q]
    BY <1>2, <2>3 DEF Holds
  <2> QED  BY <1>1, <1>2, <2>1, <2>3, <2>4, <2>5, LostTaker
<1> QED
  BY <1>4, <1>5, <1>6 DEF CollectStep, PopNextPending, PopBlock, FormBatch, FormScanEnd, FormWake,
                          ExpiredNotify, FormRescan, FormJoined, batchVars

LEMMA LostProcess ==
    ASSUME TypeOK, AnswerInv, DeliveryInv, NEW w \in Workers, ProcessStep(w)
    PROVE  NoLostRequest'
<1>1. Others(w) /\ UNCHANGED <<queue, cpc, due, cancelled>>
  BY ProcessOthers DEF ProcessStep, queueVars, clientVars
<1>2. NoLostRequest /\ \A r \in Requests : cancelled[r] => cpc[r] = "returned"
  BY DEF DeliveryInv, DoneInv
<1>3. NoReply.req \notin Requests
  BY ThreadsAssumption DEF NoReply, NoOne
<1>4. \A r \in Requests : promise[r] # Unset => promise'[r] # Unset
  BY PromiseKept
<1>5. SUFFICES ASSUME NEW r \in Requests, Holds(w, r)
               PROVE  Holds(w, r)' \/ cpc[r] = "returned" \/ due[r] \/ promise'[r] # Unset
  BY <1>1, <1>2, <1>4, LostWorker
<1>6. CASE FulfillCheck(w)
  BY <1>2, <1>5, <1>6 DEF FulfillCheck, Holds, Replies, TypeOK
<1>7. CASE FulfillSet(w)
  <2>1. reply[w].req = r => promise'[r] # Unset
    BY <1>7 DEF FulfillSet, Replies, Outcomes, Unset, SetTwice, TypeOK
  <2> QED  BY <1>5, <1>7, <2>1 DEF FulfillSet, Holds
<1>8. CASE LateNext(w) \/ FailNext(w) \/ ResultNext(w)
  BY <1>3, <1>5, <1>8 DEF LateNext, FailNext, ResultNext, Holds
<1>9. CASE ActivePass(w)
  <2>1. reply' = reply /\ reply[w] = NoReply
    BY <1>9 DEF ActivePass
  <2>2. batch'[w] = Active(w)
    BY <1>9 DEF ActivePass, AfterActive, TypeOK
  <2> QED  BY <1>2, <1>3, <1>5, <2>1, <2>2 DEF Holds, Active
<1>10. CASE ProcessSingle(w)
  <2>1. reply[w] = NoReply /\ \A s, u \in batch[w] : s = u
    BY <1>10 DEF ProcessSingle, DeliveryInv, PlaceInv, Replying, Answering
  <2>2. r \in batch[w]
    BY <1>3, <1>5, <2>1 DEF Holds
  <2>3. cancelled[r] \/ due[r] \/ batch' = batch
    BY <1>10, <2>1, <2>2 DEF ProcessSingle
  <2> QED  BY <1>2, <2>2, <2>3 DEF Holds
<1>11. CASE Select(w) \/ RunInference(w)
  BY <1>5, <1>11 DEF Select, RunInference, Holds
<1>12. CASE BatchDone(w)
  <2>1. reply[w] = NoReply /\ todo[w] = {} /\ wpc[w] \in {"results", "fail"} /\ promise' = promise
    BY <1>12 DEF BatchDone
  <2>2. r \in batch[w]
    BY <1>3, <1>5, <2>1 DEF Holds
  <2> QED  BY <1>3, <2>1, <2>2 DEF DeliveryInv, DoneInv
<1> QED  BY <1>6, <1>7, <1>8, <1>9, <1>10, <1>11, <1>12 DEF ProcessStep

LEMMA LostSubmit ==
    ASSUME TypeOK, DeliveryInv, NEW r \in Requests, SubmitStep(r)
    PROVE  NoLostRequest'
<1>1. UNCHANGED <<due, promise, batch, reply>> /\ NoLostRequest
  BY DEF SubmitStep, batchVars, DeliveryInv
<1>2. \A s \in Requests, w \in Workers : Holds(w, s)' <=> Holds(w, s)
  BY <1>1 DEF Holds
<1>3. \A s \in Requests : cpc[s] = "returned" => cpc'[s] = "returned"
  BY DEF SubmitStep, Submit, SubmitLock, SubmitPush, SubmitNotify, SubmitWait, SubmitCancel, Return,
         TypeOK
<1>4. CASE SubmitPush(r)
  <2>1. queue' = Append(queue, r) /\ cpc' = [cpc EXCEPT ![r] = "notify"] /\ queue \in Seq(Requests)
    BY <1>4 DEF SubmitPush, TypeOK
  <2>2. \A s \in Requests : InQueue(s)' <=> InQueue(s) \/ s = r
    BY <2>1 DEF InQueue
  <2>3. \A s \in Requests : cpc'[s] \in {"notify", "wait"} /\ ~Kept(s)' => cpc[s] \in {"notify", "wait"}
    BY <2>1, <2>2 DEF Kept, TypeOK
  <2>4. \A s \in Requests : Kept(s) => Kept(s)'
    BY <1>2, <2>2 DEF Kept
  <2> QED  BY <1>1, <1>3, <2>3, <2>4, LostFrame
<1>5. CASE ~SubmitPush(r)
  <2>1. queue' = queue
    BY <1>5 DEF SubmitStep, Submit, SubmitLock, SubmitNotify, SubmitWait, SubmitCancel
  <2>2. \A s \in Requests : cpc'[s] \in {"notify", "wait"} => cpc[s] \in {"notify", "wait"}
    BY <1>5 DEF SubmitStep, Submit, SubmitLock, SubmitNotify, SubmitWait, SubmitCancel, Return, TypeOK
  <2>3. \A s \in Requests : Kept(s) => Kept(s)'
    BY <1>2, <2>1 DEF Kept, InQueue
  <2> QED  BY <1>1, <1>3, <2>2, <2>3, LostFrame
<1> QED  BY <1>4, <1>5

LEMMA LostRetire ==
    ASSUME TypeOK, AnswerInv, DeliveryInv, RetireStep
    PROVE  NoLostRequest'
<1>1. UNCHANGED <<cpc, due, batch, reply>> /\ NoLostRequest
  BY DEF RetireStep, clientVars, batchVars, DeliveryInv
<1>2. \A s \in Requests, w \in Workers : Holds(w, s)' <=> Holds(w, s)
  BY <1>1 DEF Holds
<1>3. \A s \in Requests : InQueue(s) => InQueue(s)' \/ promise'[s] # Unset
  BY DEF RetireStep, StopAccepting, BeginDrain, DrainNotify, RejectQueuedRequests, InQueue,
         SetTwice, Unset
<1>4. \A s \in Requests : promise[s] # Unset => promise'[s] # Unset
  BY DEF RetireStep, StopAccepting, BeginDrain, DrainNotify, RejectQueuedRequests, SetTwice, Unset
<1>5. \A s \in Requests : Kept(s) => Kept(s)' \/ promise'[s] # Unset
  BY <1>2, <1>3 DEF Kept
<1> QED  BY <1>1, <1>4, <1>5, LostFrame

LEMMA LostStep == TypeOK /\ AnswerInv /\ DeliveryInv /\ [Next]_vars => NoLostRequest'
<1> SUFFICES ASSUME TypeOK, AnswerInv, DeliveryInv, [Next]_vars PROVE NoLostRequest'
  OBVIOUS
<1>1. CASE \E r \in Requests : SubmitStep(r)
  BY <1>1, LostSubmit
<1>2. CASE \E w \in Workers : CollectStep(w)
  BY <1>2, LostCollect
<1>3. CASE \E w \in Workers : ProcessStep(w)
  BY <1>3, LostProcess
<1>4. CASE RetireStep
  BY <1>4, LostRetire
<1>5. CASE \/ \E r \in Requests : Expire(r)
           \/ \E w \in Workers : SpuriousWake(w) \/ FormationExpire(w)
           \/ UNCHANGED vars
  <2>1. UNCHANGED <<queue, cpc, promise, batch, reply>>
    BY <1>5 DEF Expire, SpuriousWake, FormationExpire, vars, queueVars, clientVars, flagVars, batchVars
  <2>2. \A s \in Requests : due[s] => due'[s]
    BY <1>5 DEF Expire, SpuriousWake, FormationExpire, vars, flagVars, TypeOK
  <2> QED  BY <2>1, <2>2 DEF DeliveryInv, NoLostRequest, InQueue, Holds
<1> QED  BY <1>1, <1>2, <1>3, <1>4, <1>5 DEF Next

LEMMA DeliveryInvariant == Spec => []DeliveryInv
<1>1. Init => DeliveryInv
  BY DEF Init, DeliveryInv, PlaceInv, DoneInv, NoLostRequest
<1>2. TypeOK /\ AnswerInv /\ DeliveryInv /\ [Next]_vars => DeliveryInv'
  BY PlaceStep, DoneStep, LostStep DEF DeliveryInv
<1> QED  BY <1>1, <1>2, TypeCorrect, AnswerInvariant, PTL DEF Spec

\* No request is lost: while a submitter waits in time for an answer nobody has given,
\* its request is in the queue or in the hands of a worker.
THEOREM NoRequestIsLost == Spec => []NoLostRequest
<1>1. DeliveryInv => NoLostRequest
  BY DEF DeliveryInv
<1> QED  BY <1>1, DeliveryInvariant, PTL

-----------------------------------------------------------------------------
(* Executors.                                                              *)

\* Every step is one of a submitter, of a worker, of the retiring thread, or one that
\* passes time or wakes a sleeper.
LEMMA StepCases ==
    ASSUME [Next]_vars
    PROVE  \/ \E r \in Requests : SubmitStep(r)
           \/ \E w \in Workers : CollectStep(w)
           \/ \E w \in Workers : ProcessStep(w)
           \/ RetireStep
           \/ \/ \E r \in Requests : Expire(r)
              \/ \E w \in Workers : SpuriousWake(w) \/ FormationExpire(w)
              \/ UNCHANGED vars
BY DEF Next

\* What the last kind of step leaves alone.
LEMMA ElseKeeps ==
    ASSUME TypeOK, \/ \E r \in Requests : Expire(r)
                   \/ \E w \in Workers : SpuriousWake(w) \/ FormationExpire(w)
                   \/ UNCHANGED vars
    PROVE  /\ UNCHANGED <<queue, draining, owner, cpc, result, cancelled, promise, batch, todo, late,
                          reply, exec, inflight, metrics, dpc>>
           /\ \A w \in Workers : wpc'[w] = wpc[w] \/ (wpc[w] = "popWait" /\ wpc'[w] = "pop")
           /\ \A r \in Requests : due[r] => due'[r]
<1>1. UNCHANGED <<queue, draining, owner, cpc, result, cancelled, promise, batch, todo, late, reply,
                  exec, inflight, metrics, dpc>>
  BY DEF Expire, SpuriousWake, FormationExpire, vars, queueVars, clientVars, flagVars, batchVars, execVars
<1>2. \A w \in Workers : wpc'[w] = wpc[w] \/ (wpc[w] = "popWait" /\ wpc'[w] = "pop")
  BY DEF Expire, SpuriousWake, FormationExpire, vars, Goto, TypeOK
<1>3. due' = due \/ \E r \in Requests : due' = [due EXCEPT ![r] = TRUE]
  BY DEF Expire, SpuriousWake, FormationExpire, vars, flagVars
<1>4. \A r \in Requests : due[r] => due'[r]
  BY <1>3, ZenonT(30) DEF TypeOK
<1> QED  BY <1>1, <1>2, <1>4

\* Where the collecting half of a worker's loop goes.
LEMMA CollectPlaces ==
    ASSUME TypeOK, NEW w \in Workers, CollectStep(w)
    PROVE  /\ wpc[w] \in Forming \cup {"pop", "popBlock"}
           /\ wpc'[w] \in Forming \cup {"popBlock", "popWait", "late", "exited", "undefined"}
           /\ wpc[w] \in Forming => wpc'[w] \in Forming \cup {"late", "undefined"}
<1>1. CASE ExpiredNotify(w)
  <2> DEFINE pcs == [wpc EXCEPT ![w] = "rescan"]
  <2>1. wpc[w] = "notifyExpired" /\ wpc' \in NotifyOne(pcs)
    BY <1>1 DEF ExpiredNotify
  <2>2. pcs \in [Workers -> WorkerPlaces] /\ pcs[w] = "rescan" /\ w \notin Waiters
    BY <2>1 DEF TypeOK, WorkerPlaces, Forming, Waiters
  <2> HIDE DEF pcs
  <2>3. wpc'[w] = "rescan"
    BY <2>1, <2>2, NotifyOneMoves
  <2> QED  BY <2>1, <2>3 DEF Forming
<1>2. CASE FormJoined(w)
  <2>1. PICK p \in {"late", "form"} : wpc' \in NotifyOne([wpc EXCEPT ![w] = p]) /\ wpc[w] = "joined"
    BY <1>2 DEF FormJoined
  <2> DEFINE pcs == [wpc EXCEPT ![w] = p]
  <2>2. pcs \in [Workers -> WorkerPlaces] /\ pcs[w] = p /\ w \notin Waiters
    BY <2>1 DEF TypeOK, WorkerPlaces, Forming, Waiters
  <2>3. wpc' \in NotifyOne(pcs)
    BY <2>1
  <2> HIDE DEF pcs
  <2>4. wpc'[w] = p
    BY <2>2, <2>3, NotifyOneMoves
  <2> QED  BY <2>1, <2>4 DEF Forming
<1>3. CASE ~ExpiredNotify(w) /\ ~FormJoined(w)
  BY <1>3 DEF CollectStep, PopNextPending, PopBlock, FormBatch, FormScan, FormScanEnd, FormWake,
     FormRescan, Goto, TypeOK, Forming
<1> QED  BY <1>1, <1>2, <1>3

Used(e) == \E w \in Workers : exec[w] = e

\* An executor is taken exactly while a worker infers on it, by one worker, and its count
\* says so.
ExecInv ==
    /\ \A w \in Workers : wpc[w] = "infer" <=> exec[w] # NoExecutor
    /\ \A e \in Executors : inflight[e] = IF Used(e) THEN 1 ELSE 0
    /\ ExecutorExclusive

\* There is an executor for every worker, so a worker that has none finds one free.
LEMMA FreeExecutor ==
    ASSUME TypeOK, ExecInv, NEW w \in Workers, exec[w] = NoExecutor
    PROVE  \E e \in Executors : ~Used(e)
<1> SUFFICES ASSUME \A e \in Executors : Used(e) PROVE FALSE
  OBVIOUS
<1> DEFINE n == Cardinality(Workers)
           user == [e \in 1 .. n |-> CHOOSE v \in Workers : exec[v] = e]
           rest == Workers \ {w}
<1>0. IsFiniteSet(Workers) /\ n \in Nat
  BY WorkersAssumption, FS_CardinalityType
<1>1. \A e \in 1 .. n : user[e] \in Workers /\ exec[user[e]] = e
  BY DEF Used, Executors
<1>2. \A e \in 1 .. n : user[e] \in rest
  BY <1>0, <1>1 DEF NoExecutor
<1>3. user \in [1 .. n -> rest]
  BY <1>2
<1>4. \A e, f \in 1 .. n : user[e] = user[f] => e = f
  BY <1>1
<1> HIDE DEF user
<1>5. user \in Injection(1 .. n, rest)
  BY <1>3, <1>4 DEF Injection, IsInjective
<1>6. IsFiniteSet(rest) /\ Cardinality(rest) = n - 1
  BY <1>0, FS_RemoveElement
<1>7. Cardinality(1 .. n) = n
  BY <1>0, FS_Interval
<1> HIDE DEF n, rest
<1>8. Cardinality(1 .. n) <= Cardinality(rest)
  BY <1>5, <1>6, FS_Injection
<1> QED  BY <1>0, <1>6, <1>7, <1>8

LEMMA ExecProcess ==
    ASSUME TypeOK, ExecInv, NEW w \in Workers, ProcessStep(w)
    PROVE  ExecInv'
<1>0. Executors \subseteq Nat /\ NoExecutor \notin Executors
  BY DEF Executors, NoExecutor
<1>1. CASE Select(w)
  <2>1. PICK e \in Executors : LeastLoaded(e) /\ exec' = [exec EXCEPT ![w] = e]
                               /\ inflight' = [inflight EXCEPT ![e] = @ + 1]
    BY <1>1 DEF Select
  <2>2. exec[w] = NoExecutor
    BY <1>1 DEF Select, ExecInv
  <2>3. ~Used(e)
    <3>1. PICK f \in Executors : ~Used(f)
      BY <2>2, FreeExecutor
    <3>2. inflight[e] <= inflight[f] /\ inflight[f] = 0
      BY <2>1, <3>1 DEF LeastLoaded, ExecInv
    <3> QED  BY <3>2 DEF ExecInv
  <2>4. exec'[w] = e /\ \A v \in Workers : v # w => exec'[v] = exec[v] /\ exec[v] # e
    BY <2>1, <2>3 DEF Used, TypeOK
  <2>5. \A f \in Executors : Used(f)' <=> Used(f) \/ f = e
    BY <1>0, <2>2, <2>4 DEF Used
  <2>6. \A f \in Executors : inflight'[f] = IF Used(f)' THEN 1 ELSE 0
    BY <2>1, <2>3, <2>5 DEF ExecInv, TypeOK
  <2>7. wpc' = [wpc EXCEPT ![w] = "infer"]
    BY <1>1 DEF Select, Goto
  <2> QED  BY <1>0, <2>2, <2>4, <2>6, <2>7 DEF ExecInv, ExecutorExclusive, TypeOK
<1>2. CASE RunInference(w)
  <2>1. /\ exec' = [exec EXCEPT ![w] = NoExecutor] /\ wpc' = [wpc EXCEPT ![w] = "results"]
        /\ inflight' = [inflight EXCEPT ![exec[w]] = IF @ > 0 THEN @ - 1 ELSE @]
    BY <1>2 DEF RunInference, Goto
  <2>2. exec[w] \in Executors
    BY <1>2 DEF RunInference, ExecInv, TypeOK
  <2>3. \A v \in Workers : v # w => exec'[v] = exec[v] /\ exec[v] # exec[w]
    BY <1>0, <2>1, <2>2 DEF ExecInv, ExecutorExclusive, TypeOK
  <2>4. \A f \in Executors : Used(f)' <=> Used(f) /\ f # exec[w]
    BY <1>0, <2>1, <2>2, <2>3 DEF Used, TypeOK
  <2>5. ASSUME NEW f \in Executors PROVE inflight'[f] = IF Used(f)' THEN 1 ELSE 0
    <3>1. inflight[exec[w]] = 1
      BY <2>2 DEF ExecInv, Used
    <3> QED  BY <2>1, <2>2, <2>4, <2>5, <3>1 DEF ExecInv, TypeOK
  <2> QED  BY <1>0, <2>1, <2>3, <2>5 DEF ExecInv, ExecutorExclusive, TypeOK
<1>3. CASE ~Select(w) /\ ~RunInference(w)
  <2>1. UNCHANGED <<exec, inflight>>
    BY <1>3 DEF ProcessStep, FulfillCheck, FulfillSet, LateNext, ActivePass, FailNext, ProcessSingle,
       ResultNext, BatchDone, execVars
  <2>2. \A v \in Workers : wpc'[v] = "infer" <=> wpc[v] = "infer"
    <3>1. CASE ActivePass(w)
      <4>1. wpc[w] = "late" /\ wpc'[w] \in {"pop", "single", "fail", "select"}
        BY <3>1 DEF ActivePass, AfterActive, Goto, TypeOK
      <4> QED  BY <3>1, <4>1 DEF ActivePass, Goto, TypeOK
    <3>2. CASE ~ActivePass(w)
      BY <1>3, <3>2 DEF ProcessStep, FulfillCheck, FulfillSet, LateNext, FailNext, ProcessSingle,
         ResultNext, BatchDone, Goto, TypeOK
    <3> QED  BY <3>1, <3>2
  <2> QED  BY <2>1, <2>2 DEF ExecInv, ExecutorExclusive, Used
<1> QED  BY <1>1, <1>2, <1>3

LEMMA ExecInvariant == Spec => []ExecInv
<1>1. Init => ExecInv
  BY DEF Init, ExecInv, ExecutorExclusive, Used, Executors, NoExecutor
<1>2. TypeOK /\ ExecInv /\ [Next]_vars => ExecInv'
  <2> SUFFICES ASSUME TypeOK, ExecInv, [Next]_vars PROVE ExecInv'
    OBVIOUS
  <2>1. ASSUME UNCHANGED <<exec, inflight>>,
               \A v \in Workers : wpc'[v] = wpc[v] \/ (wpc[v] # "infer" /\ wpc'[v] # "infer")
        PROVE  ExecInv'
    BY <2>1 DEF ExecInv, ExecutorExclusive, Used
  <2>2. ASSUME NEW r \in Requests, SubmitStep(r) PROVE ExecInv'
    <3>1. UNCHANGED <<exec, inflight>> /\ (wpc' = wpc \/ wpc' \in NotifyOne(wpc))
      BY <2>2 DEF SubmitStep, Submit, SubmitLock, SubmitPush, SubmitNotify, SubmitWait, SubmitCancel, execVars
    <3> QED  BY <2>1, <3>1, NotifyOneMoves DEF TypeOK, Waiters
  <2>3. ASSUME NEW w \in Workers, CollectStep(w) PROVE ExecInv'
    <3>1. UNCHANGED <<exec, inflight>>
      BY <2>3 DEF CollectStep, execVars
    <3>2. \A v \in Workers : v # w => wpc'[v] = wpc[v] \/ (wpc[v] # "infer" /\ wpc'[v] # "infer")
      BY <2>3, CollectOthers DEF Others, Waiters, Awake
    <3>3. wpc[w] # "infer" /\ wpc'[w] # "infer"
      BY <2>3, CollectPlaces DEF Forming
    <3> QED  BY <2>1, <3>1, <3>2, <3>3
  <2>4. CASE RetireStep
    <3>1. UNCHANGED <<exec, inflight>> /\ (wpc' = wpc \/ wpc' = NotifyAll)
      BY <2>4 DEF RetireStep, StopAccepting, BeginDrain, DrainNotify, RejectQueuedRequests, execVars
    <3> QED  BY <2>1, <3>1, NotifyAllMoves DEF Waiters
  <2>5. CASE \/ \E r \in Requests : Expire(r)
             \/ \E w \in Workers : SpuriousWake(w) \/ FormationExpire(w)
             \/ UNCHANGED vars
    BY <2>1, <2>5, ElseKeeps
  <2> QED  BY <2>2, <2>3, <2>4, <2>5, ExecProcess, StepCases
<1> QED  BY <1>1, <1>2, TypeCorrect, PTL DEF Spec

\* Executors are not shared: with an executor per worker, the least loaded one is free.
THEOREM ExecutorsAreNotShared == Spec => []ExecutorExclusive
BY ExecInvariant, PTL DEF ExecInv

-----------------------------------------------------------------------------
(* Answers and the drain.                                                  *)

Answers == {"response", "backend_error", "timeout"}

\* What workers answer, what a promise holds and what submit() passes on; the drain is
\* over only when all workers have left.  rejectQueuedRequests never answers: the workers
\* empty the queue before they leave.
EndInv ==
    /\ dpc # "idle" => draining
    /\ dpc = "drained" => \A w \in Workers : wpc[w] = "exited"
    /\ \A r \in Requests :
         /\ cpc[r] = "expired" => due[r]
         /\ promise[r] \in Answers \cup {Unset}
         /\ result[r] = "response" => promise[r] = "response"
    /\ \A w \in Workers : reply[w] # NoReply => reply[w].res \in Answers

\* Which answers the two halves of a worker's loop set up.
LEMMA RepliesOf ==
    ASSUME TypeOK, NEW w \in Workers, CollectStep(w) \/ ProcessStep(w)
    PROVE  \/ reply' = reply
           \/ reply' = [reply EXCEPT ![w] = NoReply]
           \/ reply' = [reply EXCEPT ![w] = [@ EXCEPT !.checked = TRUE]] /\ reply[w] # NoReply
           \/ \E r \in Requests, a \in Answers : reply' = [reply EXCEPT ![w] = ReplyTo(r, a)]
<1>1. CASE CollectStep(w)
  <2>1. CASE FormScan(w)
    BY <2>1, FormScanType DEF FormScan, Answers
  <2>2. CASE ~FormScan(w)
    BY <1>1, <2>2 DEF CollectStep, PopNextPending, PopBlock, FormBatch, FormScanEnd, FormWake,
       ExpiredNotify, FormRescan, FormJoined, batchVars
  <2> QED  BY <2>1, <2>2
<1>2. CASE ProcessStep(w)
  <2>1. \A v \in Workers : batch[v] \subseteq Requests /\ todo[v] \subseteq Requests
    BY DEF TypeOK
  <2>2. CASE FulfillCheck(w)
    BY <2>2 DEF FulfillCheck
  <2>3. CASE LateNext(w) \/ FailNext(w) \/ ResultNext(w)
    BY <2>1, <2>3 DEF LateNext, FailNext, ResultNext, TimeOut, Fulfill, Answers
  <2>4. CASE ProcessSingle(w)
    BY <2>1, <2>4 DEF ProcessSingle, TimeOut, Fulfill, Answers
  <2>5. CASE FulfillSet(w) \/ ActivePass(w) \/ Select(w) \/ RunInference(w) \/ BatchDone(w)
    BY <2>5 DEF FulfillSet, ActivePass, Select, RunInference, BatchDone
  <2> QED  BY <1>2, <2>2, <2>3, <2>4, <2>5 DEF ProcessStep
<1> QED  BY <1>1, <1>2

LEMMA EndWorker ==
    ASSUME TypeOK, AnswerInv, PlaceInv, EndInv, NEW w \in Workers, CollectStep(w) \/ ProcessStep(w)
    PROVE  EndInv'
<1>1. UNCHANGED <<draining, cpc, result, due, dpc>>
  BY DEF CollectStep, ProcessStep, clientVars, flagVars, queueVars
<1>2. dpc # "drained"
  <2>1. wpc[w] # "exited"
    <3>1. CASE CollectStep(w)
      BY <3>1, CollectPlaces DEF Forming
    <3>2. CASE ProcessStep(w)
      BY <3>2 DEF ProcessStep, FulfillCheck, FulfillSet, LateNext, ActivePass, FailNext, ProcessSingle,
         Select, RunInference, ResultNext, BatchDone, PlaceInv, Replying, Answering
    <3> QED  BY <3>1, <3>2
  <2> QED  BY <2>1 DEF EndInv
<1>3. \A v \in Workers : reply'[v] # NoReply => reply'[v].res \in Answers
  <2>1. reply \in [Workers -> Replies \cup {NoReply}]
    BY DEF TypeOK
  <2>2. \A v \in Workers : v # w => reply'[v] = reply[v]
    BY <2>1, RepliesOf
  <2>3. reply'[w] # NoReply => reply'[w].res \in Answers
    <3>1. \A r, a : ReplyTo(r, a).res = a
      BY DEF ReplyTo
    <3>2. reply[w] # NoReply => [reply[w] EXCEPT !.checked = TRUE].res = reply[w].res
      BY <2>1 DEF Replies
    <3>3. CASE reply' = [reply EXCEPT ![w] = [@ EXCEPT !.checked = TRUE]] /\ reply[w] # NoReply
      <4>1. reply'[w] = [reply[w] EXCEPT !.checked = TRUE]
        BY <2>1, <3>3
      <4> QED  BY <3>2, <3>3, <4>1 DEF EndInv
    <3>4. CASE \E r \in Requests, a \in Answers : reply' = [reply EXCEPT ![w] = ReplyTo(r, a)]
      <4>1. \E r \in Requests, a \in Answers : reply'[w] = ReplyTo(r, a)
        BY <2>1, <3>4
      <4> QED  BY <3>1, <4>1
    <3>5. CASE reply' = reply \/ reply' = [reply EXCEPT ![w] = NoReply]
      BY <2>1, <3>5 DEF EndInv
    <3> QED  BY <3>3, <3>4, <3>5, RepliesOf
  <2> QED  BY <2>2, <2>3 DEF EndInv
<1>4. \A r \in Requests : /\ promise'[r] \in Answers \cup {Unset}
                          /\ promise[r] # Unset => promise'[r] = promise[r]
  <2>1. CASE FulfillSet(w)
    <3>1. /\ promise' = [promise EXCEPT ![reply[w].req] = IF @ = Unset THEN reply[w].res ELSE SetTwice]
          /\ reply[w].res \in Answers
      BY <2>1 DEF FulfillSet, EndInv
    <3>2. promise[reply[w].req] = Unset /\ reply[w].req \in Requests
      BY <2>1 DEF FulfillSet, TypeOK, Replies, AnswerInv, PromiseInv
    <3> QED  BY <3>1, <3>2 DEF EndInv, TypeOK
  <2>2. CASE ~FulfillSet(w)
    <3>1. promise' = promise
      BY <2>2 DEF CollectStep, ProcessStep, FulfillCheck, LateNext, ActivePass, FailNext, ProcessSingle,
         Select, RunInference, ResultNext, BatchDone, flagVars
    <3> QED  BY <3>1 DEF EndInv
  <2> QED  BY <2>1, <2>2
<1> QED  BY <1>1, <1>2, <1>3, <1>4 DEF EndInv, Unset

LEMMA EndSubmit ==
    ASSUME TypeOK, QueueInv, EndInv, NEW r \in Requests, SubmitStep(r)
    PROVE  EndInv'
<1>1. UNCHANGED <<draining, due, promise, reply, dpc>>
  BY DEF SubmitStep, batchVars
<1>2. \A w \in Workers : wpc[w] = "exited" => wpc'[w] = "exited"
  <2>1. wpc' = wpc \/ wpc' \in NotifyOne(wpc)
    BY DEF SubmitStep, Submit, SubmitLock, SubmitPush, SubmitNotify, SubmitWait, SubmitCancel
  <2> QED  BY <2>1, NotifyOneMoves DEF TypeOK, Waiters
<1>3. \A s \in Requests : s # r => cpc'[s] = cpc[s] /\ result'[s] = result[s]
  BY DEF SubmitStep, Submit, SubmitLock, SubmitPush, SubmitNotify, SubmitWait, SubmitCancel, Return, TypeOK
<1>4. /\ cpc'[r] = "expired" => due[r]
      /\ result'[r] \in {result[r], promise[r], "draining", "overloaded", "timeout"}
  BY DEF SubmitStep, Submit, SubmitLock, SubmitPush, SubmitNotify, SubmitWait, SubmitCancel, Return, TypeOK
<1> QED  BY <1>1, <1>2, <1>3, <1>4 DEF EndInv

\* The workers leave an empty queue, so there is nobody to reject.
LEMMA NobodyRejected ==
    ASSUME TypeOK, QueueInv, RetireStep
    PROVE  promise' = promise
<1>1. CASE RejectQueuedRequests
  <2>1. queue = <<>>
    BY <1>1, WorkersAssumption DEF RejectQueuedRequests, QueueInv, ExitInv
  <2>2. \A r \in Requests : ~InQueue(r)
    BY <2>1 DEF InQueue
  <2>3. \A r \in Requests : promise'[r] = promise[r]
    BY <1>1, <2>2 DEF RejectQueuedRequests
  <2>4. promise' = [r \in Requests |-> promise'[r]]
    BY <1>1 DEF RejectQueuedRequests
  <2> QED  BY <2>3, <2>4 DEF TypeOK
<1>2. CASE ~RejectQueuedRequests
  BY <1>2 DEF RetireStep, StopAccepting, BeginDrain, DrainNotify
<1> QED  BY <1>1, <1>2

LEMMA EndRetire ==
    ASSUME TypeOK, QueueInv, EndInv, RetireStep
    PROVE  EndInv'
<1>1. UNCHANGED <<cpc, result, due, reply, promise>>
  BY NobodyRejected DEF RetireStep, clientVars, batchVars
<1>2. /\ dpc' # "idle" => draining'
      /\ dpc' = "drained" => \A w \in Workers : wpc'[w] = "exited"
  BY DEF RetireStep, StopAccepting, BeginDrain, DrainNotify, RejectQueuedRequests, EndInv
<1> QED  BY <1>1, <1>2 DEF EndInv

LEMMA EndInvariant == Spec => []EndInv
<1>1. Init => EndInv
  BY DEF Init, EndInv, NoResult, Unset
<1>2. TypeOK /\ QueueInv /\ AnswerInv /\ DeliveryInv /\ EndInv /\ [Next]_vars => EndInv'
  <2> SUFFICES ASSUME TypeOK, QueueInv, AnswerInv, PlaceInv, EndInv, [Next]_vars PROVE EndInv'
    BY DEF DeliveryInv
  <2>1. CASE \/ \E r \in Requests : Expire(r)
             \/ \E w \in Workers : SpuriousWake(w) \/ FormationExpire(w)
             \/ UNCHANGED vars
    <3>1. /\ UNCHANGED <<draining, cpc, result, promise, reply, dpc>>
          /\ \A w \in Workers : wpc'[w] = wpc[w] \/ (wpc[w] = "popWait" /\ wpc'[w] = "pop")
          /\ \A r \in Requests : due[r] => due'[r]
      BY <2>1, ElseKeeps
    <3> QED  BY <3>1 DEF EndInv
  <2> QED  BY <2>1, EndSubmit, EndWorker, EndRetire, StepCases
<1> QED
  BY <1>1, <1>2, TypeCorrect, QueueInvariant, AnswerInvariant, DeliveryInvariant, PTL DEF Spec

\* When beginDrain() has returned, everyone who was accepted and still waits has been given
\* an answer or is past its deadline.
THEOREM DrainLeavesNobody == Spec => []DrainAnswersAccepted
<1>1. TypeOK /\ QueueInv /\ DeliveryInv /\ EndInv => DrainAnswersAccepted
  <2> SUFFICES ASSUME TypeOK, QueueInv, DeliveryInv, EndInv, dpc = "drained", NEW r \in Requests,
                      cpc[r] \in {"notify", "wait", "expired"}, ~due[r]
               PROVE  promise[r] \in Outcomes
    BY DEF DrainAnswersAccepted
  <2>1. \A w \in Workers : wpc[w] = "exited" /\ batch[w] = {} /\ reply[w] = NoReply
    BY DEF EndInv, DeliveryInv, PlaceInv, Replying, Answering
  <2>2. queue = <<>>
    BY <2>1, WorkersAssumption DEF QueueInv, ExitInv
  <2>3. ~InQueue(r) /\ \A w \in Workers : ~Holds(w, r)
    BY <2>1, <2>2, ThreadsAssumption DEF InQueue, Holds, NoReply, NoOne
  <2>4. cpc[r] # "expired"
    BY DEF EndInv
  <2>5. promise[r] # Unset
    BY <2>3, <2>4 DEF DeliveryInv, NoLostRequest
  <2> QED  BY <2>5 DEF EndInv, Answers, Outcomes
<1> QED  BY <1>1, TypeCorrect, QueueInvariant, DeliveryInvariant, EndInvariant, PTL

-----------------------------------------------------------------------------
(* The counters.                                                           *)

\* Who has been told, or is about to be told, "response" or "timeout" by somebody who has
\* counted it.  formBatch counts an expired request after it set its answer up.
Responded == {r \in Requests : \/ promise[r] = "response"
                               \/ \E w \in Workers : reply[w].req = r /\ reply[w].res = "response"}
TimedOut == {r \in Requests : \/ result[r] = "timeout" \/ promise[r] = "timeout"
                              \/ \E w \in Workers : /\ reply[w].req = r /\ reply[w].res = "timeout"
                                                    /\ wpc[w] # "notifyExpired"}

AtMost(S, n) == IsFiniteSet(S) /\ Cardinality(S) <= n

\* fulfillResult begins only after the timeout has been counted.
Unchecked == \A w \in Workers : wpc[w] = "notifyExpired" => ~reply[w].checked

CountInv ==
    /\ AtMost(Responded, metrics.completed) /\ AtMost(TimedOut, metrics.timed_out)
    /\ Unchecked

LEMMA AtMostFewer ==
    ASSUME NEW S, NEW n \in Nat, AtMost(S, n), NEW T, T \subseteq S
    PROVE  AtMost(T, n)
<1>1. IsFiniteSet(T) /\ Cardinality(T) <= Cardinality(S)
  BY FS_Subset DEF AtMost
<1>2. Cardinality(T) \in Nat /\ Cardinality(S) \in Nat
  BY <1>1, FS_CardinalityType DEF AtMost
<1> QED  BY <1>1, <1>2 DEF AtMost

LEMMA AtMostOneMore ==
    ASSUME NEW S, NEW n \in Nat, AtMost(S, n), NEW x, NEW T, T \subseteq S \cup {x}
    PROVE  AtMost(T, n + 1)
<1>1. IsFiniteSet(S \cup {x}) /\ Cardinality(S \cup {x}) <= Cardinality(S) + 1
  <2>1. IsFiniteSet(S) /\ Cardinality(S) \in Nat
    BY FS_CardinalityType DEF AtMost
  <2>2. CASE x \in S
    <3>1. S \cup {x} = S
      BY <2>2
    <3> QED  BY <2>1, <3>1
  <2>3. CASE x \notin S
    BY <2>1, <2>3, FS_AddElement
  <2> QED  BY <2>2, <2>3
<1>2. Cardinality(S \cup {x}) <= n + 1
  BY <1>1, FS_CardinalityType DEF AtMost
<1>3. AtMost(S \cup {x}, n + 1)
  BY <1>1, <1>2 DEF AtMost
<1> QED  BY <1>3, AtMostFewer

LEMMA Counted ==
    ASSUME TypeOK
    PROVE  /\ metrics.completed \in Nat /\ metrics.timed_out \in Nat
           /\ Count("completed") => /\ metrics'.completed = metrics.completed + 1
                                    /\ metrics'.timed_out = metrics.timed_out
           /\ Count("timed_out") => /\ metrics'.timed_out = metrics.timed_out + 1
                                    /\ metrics'.completed = metrics.completed
           /\ Count("accepted") \/ Count("rejected") => /\ metrics'.completed = metrics.completed
                                                       /\ metrics'.timed_out = metrics.timed_out
BY DEF TypeOK, Counters, Count

\* A step counts whom it adds, or adds nobody.
LEMMA CountStep ==
    ASSUME TypeOK, CountInv, Unchecked',
           \/ Responded' \subseteq Responded /\ metrics'.completed = metrics.completed
           \/ \E r : Responded' \subseteq Responded \cup {r} /\ metrics'.completed = metrics.completed + 1,
           \/ TimedOut' \subseteq TimedOut /\ metrics'.timed_out = metrics.timed_out
           \/ \E r : TimedOut' \subseteq TimedOut \cup {r} /\ metrics'.timed_out = metrics.timed_out + 1
    PROVE  CountInv'
<1>1. metrics.completed \in Nat /\ metrics.timed_out \in Nat
  BY Counted
<1>2. AtMost(Responded', metrics'.completed)
  <2>1. AtMost(Responded, metrics.completed)
    BY DEF CountInv
  <2>2. CASE Responded' \subseteq Responded /\ metrics'.completed = metrics.completed
    <3>1. AtMost(Responded', metrics.completed)
      BY <1>1, <2>1, <2>2, AtMostFewer
    <3> QED  BY <2>2, <3>1
  <2>3. CASE \E r : Responded' \subseteq Responded \cup {r} /\ metrics'.completed = metrics.completed + 1
    <3>1. PICK r : Responded' \subseteq Responded \cup {r} /\ metrics'.completed = metrics.completed + 1
      BY <2>3
    <3>2. AtMost(Responded', metrics.completed + 1)
      BY <1>1, <2>1, <3>1, AtMostOneMore
    <3> QED  BY <3>1, <3>2
  <2> QED  BY <2>2, <2>3
<1>3. AtMost(TimedOut', metrics'.timed_out)
  <2>1. AtMost(TimedOut, metrics.timed_out)
    BY DEF CountInv
  <2>2. CASE TimedOut' \subseteq TimedOut /\ metrics'.timed_out = metrics.timed_out
    <3>1. AtMost(TimedOut', metrics.timed_out)
      BY <1>1, <2>1, <2>2, AtMostFewer
    <3> QED  BY <2>2, <3>1
  <2>3. CASE \E r : TimedOut' \subseteq TimedOut \cup {r} /\ metrics'.timed_out = metrics.timed_out + 1
    <3>1. PICK r : TimedOut' \subseteq TimedOut \cup {r} /\ metrics'.timed_out = metrics.timed_out + 1
      BY <2>3
    <3>2. AtMost(TimedOut', metrics.timed_out + 1)
      BY <1>1, <2>1, <3>1, AtMostOneMore
    <3> QED  BY <3>1, <3>2
  <2> QED  BY <2>2, <2>3
<1>4. AtMost(Responded, metrics.completed)' /\ AtMost(TimedOut, metrics.timed_out)'
  BY <1>2, <1>3 DEF AtMost
<1> QED  BY <1>4 DEF CountInv

\* A step that changes no answer and moves nobody to or from notifyExpired.
LEMMA CountFrame ==
    ASSUME TypeOK, CountInv, UNCHANGED <<promise, reply, result>>,
           \A w \in Workers : wpc'[w] = "notifyExpired" <=> wpc[w] = "notifyExpired",
           metrics'.completed = metrics.completed, metrics'.timed_out = metrics.timed_out
    PROVE  CountInv'
<1>1. Responded' \subseteq Responded /\ TimedOut' \subseteq TimedOut
  BY DEF Responded, TimedOut
<1>2. Unchecked'
  BY DEF CountInv, Unchecked
<1> QED  BY <1>1, <1>2, CountStep

LEMMA CountSubmit ==
    ASSUME TypeOK, CountInv, NEW r \in Requests, SubmitStep(r)
    PROVE  CountInv'
<1>1. UNCHANGED <<promise, reply>>
  BY DEF SubmitStep, batchVars
<1>2. \A w \in Workers : wpc'[w] = "notifyExpired" <=> wpc[w] = "notifyExpired"
  <2>1. wpc' = wpc \/ wpc' \in NotifyOne(wpc)
    BY DEF SubmitStep, Submit, SubmitLock, SubmitPush, SubmitNotify, SubmitWait, SubmitCancel
  <2> QED  BY <2>1, NotifyOneMoves DEF TypeOK, Waiters
<1>3. Responded' \subseteq Responded /\ Unchecked'
  BY <1>1, <1>2 DEF Responded, CountInv, Unchecked
<1>4. CASE SubmitCancel(r)
  <2>1. \A s \in Requests : s # r => result'[s] = result[s]
    BY <1>4 DEF SubmitCancel, Return, TypeOK
  <2>2. TimedOut' \subseteq TimedOut \cup {r}
    BY <1>1, <1>2, <2>1 DEF TimedOut
  <2>3. /\ metrics'.timed_out = metrics.timed_out + 1 /\ metrics'.completed = metrics.completed
    BY <1>4, Counted DEF SubmitCancel
  <2> QED  BY <1>3, <2>2, <2>3, CountStep
<1>5. CASE ~SubmitCancel(r)
  <2>1. \A s \in Requests : result'[s] = "timeout" => result[s] = "timeout" \/ promise[s] = "timeout"
    BY <1>5 DEF SubmitStep, Submit, SubmitLock, SubmitPush, SubmitNotify, SubmitWait, Return, TypeOK
  <2>2. TimedOut' \subseteq TimedOut
    BY <1>1, <1>2, <2>1 DEF TimedOut
  <2>3. metrics' = metrics \/ Count("accepted") \/ Count("rejected")
    BY <1>5 DEF SubmitStep, Submit, SubmitLock, SubmitPush, SubmitNotify, SubmitWait
  <2>4. metrics'.timed_out = metrics.timed_out /\ metrics'.completed = metrics.completed
    BY <2>3, Counted
  <2> QED  BY <1>3, <2>2, <2>4, CountStep
<1> QED  BY <1>4, <1>5

LEMMA CountCollect ==
    ASSUME TypeOK, CountInv, NEW w \in Workers, CollectStep(w)
    PROVE  CountInv'
<1>1. UNCHANGED <<promise, result>>
  BY DEF CollectStep, clientVars, flagVars
<1>2. \A v \in Workers : v # w => /\ reply'[v] = reply[v]
                                  /\ wpc'[v] = "notifyExpired" <=> wpc[v] = "notifyExpired"
  BY CollectOthers DEF Others, Waiters, Awake
<1>3. CASE FormScan(w)
  <2>1. /\ wpc[w] = "scan" /\ metrics' = metrics
        /\ \/ reply' = reply /\ wpc'[w] # "notifyExpired"
           \/ \E r : reply' = [reply EXCEPT ![w] = ReplyTo(r, "timeout")] /\ wpc'[w] = "notifyExpired"
    BY <1>3 DEF FormScan, Goto, TypeOK
  <2>2. \/ reply'[w] = reply[w] /\ wpc'[w] # "notifyExpired"
        \/ reply'[w].res = "timeout" /\ ~reply'[w].checked /\ wpc'[w] = "notifyExpired"
    BY <2>1 DEF ReplyTo, TypeOK
  <2>3. Responded' \subseteq Responded /\ TimedOut' \subseteq TimedOut
    BY <1>1, <1>2, <2>1, <2>2 DEF Responded, TimedOut
  <2>4. Unchecked'
    BY <1>2, <2>2 DEF CountInv, Unchecked
  <2> QED  BY <2>1, <2>3, <2>4, CountStep
<1>4. CASE ExpiredNotify(w)
  <2>1. reply' = reply /\ Count("timed_out") /\ wpc[w] = "notifyExpired"
    BY <1>4 DEF ExpiredNotify, batchVars
  <2>2. Responded' \subseteq Responded /\ TimedOut' \subseteq TimedOut \cup {reply[w].req}
    BY <1>1, <1>2, <2>1 DEF Responded, TimedOut
  <2>3. Unchecked'
    BY <1>2, <2>1 DEF CountInv, Unchecked
  <2> QED  BY <2>1, <2>2, <2>3, Counted, CountStep
<1>5. CASE ~FormScan(w) /\ ~ExpiredNotify(w)
  <2>1. UNCHANGED <<reply, metrics>> /\ wpc[w] # "notifyExpired"
    BY <1>5 DEF CollectStep, PopNextPending, PopBlock, FormBatch, FormScanEnd, FormWake, FormRescan,
       FormJoined, batchVars
  <2>2. wpc'[w] # "notifyExpired"
    <3>1. CASE FormJoined(w)
      <4>1. PICK p \in {"late", "form"} : wpc' \in NotifyOne([wpc EXCEPT ![w] = p])
        BY <3>1 DEF FormJoined
      <4> DEFINE pcs == [wpc EXCEPT ![w] = p]
      <4>2. pcs \in [Workers -> WorkerPlaces] /\ pcs[w] = p /\ wpc' \in NotifyOne(pcs)
        BY <4>1 DEF TypeOK, WorkerPlaces, Forming
      <4> HIDE DEF pcs
      <4> QED  BY <4>2, NotifyOneMoves
    <3>2. CASE ~FormJoined(w)
      BY <1>5, <3>2 DEF CollectStep, PopNextPending, PopBlock, FormBatch, FormScanEnd, FormWake,
         FormRescan, Goto, TypeOK
    <3> QED  BY <3>1, <3>2
  <2> QED  BY <1>1, <1>2, <2>1, <2>2, CountFrame
<1> QED  BY <1>3, <1>4, <1>5

\* What a step of processBatch does to answers and counters.
LEMMA ProcessAnswers ==
    ASSUME TypeOK, PlaceInv, NEW w \in Workers, ProcessStep(w)
    PROVE  /\ \A v \in Workers : wpc'[v] = "notifyExpired" <=> wpc[v] = "notifyExpired"
           /\ \/ UNCHANGED <<promise, reply, metrics>>
              \/ FulfillCheck(w) \/ FulfillSet(w)
              \/ \E r \in Requests : Fulfill(w, r, "response") /\ Count("completed") /\ promise' = promise
              \/ \E r \in Requests : Fulfill(w, r, "timeout") /\ Count("timed_out") /\ promise' = promise
              \/ \E r \in Requests : Fulfill(w, r, "backend_error") /\ UNCHANGED <<promise, metrics>>
<1>0. \A v \in Workers : batch[v] \subseteq Requests /\ todo[v] \subseteq Requests
  BY DEF TypeOK
<1>1. CASE FulfillCheck(w) \/ FulfillSet(w)
  BY <1>1 DEF FulfillCheck, FulfillSet
<1>2. CASE LateNext(w) \/ FailNext(w) \/ ResultNext(w)
  BY <1>0, <1>2 DEF LateNext, FailNext, ResultNext, TimeOut
<1>3. CASE ActivePass(w)
  <2>1. wpc[w] = "late" /\ wpc'[w] \in {"pop", "single", "fail", "select"}
    BY <1>3 DEF ActivePass, AfterActive, Goto, TypeOK
  <2> QED  BY <1>3, <2>1 DEF ActivePass, Goto, TypeOK
<1>4. CASE ProcessSingle(w)
  <2>1. wpc[w] = "single" /\ \E p \in {"pop", "select"} : Goto(w, p)
    BY <1>4 DEF ProcessSingle
  <2>2. \A v \in Workers : wpc'[v] = "notifyExpired" <=> wpc[v] = "notifyExpired"
    BY <2>1 DEF Goto, TypeOK
  <2> QED  BY <1>0, <1>4, <2>2 DEF ProcessSingle, TimeOut
<1>5. CASE Select(w) \/ RunInference(w) \/ BatchDone(w)
  BY <1>5 DEF Select, RunInference, BatchDone, Goto, TypeOK
<1> QED  BY <1>1, <1>2, <1>3, <1>4, <1>5 DEF ProcessStep

LEMMA CountProcess ==
    ASSUME TypeOK, AnswerInv, PlaceInv, CountInv, NEW w \in Workers, ProcessStep(w)
    PROVE  CountInv'
<1>1. result' = result /\ reply \in [Workers -> Replies \cup {NoReply}]
  BY DEF ProcessStep, clientVars, TypeOK
<1>2. \A v \in Workers : wpc'[v] = "notifyExpired" <=> wpc[v] = "notifyExpired"
  BY ProcessAnswers
<1>3. CASE UNCHANGED <<promise, reply, metrics>>
  BY <1>1, <1>2, <1>3, CountFrame
<1>4. CASE FulfillCheck(w)
  <2>1. /\ UNCHANGED <<promise, metrics>> /\ reply[w] # NoReply
        /\ \A v \in Workers : v # w => reply'[v] = reply[v]
        /\ \/ reply'[w] = NoReply
           \/ reply'[w] = [reply[w] EXCEPT !.checked = TRUE]
    BY <1>1, <1>4 DEF FulfillCheck
  <2>2. reply'[w] = NoReply \/ (reply'[w].req = reply[w].req /\ reply'[w].res = reply[w].res)
    BY <1>1, <2>1 DEF Replies
  <2>3. NoReply.req \notin Requests
    BY ThreadsAssumption DEF NoReply, NoOne
  <2>4. Responded' \subseteq Responded /\ TimedOut' \subseteq TimedOut
    BY <1>1, <1>2, <2>1, <2>2, <2>3 DEF Responded, TimedOut
  <2>5. Unchecked'
    BY <1>2, <1>4, <2>1 DEF FulfillCheck, CountInv, Unchecked
  <2> QED  BY <2>1, <2>4, <2>5, CountStep
<1>5. CASE FulfillSet(w)
  <2>1. /\ metrics' = metrics /\ reply[w] # NoReply /\ reply'[w] = NoReply
        /\ \A v \in Workers : v # w => reply'[v] = reply[v]
    BY <1>1, <1>5 DEF FulfillSet
  <2>2. reply[w].req \in Requests /\ promise[reply[w].req] = Unset
    BY <1>1, <2>1 DEF Replies, AnswerInv, PromiseInv
  <2>3. /\ promise'[reply[w].req] = reply[w].res
        /\ \A r \in Requests : r # reply[w].req => promise'[r] = promise[r]
    BY <1>5, <2>2 DEF FulfillSet, TypeOK
  <2>4. NoReply.req \notin Requests
    BY ThreadsAssumption DEF NoReply, NoOne
  <2>5. wpc[w] # "notifyExpired"
    BY <1>5 DEF FulfillSet, CountInv, Unchecked
  <2>6. Responded' \subseteq Responded /\ TimedOut' \subseteq TimedOut
    BY <1>1, <1>2, <2>1, <2>3, <2>4, <2>5 DEF Responded, TimedOut
  <2>7. Unchecked'
    BY <1>2, <2>1, <2>5 DEF CountInv, Unchecked
  <2> QED  BY <2>1, <2>6, <2>7, CountStep
<1>6. CASE \E r \in Requests, a \in Answers :
             /\ Fulfill(w, r, a) /\ promise' = promise
             /\ a = "response" => Count("completed")
             /\ a = "timeout" => Count("timed_out")
             /\ a = "backend_error" => metrics' = metrics
  <2>1. PICK r \in Requests, a \in Answers :
             /\ Fulfill(w, r, a) /\ promise' = promise
             /\ a = "response" => Count("completed")
             /\ a = "timeout" => Count("timed_out")
             /\ a = "backend_error" => metrics' = metrics
    BY <1>6
  <2>2. /\ reply'[w].req = r /\ reply'[w].res = a
        /\ \A v \in Workers : v # w => reply'[v] = reply[v]
    BY <1>1, <2>1 DEF Fulfill, ReplyTo
  <2>3. /\ a # "response" => Responded' \subseteq Responded
        /\ a = "response" => Responded' \subseteq Responded \cup {r}
        /\ a # "timeout" => TimedOut' \subseteq TimedOut
        /\ a = "timeout" => TimedOut' \subseteq TimedOut \cup {r}
    BY <1>1, <1>2, <2>1, <2>2 DEF Responded, TimedOut
  <2>4. /\ a = "response" => /\ metrics'.completed = metrics.completed + 1
                             /\ metrics'.timed_out = metrics.timed_out
        /\ a = "timeout" => /\ metrics'.timed_out = metrics.timed_out + 1
                            /\ metrics'.completed = metrics.completed
    BY <2>1, Counted
  <2>5. Unchecked'
    <3>1. ~reply'[w].checked
      BY <1>1, <2>1 DEF Fulfill, ReplyTo
    <3> QED  BY <1>2, <2>2, <3>1 DEF CountInv, Unchecked
  <2> QED  BY <2>1, <2>3, <2>4, <2>5, CountStep DEF Answers
<1>7. \/ UNCHANGED <<promise, reply, metrics>>
      \/ FulfillCheck(w) \/ FulfillSet(w)
      \/ \E r \in Requests, a \in Answers :
             /\ Fulfill(w, r, a) /\ promise' = promise
             /\ a = "response" => Count("completed")
             /\ a = "timeout" => Count("timed_out")
             /\ a = "backend_error" => metrics' = metrics
  <2>1. {"response", "timeout", "backend_error"} \subseteq Answers
    BY DEF Answers
  <2> QED  BY <2>1, ProcessAnswers
<1> QED  BY <1>3, <1>4, <1>5, <1>6, <1>7

LEMMA CountInvariant == Spec => []CountInv
<1>1. Init => CountInv
  <2> SUFFICES ASSUME Init PROVE CountInv
    OBVIOUS
  <2>1. Responded = {} /\ TimedOut = {}
    BY ThreadsAssumption DEF Init, Responded, TimedOut, NoReply, NoOne, NoResult, Unset
  <2>2. metrics.completed = 0 /\ metrics.timed_out = 0 /\ Unchecked
    BY DEF Init, Unchecked
  <2> QED  BY <2>1, <2>2, FS_EmptySet DEF CountInv, AtMost
<1>2. TypeOK /\ QueueInv /\ AnswerInv /\ DeliveryInv /\ CountInv /\ [Next]_vars => CountInv'
  <2> SUFFICES ASSUME TypeOK, QueueInv, AnswerInv, PlaceInv, CountInv, [Next]_vars PROVE CountInv'
    BY DEF DeliveryInv
  <2>1. CASE RetireStep
    <3>1. UNCHANGED <<promise, reply, result, metrics>> /\ (wpc' = wpc \/ wpc' = NotifyAll)
      BY <2>1, NobodyRejected DEF RetireStep, StopAccepting, BeginDrain, DrainNotify,
         RejectQueuedRequests, clientVars, batchVars
    <3> QED  BY <3>1, NotifyAllMoves, CountFrame DEF Waiters
  <2>2. CASE \/ \E r \in Requests : Expire(r)
             \/ \E w \in Workers : SpuriousWake(w) \/ FormationExpire(w)
             \/ UNCHANGED vars
    BY <2>2, ElseKeeps, CountFrame
  <2> QED  BY <2>1, <2>2, CountSubmit, CountCollect, CountProcess, StepCases
<1> QED
  BY <1>1, <1>2, TypeCorrect, QueueInvariant, AnswerInvariant, DeliveryInvariant, PTL DEF Spec

\* The counters miss nobody who was told "response" or "timeout", on any of the paths that
\* count.
THEOREM CountersMissNobody == Spec => []AnswersAreCounted
<1>1. TypeOK /\ EndInv /\ CountInv => AnswersAreCounted
  <2> SUFFICES ASSUME TypeOK, EndInv, CountInv PROVE AnswersAreCounted
    OBVIOUS
  <2>1. /\ {r \in Requests : result[r] = "response"} \subseteq Responded
        /\ {r \in Requests : result[r] = "timeout"} \subseteq TimedOut
    BY DEF EndInv, Responded, TimedOut
  <2>2. /\ AtMost({r \in Requests : result[r] = "response"}, metrics.completed)
        /\ AtMost({r \in Requests : result[r] = "timeout"}, metrics.timed_out)
    BY <2>1, Counted, AtMostFewer DEF CountInv
  <2> QED  BY <2>2 DEF AtMost, AnswersAreCounted
<1> QED  BY <1>1, TypeCorrect, EndInvariant, CountInvariant, PTL

-----------------------------------------------------------------------------
(* Batches.                                                                *)

\* Requests that one execution may serve.
Mergeable(b) ==
    /\ IsFiniteSet(b)
    /\ \A r, s \in b : Compatible(r, s)
    /\ (\E r, s \in b : r # s) => SumOf(BatchSize, b) <= MaxBatchSize

\* Every batch is mergeable, and what formBatch counts in merged_batch_dimension is the
\* size of the batch it has so far.
BatchInv ==
    \A w \in Workers :
        /\ Mergeable(batch[w])
        /\ wpc[w] \in Forming => form[w].front \in batch[w]
                                 /\ form[w].merged = SumOf(BatchSize, batch[w])

LEMMA MergeablePart ==
    ASSUME NEW b, b \subseteq Requests, Mergeable(b), NEW c, c \subseteq b
    PROVE  Mergeable(c)
<1>1. IsFiniteSet(b) /\ \A r \in b : BatchSize[r] \in Nat
  BY BatchAssumption DEF Mergeable
<1>2. IsFiniteSet(c) /\ SumOf(BatchSize, c) <= SumOf(BatchSize, b)
  BY <1>1, FS_Subset, SumOfPart
<1>3. IsFiniteSet(c) /\ \A r \in c : BatchSize[r] \in Nat
  BY <1>1, <1>2
<1>4. SumOf(BatchSize, c) \in Nat /\ SumOf(BatchSize, b) \in Nat
  BY <1>1, <1>3, SumOfStep
<1> QED  BY <1>2, <1>4, LimitsAssumption DEF Mergeable

LEMMA MergeableOne ==
    ASSUME NEW r \in Requests
    PROVE  Mergeable({r}) /\ SumOf(BatchSize, {r}) = BatchSize[r]
<1>1. IsFiniteSet({}) /\ SumOf(BatchSize, {}) = 0 /\ BatchSize[r] \in Nat /\ {} \cup {r} = {r}
  BY FS_EmptySet, SumOfEmpty, BatchAssumption
<1>2. IsFiniteSet({} \cup {r}) /\ SumOf(BatchSize, {} \cup {r}) = SumOf(BatchSize, {}) + BatchSize[r]
  BY <1>1, SumOfJoin
<1> QED  BY <1>1, <1>2 DEF Mergeable, Compatible

LEMMA MergeableJoin ==
    ASSUME NEW b, b \subseteq Requests, Mergeable(b), NEW front \in b, NEW r \in Requests, r \notin b,
           Compatible(front, r), SumOf(BatchSize, b) + BatchSize[r] <= MaxBatchSize
    PROVE  /\ Mergeable(b \cup {r})
           /\ SumOf(BatchSize, b \cup {r}) = SumOf(BatchSize, b) + BatchSize[r]
<1>1. IsFiniteSet(b) /\ \A s \in b : BatchSize[s] \in Nat
  BY BatchAssumption DEF Mergeable
<1>2. BatchSize[r] \in Nat
  BY BatchAssumption
<1>3. /\ IsFiniteSet(b \cup {r})
      /\ SumOf(BatchSize, b \cup {r}) = SumOf(BatchSize, b) + BatchSize[r]
  BY <1>1, <1>2, SumOfJoin
<1>4. \A s, t \in b \cup {r} : Compatible(s, t)
  BY DEF Mergeable, Compatible
<1> QED  BY <1>3, <1>4 DEF Mergeable

\* A worker whose batch shrinks, or that goes on collecting the one it has.
FormKept(v) == form'[v].front = form[v].front /\ form'[v].merged = form[v].merged

LEMMA BatchFrame ==
    ASSUME TypeOK, BatchInv, NEW v \in Workers, batch'[v] \subseteq batch[v],
           wpc'[v] \in Forming => wpc[v] \in Forming /\ batch'[v] = batch[v] /\ FormKept(v)
    PROVE  /\ Mergeable(batch'[v])
           /\ wpc'[v] \in Forming => form'[v].front \in batch'[v]
                                     /\ form'[v].merged = SumOf(BatchSize, batch'[v])
<1>1. Mergeable(batch'[v])
  BY MergeablePart DEF BatchInv, TypeOK
<1> QED  BY <1>1 DEF BatchInv, FormKept

\* Removing from the queue tells the other workers' iterators, and nothing else.
LEMMA DisturbedKeeps ==
    ASSUME TypeOK, NEW w \in Workers, NEW v \in Workers
    PROVE  /\ Disturbed(w)[v].front = form[v].front /\ Disturbed(w)[v].merged = form[v].merged
           /\ Disturbed(w)[w] = form[w]
<1>1. form[v] \in Forms
  BY DEF TypeOK
<1>2. [form[v] EXCEPT !.moved = TRUE].front = form[v].front
      /\ [form[v] EXCEPT !.moved = TRUE].merged = form[v].merged
  BY <1>1 DEF Forms
<1> QED  BY <1>2 DEF Disturbed

\* A step of a worker leaves what the others have collected alone.
LEMMA FormOthers ==
    ASSUME TypeOK, NEW w \in Workers, CollectStep(w), NEW v \in Workers, v # w
    PROVE  FormKept(v)
<1>1. form'[v] = form[v] \/ form'[v] = Disturbed(w)[v]
  <2>1. form \in [Workers -> Forms] /\ Disturbed(w) \in [Workers -> Forms]
    BY DisturbedType DEF TypeOK
  <2>2. CASE PopNextPending(w)
    BY <2>1, <2>2 DEF PopNextPending
  <2>3. CASE FormScan(w)
    BY <2>1, <2>3 DEF FormScan
  <2>4. CASE PopBlock(w) \/ FormWake(w) \/ ExpiredNotify(w)
    BY <2>4 DEF PopBlock, FormWake, ExpiredNotify, batchVars
  <2>5. CASE FormBatch(w) \/ FormScanEnd(w) \/ FormRescan(w) \/ FormJoined(w)
    BY <2>1, <2>5 DEF FormBatch, FormScanEnd, FormRescan, FormJoined, FormReturn
  <2> QED  BY <2>2, <2>3, <2>4, <2>5 DEF CollectStep
<1> QED  BY <1>1, DisturbedKeeps DEF FormKept

\* What a worker that takes a step has in its hands afterwards.
BatchKept(w) ==
    /\ Mergeable(batch'[w])
    /\ wpc'[w] \in Forming => form'[w].front \in batch'[w]
                              /\ form'[w].merged = SumOf(BatchSize, batch'[w])

LEMMA BatchPop ==
    ASSUME TypeOK, BatchInv, NEW w \in Workers, PopNextPending(w)
    PROVE  BatchKept(w)
<1>1. CASE queue # <<>> /\ ~MayExit
  <2> DEFINE r == Head(queue)
             f == Disturbed(w)[w]
  <2>1. r \in Requests
    BY <1>1, FrontType DEF TypeOK
  <2>2. batch' = [batch EXCEPT ![w] = {r}]
        /\ (wpc' = [wpc EXCEPT ![w] = "late"]
            \/ form' = [Disturbed(w) EXCEPT ![w] = [f EXCEPT !.front = r, !.merged = BatchSize[r]]])
    BY <1>1 DEF PopNextPending, Goto, MayExit
  <2>3. batch'[w] = {r} /\ (wpc'[w] = "late"
                            \/ form'[w] = [f EXCEPT !.front = r, !.merged = BatchSize[r]])
    BY <2>2, DisturbedType DEF TypeOK
  <2>4. f \in Forms
    BY DisturbedType DEF TypeOK
  <2>5. /\ [f EXCEPT !.front = r, !.merged = BatchSize[r]].front = r
        /\ [f EXCEPT !.front = r, !.merged = BatchSize[r]].merged = BatchSize[r]
    BY <2>4 DEF Forms
  <2> HIDE DEF r, f
  <2>6. Mergeable({r}) /\ SumOf(BatchSize, {r}) = BatchSize[r]
    BY <2>1, MergeableOne
  <2> QED  BY <2>3, <2>5, <2>6 DEF BatchKept, Forming
<1>2. CASE ~(queue # <<>> /\ ~MayExit)
  <2>1. batch' = batch /\ wpc'[w] \in {"exited", "popBlock"}
    BY <1>2 DEF PopNextPending, Goto, TypeOK
  <2> QED  BY <2>1, BatchFrame DEF BatchKept, Forming
<1> QED  BY <1>1, <1>2

LEMMA BatchScan ==
    ASSUME TypeOK, AnswerInv, BatchInv, NEW w \in Workers, FormScan(w)
    PROVE  BatchKept(w)
<1> DEFINE i == form[w].iterator
           r == queue[i]
           d == Disturbed(w)
<1>0. /\ form \in [Workers -> Forms] /\ d \in [Workers -> Forms] /\ d[w] = form[w] /\ form[w] \in Forms
      /\ i \in 1 .. Len(queue) /\ r \in Requests /\ wpc[w] = "scan"
  BY DisturbedType, DisturbedKeeps, FormScanType DEF TypeOK, FormScan
<1>1. CASE ~cancelled[r] /\ ~due[r] /\ Fits(w, r)
  <2>1. /\ batch' = [batch EXCEPT ![w] = @ \cup {r}] /\ wpc' = [wpc EXCEPT ![w] = "joined"]
        /\ form' = [d EXCEPT ![w] = [d[w] EXCEPT !.merged = @ + BatchSize[r]]]
    BY <1>1 DEF FormScan, Goto
  <2>2. batch'[w] = batch[w] \cup {r} /\ form'[w] = [form[w] EXCEPT !.merged = @ + BatchSize[r]]
    BY <1>0, <2>1 DEF TypeOK
  <2>3. form'[w].front = form[w].front /\ form'[w].merged = form[w].merged + BatchSize[r]
    BY <1>0, <2>2 DEF Forms
  <2>4. r \notin batch[w]
    BY <1>0 DEF AnswerInv, CustodyInv, InQueue, Holds
  <2>5. /\ batch[w] \subseteq Requests /\ Mergeable(batch[w])
        /\ form[w].front \in batch[w] /\ form[w].merged = SumOf(BatchSize, batch[w])
    BY <1>0 DEF BatchInv, TypeOK, Forming
  <2>6. Compatible(form[w].front, r) /\ SumOf(BatchSize, batch[w]) + BatchSize[r] <= MaxBatchSize
    BY <1>1, <2>5 DEF Fits
  <2> HIDE DEF r
  <2>7. /\ Mergeable(batch[w] \cup {r})
        /\ SumOf(BatchSize, batch[w] \cup {r}) = SumOf(BatchSize, batch[w]) + BatchSize[r]
    BY <1>0, <2>4, <2>5, <2>6, MergeableJoin
  <2> QED  BY <2>2, <2>3, <2>5, <2>7 DEF BatchKept
<1>2. CASE ~(~cancelled[r] /\ ~due[r] /\ Fits(w, r))
  <2>1. /\ batch' = batch
        /\ \/ form' = [d EXCEPT ![w] = [d[w] EXCEPT !.progress = TRUE]]
           \/ form' = [form EXCEPT ![w] = [form[w] EXCEPT !.iterator = i + 1]]
    BY <1>2 DEF FormScan
  <2>2. \/ form'[w] = [form[w] EXCEPT !.progress = TRUE]
        \/ form'[w] = [form[w] EXCEPT !.iterator = i + 1]
    BY <1>0, <2>1
  <2>3. FormKept(w)
    BY <1>0, <2>2 DEF FormKept, Forms
  <2> QED  BY <1>0, <2>1, <2>3, BatchFrame DEF BatchKept, Forming
<1> QED  BY <1>1, <1>2

LEMMA BatchCollect ==
    ASSUME TypeOK, AnswerInv, BatchInv, NEW w \in Workers, CollectStep(w)
    PROVE  BatchKept(w)
<1>0. form \in [Workers -> Forms] /\ form[w] \in Forms
  BY DEF TypeOK
<1>1. CASE PopNextPending(w) \/ FormScan(w)
  BY <1>1, BatchPop, BatchScan
<1>2. CASE PopBlock(w) \/ FormWake(w) \/ ExpiredNotify(w)
  <2>1. UNCHANGED <<batch, form>> /\ (wpc'[w] \in Forming => wpc[w] \in Forming)
    BY <1>2, CollectPlaces DEF PopBlock, FormWake, ExpiredNotify, batchVars, Goto, TypeOK, Forming
  <2> QED  BY <2>1, BatchFrame DEF BatchKept, FormKept
<1>3. CASE FormBatch(w) \/ FormScanEnd(w) \/ FormRescan(w) \/ FormJoined(w)
  <2>1. batch' = batch /\ wpc[w] \in Forming
    BY <1>3 DEF FormBatch, FormScanEnd, FormRescan, FormJoined, Forming
  <2>2. ASSUME wpc'[w] \in Forming PROVE FormKept(w)
    <3>1. CASE FormBatch(w)
      <4>1. form' = [form EXCEPT ![w] = [form[w] EXCEPT !.iterator = 1, !.progress = FALSE,
                                                        !.elapsed = form[w].delayed]]
        BY <2>2, <3>1 DEF FormBatch, Goto, Forming, TypeOK
      <4>2. form'[w] = [form[w] EXCEPT !.iterator = 1, !.progress = FALSE, !.elapsed = form[w].delayed]
        BY <1>0, <4>1
      <4> QED  BY <1>0, <4>2 DEF FormKept, Forms
    <3>2. CASE FormScanEnd(w)
      <4>1. form' = form
        BY <2>2, <3>2 DEF FormScanEnd, Goto, Forming, TypeOK
      <4> QED  BY <4>1 DEF FormKept
    <3>3. CASE FormRescan(w)
      <4>1. form' = form \/ \E i : form' = [form EXCEPT ![w] = [form[w] EXCEPT !.iterator = i,
                                                                              !.moved = FALSE]]
        BY <3>3 DEF FormRescan
      <4>2. form'[w] = form[w] \/ \E i : form'[w] = [form[w] EXCEPT !.iterator = i, !.moved = FALSE]
        BY <1>0, <4>1
      <4> QED  BY <1>0, <4>2 DEF FormKept, Forms
    <3>4. CASE FormJoined(w)
      <4>1. form' = form
        <5>1. CASE ~ShouldDispatchBatchSize(form[w].merged, form[w].delayed)
          BY <3>4, <5>1 DEF FormJoined
        <5>2. CASE ShouldDispatchBatchSize(form[w].merged, form[w].delayed)
          <6> DEFINE pcs == [wpc EXCEPT ![w] = "late"]
          <6>1. wpc' \in NotifyOne(pcs) /\ wpc[w] = "joined"
            BY <3>4, <5>2 DEF FormJoined
          <6>2. pcs \in [Workers -> WorkerPlaces] /\ pcs[w] = "late" /\ w \notin Waiters
            BY <6>1 DEF TypeOK, WorkerPlaces, Forming, Waiters
          <6> HIDE DEF pcs
          <6>3. wpc'[w] = "late"
            BY <6>1, <6>2, NotifyOneMoves
          <6> QED  BY <2>2, <6>3 DEF Forming
        <5> QED  BY <5>1, <5>2
      <4> QED  BY <4>1 DEF FormKept
    <3> QED  BY <1>3, <3>1, <3>2, <3>3, <3>4
  <2> QED  BY <2>1, <2>2, BatchFrame DEF BatchKept
<1> QED  BY <1>1, <1>2, <1>3 DEF CollectStep

LEMMA BatchProcess ==
    ASSUME TypeOK, BatchInv, NEW w \in Workers, ProcessStep(w)
    PROVE  BatchKept(w)
<1>1. batch'[w] \subseteq batch[w]
  <2>1. CASE ActivePass(w)
    BY <2>1 DEF ActivePass, Active, TypeOK
  <2>2. CASE ~ActivePass(w)
    BY <2>2 DEF ProcessStep, FulfillCheck, FulfillSet, LateNext, FailNext, ProcessSingle, Select,
       RunInference, ResultNext, BatchDone, TypeOK
  <2> QED  BY <2>1, <2>2
<1>2. form' = form
  BY DEF ProcessStep
<1>3. wpc'[w] \in Forming => wpc[w] \in Forming /\ batch'[w] = batch[w]
  <2>1. CASE ActivePass(w)
    BY <2>1 DEF ActivePass, AfterActive, Goto, TypeOK, Forming
  <2>2. CASE ~ActivePass(w)
    BY <2>2 DEF ProcessStep, FulfillCheck, FulfillSet, LateNext, FailNext, ProcessSingle, Select,
       RunInference, ResultNext, BatchDone, Goto, TypeOK, Forming
  <2> QED  BY <2>1, <2>2
<1> QED  BY <1>1, <1>2, <1>3, BatchFrame DEF BatchKept, FormKept

\* A step of one worker, as the others see it.
LEMMA BatchOthers ==
    ASSUME TypeOK, BatchInv, NEW w \in Workers, Others(w), BatchKept(w),
           \A v \in Workers \ {w} : FormKept(v)
    PROVE  BatchInv'
<1>1. ASSUME NEW v \in Workers, v # w PROVE BatchKept(v)
  <2>1. batch'[v] = batch[v] /\ (wpc'[v] \in Forming => wpc[v] \in Forming)
    BY <1>1 DEF Others, Waiters, Awake, Forming
  <2> QED  BY <1>1, <2>1, BatchFrame DEF BatchKept
<1> QED  BY <1>1 DEF BatchKept, BatchInv

\* A step that leaves all batches alone.
LEMMA BatchIdle ==
    ASSUME TypeOK, BatchInv, UNCHANGED batch,
           \A v \in Workers : FormKept(v) /\ (wpc'[v] \in Forming => wpc[v] \in Forming)
    PROVE  BatchInv'
<1>1. ASSUME NEW v \in Workers PROVE BatchKept(v)
  BY BatchFrame DEF BatchKept
<1> QED  BY <1>1 DEF BatchKept, BatchInv

LEMMA BatchInvariant == Spec => []BatchInv
<1>1. Init => BatchInv
  <2>1. Mergeable({})
    BY FS_EmptySet DEF Mergeable
  <2> QED  BY <2>1 DEF Init, BatchInv, Forming
<1>2. TypeOK /\ AnswerInv /\ BatchInv /\ [Next]_vars => BatchInv'
  <2> SUFFICES ASSUME TypeOK, AnswerInv, BatchInv, [Next]_vars PROVE BatchInv'
    OBVIOUS
  <2>1. ASSUME NEW r \in Requests, SubmitStep(r) PROVE BatchInv'
    <3>1. UNCHANGED <<batch, form>> /\ (wpc' = wpc \/ wpc' \in NotifyOne(wpc))
      BY <2>1 DEF SubmitStep, Submit, SubmitLock, SubmitPush, SubmitNotify, SubmitWait, SubmitCancel,
         batchVars
    <3>2. \A v \in Workers : wpc'[v] = wpc[v] \/ (v \in Waiters /\ wpc'[v] = Awake(v))
      BY <3>1, NotifyOneWakes DEF TypeOK
    <3> QED  BY <3>1, <3>2, BatchIdle DEF FormKept, Waiters, Awake, Forming
  <2>2. ASSUME NEW w \in Workers, CollectStep(w) PROVE BatchInv'
    BY <2>2, CollectOthers, FormOthers, BatchCollect, BatchOthers
  <2>3. ASSUME NEW w \in Workers, ProcessStep(w) PROVE BatchInv'
    <3>1. \A v \in Workers : FormKept(v)
      BY <2>3 DEF ProcessStep, FormKept
    <3> QED  BY <2>3, <3>1, ProcessOthers, BatchProcess, BatchOthers
  <2>4. CASE RetireStep
    <3>1. UNCHANGED <<batch, form>> /\ (wpc' = wpc \/ wpc' = NotifyAll)
      BY <2>4 DEF RetireStep, StopAccepting, BeginDrain, DrainNotify, RejectQueuedRequests, batchVars
    <3>2. \A v \in Workers : wpc'[v] = wpc[v] \/ (v \in Waiters /\ wpc'[v] = Awake(v))
      BY <3>1, NotifyAllWakes
    <3> QED  BY <3>1, <3>2, BatchIdle DEF FormKept, Waiters, Awake, Forming
  <2>5. CASE \/ \E r \in Requests : Expire(r)
             \/ \E w \in Workers : SpuriousWake(w) \/ FormationExpire(w)
             \/ UNCHANGED vars
    <3>1. UNCHANGED batch /\ \A v \in Workers : wpc'[v] \in Forming => wpc[v] \in Forming
      BY <2>5, ElseKeeps DEF Forming
    <3>2. form' = form \/ \E w \in Workers : form' = [form EXCEPT ![w] = [form[w] EXCEPT !.delayed = TRUE]]
      BY <2>5 DEF Expire, SpuriousWake, FormationExpire, vars, batchVars
    <3>3. ASSUME NEW v \in Workers PROVE FormKept(v)
      <4>1. form[v] \in Forms /\ (form'[v] = form[v] \/ form'[v] = [form[v] EXCEPT !.delayed = TRUE])
        BY <3>2 DEF TypeOK
      <4> QED  BY <4>1 DEF FormKept, Forms
    <3> QED  BY <3>1, <3>3, BatchIdle
  <2> QED  BY <2>1, <2>2, <2>3, <2>4, <2>5, StepCases
<1> QED  BY <1>1, <1>2, TypeCorrect, AnswerInvariant, PTL DEF Spec

\* Whatever happens to the queue while formBatch collects, a batch of several requests can
\* be merged and is within max_batch_size, for every limit and all batch dimensions.
THEOREM BatchesCanBeMerged == Spec => []BatchWellFormed
<1>1. BatchInv => BatchWellFormed
  <2> SUFFICES ASSUME BatchInv, NEW w \in Workers, Cardinality(batch[w]) > 1
               PROVE  /\ MapThenSumSet(LAMBDA r : BatchSize[r], batch[w]) <= MaxBatchSize
                      /\ \A r, s \in batch[w] : Compatible(r, s)
    BY DEF BatchWellFormed
  <2> DEFINE b == batch[w]
  <2>1. Mergeable(b)
    BY DEF BatchInv
  <2>2. \E r, s \in b : r # s
    <3> SUFFICES ASSUME \A r, s \in b : r = s PROVE FALSE
      OBVIOUS
    <3>1. b = {} \/ \E r : b = {r}
      OBVIOUS
    <3>2. Cardinality({}) = 0 /\ \A r : Cardinality({r}) = 1
      BY FS_EmptySet, FS_Singleton
    <3>3. Cardinality(b) = 0 \/ Cardinality(b) = 1
      BY <3>1, <3>2
    <3> QED  BY <3>3
  <2>3. SumOf(BatchSize, b) <= MaxBatchSize /\ \A r, s \in b : Compatible(r, s)
    BY <2>1, <2>2 DEF Mergeable
  <2> QED  BY <2>3 DEF SumOf
<1> QED  BY <1>1, BatchInvariant, PTL
-----------------------------------------------------------------------------
(* The requests an executor ever worked on.                                *)

Accepted == {"notify", "wait", "expired", "returned"}
Before == Forming \cup {"late", "single", "select"}

\* A request is executed by the worker that collected it, before that worker answers it,
\* and never again: who has been executed is neither queued nor in a batch on its way.
StartedInv ==
    /\ started \subseteq Requests
    /\ \A r \in started : cpc[r] \in Accepted /\ ~InQueue(r)
    /\ \A w \in Workers :
         /\ wpc[w] \in {"infer", "results"} => batch[w] \subseteq started
         /\ wpc[w] \in Before => batch[w] \cap started = {}
         /\ wpc[w] \in {"single", "select", "infer"} => batch[w] # {}
         /\ reply[w].res = "response" => reply[w].req \in started
    /\ \A r \in Requests : promise[r] = "response" => r \in started

SchedulerInv == TypeOK /\ QueueInv /\ AnswerInv /\ PlaceInv /\ EndInv

LEMMA StartedInit == HistoryInit => StartedInv
BY DEF HistoryInit, Init, StartedInv, Before, Forming, Unset, NoReply, NoResult

LEMMA RunningStarted ==
    ASSUME StartedInv PROVE RunningNow \subseteq started
BY DEF StartedInv, RunningNow

\* A step that moves nobody to or from an executor changes nothing that is executed.
LEMMA NothingRuns ==
    ASSUME StartedInv, started' = started \cup RunningNow',
           \A w \in Workers : wpc'[w] = "infer" <=> wpc[w] = "infer",
           \A w \in Workers : wpc[w] = "infer" => batch'[w] = batch[w]
    PROVE  started' = started /\ RunningNow' = RunningNow
<1>1. RunningNow' = RunningNow
  BY DEF RunningNow
<1> QED  BY <1>1, RunningStarted

\* Steps of submitters, of the retiring thread, of the clock, and wake-ups.
LEMMA StartedFrame ==
    ASSUME StartedInv, started' = started \cup RunningNow', UNCHANGED <<batch, reply, promise>>,
           \A r \in Requests : cpc[r] \in Accepted => cpc'[r] \in Accepted,
           \A r \in started : ~InQueue(r)',
           \A w \in Workers : wpc'[w] = wpc[w] \/ (w \in Waiters /\ wpc'[w] = Awake(w))
    PROVE  StartedInv' /\ started' = started /\ RunningNow' = RunningNow
<1>1. \A w \in Workers : \/ wpc'[w] = wpc[w] \/ (wpc[w] = "popWait" /\ wpc'[w] = "pop")
                         \/ (wpc[w] = "formWait" /\ wpc'[w] = "form")
  BY DEF Waiters, Awake
<1>2. started' = started /\ RunningNow' = RunningNow
  BY <1>1, NothingRuns
<1> QED  BY <1>1, <1>2 DEF StartedInv, Before, Forming

LEMMA StartedSubmit ==
    ASSUME SchedulerInv, StartedInv, NEW r \in Requests, SubmitStep(r),
           started' = started \cup RunningNow'
    PROVE  StartedInv' /\ started' = started /\ RunningNow' = RunningNow
<1> USE DEF SchedulerInv
<1>1. UNCHANGED <<batch, reply, promise>>
  BY DEF SubmitStep, batchVars
<1>2. \A w \in Workers : wpc'[w] = wpc[w] \/ (w \in Waiters /\ wpc'[w] = Awake(w))
  <2>1. wpc' = wpc \/ wpc' \in NotifyOne(wpc)
    BY DEF SubmitStep, Submit, SubmitLock, SubmitPush, SubmitNotify, SubmitWait, SubmitCancel
  <2> QED  BY <2>1, NotifyOneWakes DEF TypeOK
<1>3. \A s \in Requests : cpc[s] \in Accepted => cpc'[s] \in Accepted
  BY DEF SubmitStep, Submit, SubmitLock, SubmitPush, SubmitNotify, SubmitWait, SubmitCancel, Return,
     Accepted, TypeOK
<1>4. \A s \in started : ~InQueue(s)'
  <2>1. CASE SubmitPush(r)
    <3>1. r \notin started /\ queue' = Append(queue, r) /\ queue \in Seq(Requests)
      BY <2>1 DEF SubmitPush, StartedInv, Accepted, TypeOK
    <3>2. /\ Len(queue') = Len(queue) + 1 /\ Len(queue) \in Nat
          /\ \A i \in 1 .. Len(queue) : queue'[i] = queue[i]
          /\ queue'[Len(queue) + 1] = r
      BY <3>1
    <3> QED  BY <3>1, <3>2 DEF InQueue, StartedInv
  <2>2. CASE ~SubmitPush(r)
    <3>1. queue' = queue
      BY <2>2 DEF SubmitStep, Submit, SubmitLock, SubmitNotify, SubmitWait, SubmitCancel
    <3> QED  BY <3>1 DEF InQueue, StartedInv
  <2> QED  BY <2>1, <2>2
<1> QED  BY <1>1, <1>2, <1>3, <1>4, StartedFrame

LEMMA StartedElse ==
    ASSUME SchedulerInv, StartedInv, started' = started \cup RunningNow',
           \/ RetireStep
           \/ \E r \in Requests : Expire(r)
           \/ \E w \in Workers : SpuriousWake(w) \/ FormationExpire(w)
           \/ UNCHANGED vars
    PROVE  StartedInv' /\ started' = started /\ RunningNow' = RunningNow
<1> USE DEF SchedulerInv
<1>1. CASE RetireStep
  <2>1. UNCHANGED <<batch, reply, promise, cpc>> /\ (wpc' = wpc \/ wpc' = NotifyAll)
    BY <1>1, NobodyRejected DEF RetireStep, StopAccepting, BeginDrain, DrainNotify,
       RejectQueuedRequests, clientVars, batchVars
  <2>2. queue' = queue \/ queue' = <<>>
    BY <1>1 DEF RetireStep, StopAccepting, BeginDrain, DrainNotify, RejectQueuedRequests
  <2>3. \A r \in started : ~InQueue(r)'
    BY <2>2 DEF StartedInv, InQueue
  <2> QED  BY <2>1, <2>3, NotifyAllWakes, StartedFrame
<1>2. CASE ~RetireStep
  <2>1. /\ UNCHANGED <<batch, reply, promise, cpc, queue>>
        /\ \A w \in Workers : wpc'[w] = wpc[w] \/ (wpc[w] = "popWait" /\ wpc'[w] = "pop")
    BY <1>2, ElseKeeps
  <2>2. \A r \in started : ~InQueue(r)'
    BY <2>1 DEF StartedInv, InQueue
  <2> QED  BY <2>1, <2>2, StartedFrame DEF Waiters, Awake
<1> QED  BY <1>1, <1>2

\* A worker that collects takes what is queued, and nothing that is queued has been
\* executed.
LEMMA CollectTakes ==
    ASSUME TypeOK, CustodyInv, PlaceInv, NEW w \in Workers, CollectStep(w)
    PROVE  /\ \A r \in Requests : InQueue(r)' => InQueue(r)
           /\ \A v \in Workers : v # w => batch'[v] = batch[v]
           /\ \A r \in batch'[w] : r \in batch[w] \/ InQueue(r)
<1>1. queue \in Seq(Requests) /\ batch \in [Workers -> SUBSET Requests]
  BY DEF TypeOK
<1>2. CASE PopNextPending(w)
  <2>1. \/ UNCHANGED <<queue, batch>>
        \/ queue # <<>> /\ queue' = Tail(queue) /\ batch' = [batch EXCEPT ![w] = {Head(queue)}]
    BY <1>2 DEF PopNextPending
  <2>2. CASE UNCHANGED <<queue, batch>>
    BY <2>2 DEF InQueue
  <2>3. CASE queue # <<>> /\ queue' = Tail(queue) /\ batch' = [batch EXCEPT ![w] = {Head(queue)}]
    <3>1. queue' = RemoveAt(queue, 1) /\ Head(queue) = queue[1] /\ 1 \in 1 .. Len(queue)
      BY <1>1, <2>3, TailIsRemoveAt
    <3>2. \A s \in Requests : InQueue(s)' => InQueue(s)
      BY <3>1, TakenOut
    <3>3. InQueue(Head(queue))
      BY <3>1 DEF InQueue
    <3> QED  BY <1>1, <2>3, <3>2, <3>3
  <2> QED  BY <2>1, <2>2, <2>3
<1>3. CASE FormScan(w)
  <2> DEFINE i == form[w].iterator
  <2>1. i \in 1 .. Len(queue) /\ queue[i] \in Requests
    BY <1>3, FormScanType
  <2>2. /\ queue' = queue \/ queue' = RemoveAt(queue, i)
        /\ batch' = batch \/ batch' = [batch EXCEPT ![w] = @ \cup {queue[i]}]
    BY <1>3 DEF FormScan
  <2> HIDE DEF i
  <2>3. \A s \in Requests : InQueue(s)' => InQueue(s)
    <3>1. CASE queue' = queue
      BY <3>1 DEF InQueue
    <3>2. CASE queue' = RemoveAt(queue, i)
      BY <2>1, <3>2, TakenOut
    <3> QED  BY <2>2, <3>1, <3>2
  <2>4. InQueue(queue[i])
    BY <2>1 DEF InQueue
  <2> QED  BY <1>1, <2>2, <2>3, <2>4
<1>4. CASE ~PopNextPending(w) /\ ~FormScan(w)
  <2>1. UNCHANGED <<queue, batch>>
    BY <1>4 DEF CollectStep, PopBlock, FormBatch, FormScanEnd, FormWake, ExpiredNotify, FormRescan,
       FormJoined, batchVars
  <2> QED  BY <2>1 DEF InQueue
<1> QED  BY <1>2, <1>3, <1>4

LEMMA StartedCollect ==
    ASSUME SchedulerInv, StartedInv, NEW w \in Workers, CollectStep(w),
           started' = started \cup RunningNow'
    PROVE  StartedInv' /\ started' = started /\ RunningNow' = RunningNow
<1> USE DEF SchedulerInv
<1>0. CustodyInv /\ started \subseteq Requests
  BY DEF AnswerInv, StartedInv
<1>1. UNCHANGED <<cpc, promise>>
  BY DEF CollectStep, clientVars, flagVars
<1>2. /\ wpc[w] \in Forming \cup {"pop", "popBlock"}
      /\ wpc'[w] \in Forming \cup {"popBlock", "popWait", "late", "exited", "undefined"}
  BY CollectPlaces
<1>3. \A v \in Workers : v # w =>
        /\ batch'[v] = batch[v] /\ reply'[v] = reply[v]
        /\ \/ wpc'[v] = wpc[v] \/ (wpc[v] = "popWait" /\ wpc'[v] = "pop")
           \/ (wpc[v] = "formWait" /\ wpc'[v] = "form")
  BY CollectOthers DEF Others, Waiters, Awake
<1>4. started' = started /\ RunningNow' = RunningNow
  BY <1>2, <1>3, NothingRuns DEF Forming
<1>5. \A r \in started : cpc'[r] \in Accepted /\ ~InQueue(r)'
  BY <1>0, <1>1, CollectTakes DEF StartedInv
<1>6. batch'[w] \cap started = {}
  <2>1. batch[w] \cap started = {}
    BY <1>2 DEF StartedInv, Before, PlaceInv
  <2> QED  BY <1>0, <2>1, CollectTakes DEF StartedInv
<1>7. reply'[w].res = "response" => reply'[w].req \in started
  <2>1. reply'[w] = reply[w] \/ reply'[w].res # "response"
    <3>1. CASE FormScan(w)
      BY <3>1 DEF FormScan, ReplyTo, TypeOK
    <3>2. CASE ~FormScan(w)
      BY <3>2 DEF CollectStep, PopNextPending, PopBlock, FormBatch, FormScanEnd, FormWake,
         ExpiredNotify, FormRescan, FormJoined, batchVars
    <3> QED  BY <3>1, <3>2
  <2> QED  BY <2>1 DEF StartedInv
<1>8. ASSUME NEW v \in Workers
      PROVE  /\ wpc'[v] \in {"infer", "results"} => batch'[v] \subseteq started
             /\ wpc'[v] \in Before => batch'[v] \cap started = {}
             /\ wpc'[v] \in {"single", "select", "infer"} => batch'[v] # {}
             /\ reply'[v].res = "response" => reply'[v].req \in started
  <2>1. CASE v = w
    BY <1>2, <1>6, <1>7, <2>1 DEF Forming
  <2>2. CASE v # w
    BY <1>3, <2>2 DEF StartedInv, Before, Forming
  <2> QED  BY <2>1, <2>2
<1>9. \A r \in Requests : promise'[r] = "response" => r \in started
  BY <1>1 DEF StartedInv
<1> QED  BY <1>0, <1>4, <1>5, <1>8, <1>9 DEF StartedInv

\* Where a step of processBatch leads to, and what it does to the batch.
LEMMA ProcessPlaces ==
    ASSUME TypeOK, NEW w \in Workers, ProcessStep(w)
    PROVE  \/ wpc' = wpc /\ batch' = batch
           \/ wpc[w] = "select" /\ wpc'[w] = "infer" /\ batch' = batch
           \/ wpc[w] = "infer" /\ wpc'[w] = "results" /\ batch' = batch
           \/ /\ wpc[w] \in {"late", "single"} /\ wpc'[w] \in {"single", "select"}
              /\ batch'[w] \subseteq batch[w] /\ (wpc[w] = "late" => batch'[w] # {})
              /\ wpc[w] = "single" => batch' = batch
           \/ wpc[w] # "infer" /\ wpc'[w] \in {"pop", "fail"}
<1>1. CASE ActivePass(w)
  <2>1. /\ wpc[w] = "late" /\ wpc'[w] = AfterActive(Active(w))
        /\ batch'[w] = IF wpc'[w] = "pop" THEN {} ELSE Active(w)
    BY <1>1 DEF ActivePass, Goto, TypeOK
  <2>2. /\ AfterActive(Active(w)) \in {"pop", "single", "fail", "select"}
        /\ AfterActive(Active(w)) \in {"single", "select"} => Active(w) # {}
    <3>1. CASE Active(w) = {}
      BY <3>1 DEF AfterActive
    <3>2. CASE Active(w) # {}
      BY <3>2 DEF AfterActive
    <3> QED  BY <3>1, <3>2
  <2>3. Active(w) \subseteq batch[w]
    BY DEF Active
  <2> QED  BY <2>1, <2>2, <2>3
<1>2. CASE ProcessSingle(w)
  BY <1>2 DEF ProcessSingle, Goto, TypeOK
<1>3. CASE ~ActivePass(w) /\ ~ProcessSingle(w)
  BY <1>3 DEF ProcessStep, FulfillCheck, FulfillSet, LateNext, FailNext, Select, RunInference,
     ResultNext, BatchDone, Goto, TypeOK
<1> QED  BY <1>1, <1>2, <1>3

LEMMA ProcessRuns ==
    ASSUME SchedulerInv, StartedInv, NEW w \in Workers, ProcessStep(w),
           started' = started \cup RunningNow'
    PROVE  \/ /\ wpc[w] = "select" /\ wpc'[w] = "infer" /\ batch' = batch
              /\ RunningNow' = RunningNow \cup batch[w] /\ started' = started \cup batch[w]
           \/ /\ wpc[w] = "infer" /\ wpc'[w] = "results" /\ batch' = batch
              /\ RunningNow' = RunningNow \ batch[w] /\ started' = started
           \/ /\ RunningNow' = RunningNow /\ started' = started
              /\ wpc[w] # "select"
              /\ \/ wpc' = wpc /\ batch' = batch
                 \/ wpc[w] # "infer" /\ wpc'[w] # "infer"
           \/ wpc' = wpc /\ batch' = batch /\ RunningNow' = RunningNow /\ started' = started
<1> USE DEF SchedulerInv
<1>1. \A v \in Workers : v # w => /\ batch'[v] = batch[v]
                                  /\ wpc'[v] = "infer" <=> wpc[v] = "infer"
  BY ProcessOthers DEF Others, Waiters, Awake
<1>2. RunningNow \subseteq started
  BY RunningStarted
<1>3. CASE wpc[w] = "select" /\ wpc'[w] = "infer" /\ batch' = batch
  <2>1. RunningNow' = RunningNow \cup batch[w]
    BY <1>1, <1>3 DEF RunningNow
  <2> QED  BY <1>2, <1>3, <2>1
<1>4. CASE wpc[w] = "infer" /\ wpc'[w] = "results" /\ batch' = batch
  <2>1. \A v \in Workers : v # w => batch[v] \cap batch[w] = {}
    BY DEF TypeOK, AnswerInv, CustodyInv, Holds
  <2>2. RunningNow' = RunningNow \ batch[w]
    BY <1>1, <1>4, <2>1 DEF RunningNow
  <2> QED  BY <1>2, <1>4, <2>2
<1>5. CASE wpc' = wpc /\ batch' = batch
  BY <1>5, NothingRuns
<1>6. CASE wpc[w] \notin {"select", "infer"} /\ wpc'[w] # "infer"
  BY <1>1, <1>6, NothingRuns
<1>7. CASE wpc[w] = "select" /\ wpc'[w] \in {"pop", "fail"}
  <2>1. FALSE
    BY <1>7 DEF ProcessStep, FulfillCheck, FulfillSet, LateNext, ActivePass, FailNext, ProcessSingle,
       Select, RunInference, ResultNext, BatchDone, Goto, TypeOK
  <2> QED  BY <2>1
<1> QED  BY <1>3, <1>4, <1>5, <1>6, <1>7, ProcessPlaces

LEMMA StartedProcess ==
    ASSUME SchedulerInv, StartedInv, NEW w \in Workers, ProcessStep(w),
           started' = started \cup RunningNow'
    PROVE  StartedInv'
<1> USE DEF SchedulerInv
<1>0. started \subseteq Requests /\ batch \in [Workers -> SUBSET Requests]
  BY DEF StartedInv, TypeOK
<1>1. UNCHANGED <<cpc, queue>>
  BY DEF ProcessStep, queueVars, clientVars
<1>2. \A v \in Workers : v # w =>
        /\ batch'[v] = batch[v] /\ reply'[v] = reply[v]
        /\ \/ wpc'[v] = wpc[v] \/ (wpc[v] = "popWait" /\ wpc'[v] = "pop")
           \/ (wpc[v] = "formWait" /\ wpc'[v] = "form")
  BY ProcessOthers DEF Others, Waiters, Awake
<1>3. /\ started \subseteq started' /\ started' \subseteq started \cup batch[w]
      /\ started' # started => wpc[w] = "select" /\ wpc'[w] = "infer"
  BY ProcessRuns
<1>4. \A r \in started' : r \in Requests /\ cpc'[r] \in Accepted /\ ~InQueue(r)'
  <2>1. \A r \in batch[w] : r \in Requests /\ cpc[r] \in Accepted /\ ~InQueue(r)
    BY <1>0 DEF AnswerInv, CustodyInv, Holds, TypeOK, ClientPlaces, Accepted
  <2> QED  BY <1>0, <1>1, <1>3, <2>1 DEF StartedInv, InQueue
<1>5. \A v \in Workers : v # w => batch[v] \cap batch[w] = {}
  BY DEF TypeOK, AnswerInv, CustodyInv, Holds
<1>6. ASSUME NEW v \in Workers, v # w
      PROVE  /\ wpc'[v] \in {"infer", "results"} => batch'[v] \subseteq started'
             /\ wpc'[v] \in Before => batch'[v] \cap started' = {}
             /\ wpc'[v] \in {"single", "select", "infer"} => batch'[v] # {}
             /\ reply'[v].res = "response" => reply'[v].req \in started'
  BY <1>2, <1>3, <1>5, <1>6 DEF StartedInv, Before, Forming
<1>7. /\ wpc'[w] \in {"infer", "results"} => batch'[w] \subseteq started'
      /\ wpc'[w] \in Before => batch'[w] \cap started' = {}
      /\ wpc'[w] \in {"single", "select", "infer"} => batch'[w] # {}
  <2>1. CASE wpc' = wpc /\ batch' = batch
    BY <1>3, <2>1 DEF StartedInv
  <2>2. CASE wpc[w] = "select" /\ wpc'[w] = "infer" /\ batch' = batch
    BY <2>2, ProcessRuns DEF StartedInv, Before, Forming
  <2>3. CASE wpc[w] = "infer" /\ wpc'[w] = "results" /\ batch' = batch
    BY <1>3, <2>3 DEF StartedInv, Before, Forming
  <2>4. CASE /\ wpc[w] \in {"late", "single"} /\ wpc'[w] \in {"single", "select"}
             /\ batch'[w] \subseteq batch[w] /\ (wpc[w] = "late" => batch'[w] # {})
             /\ wpc[w] = "single" => batch' = batch
    BY <1>3, <2>4 DEF StartedInv, Before
  <2>5. CASE wpc'[w] \in {"pop", "fail"}
    BY <2>5 DEF Before, Forming
  <2> QED  BY <2>1, <2>2, <2>3, <2>4, <2>5, ProcessPlaces
<1>8. reply'[w].res = "response" => reply'[w].req \in started'
  <2>0. reply \in [Workers -> Replies \cup {NoReply}]
    BY DEF TypeOK
  <2>1. CASE ResultNext(w)
    <3>1. wpc[w] = "results"
      BY <2>1 DEF ResultNext
    <3>2. todo[w] \subseteq started
      <4>1. todo[w] \subseteq batch[w]
        BY DEF AnswerInv, TodoInv
      <4> QED  BY <3>1, <4>1 DEF StartedInv
    <3>3. reply' = reply \/ \E r \in todo[w] : reply'[w].req = r
      BY <2>0, <2>1 DEF ResultNext, TimeOut, Fulfill, ReplyTo
    <3> QED  BY <1>3, <3>2, <3>3 DEF StartedInv
  <2>2. CASE FulfillCheck(w)
    <3>1. reply'[w] = NoReply \/ reply'[w] = [reply[w] EXCEPT !.checked = TRUE]
      BY <2>0, <2>2 DEF FulfillCheck
    <3>2. reply[w] \in Replies
      BY <2>0, <2>2 DEF FulfillCheck
    <3>3. reply'[w].res = "response" => reply'[w].req = reply[w].req /\ reply[w].res = "response"
      BY <3>1, <3>2 DEF NoReply, NoResult, Replies
    <3> QED  BY <1>3, <3>3 DEF StartedInv
  <2>3. CASE FulfillSet(w)
    BY <2>0, <2>3 DEF FulfillSet, NoReply, NoResult
  <2>4. CASE LateNext(w) \/ FailNext(w) \/ ProcessSingle(w)
    <3>1. reply' = reply \/ reply'[w].res \in {"timeout", "backend_error"}
      BY <2>0, <2>4 DEF LateNext, FailNext, ProcessSingle, TimeOut, Fulfill, ReplyTo
    <3> QED  BY <1>3, <3>1 DEF StartedInv
  <2>5. CASE ActivePass(w) \/ Select(w) \/ RunInference(w) \/ BatchDone(w)
    <3>1. reply' = reply
      BY <2>5 DEF ActivePass, Select, RunInference, BatchDone
    <3> QED  BY <1>3, <3>1 DEF StartedInv
  <2> QED  BY <2>1, <2>2, <2>3, <2>4, <2>5 DEF ProcessStep
<1>9. \A r \in Requests : promise'[r] = "response" => r \in started'
  <2>1. CASE FulfillSet(w)
    <3>1. \A r \in Requests : promise'[r] = promise[r] \/ (r = reply[w].req /\ promise'[r] \in {reply[w].res, SetTwice})
      BY <2>1 DEF FulfillSet, TypeOK
    <3> QED  BY <1>3, <3>1 DEF StartedInv, SetTwice
  <2>2. CASE ~FulfillSet(w)
    <3>1. promise' = promise
      BY <2>2 DEF ProcessStep, FulfillCheck, LateNext, ActivePass, FailNext, ProcessSingle, Select,
         RunInference, ResultNext, BatchDone
    <3> QED  BY <1>3, <3>1 DEF StartedInv
  <2> QED  BY <2>1, <2>2
<1>10. ASSUME NEW v \in Workers
       PROVE  /\ wpc'[v] \in {"infer", "results"} => batch'[v] \subseteq started'
              /\ wpc'[v] \in Before => batch'[v] \cap started' = {}
              /\ wpc'[v] \in {"single", "select", "infer"} => batch'[v] # {}
              /\ reply'[v].res = "response" => reply'[v].req \in started'
  BY <1>6, <1>7, <1>8
<1> QED  BY <1>4, <1>9, <1>10 DEF StartedInv

LEMMA HistoryIsSpec == HistorySpec => Spec
<1>1. HistoryInit => Init
  BY DEF HistoryInit
<1>2. [HistoryNext]_<<vars, started>> => [Next]_vars
  BY DEF HistoryNext
<1> QED  BY <1>1, <1>2, PTL DEF HistorySpec, Spec

LEMMA StartedStep ==
    SchedulerInv /\ StartedInv /\ [HistoryNext]_<<vars, started>> => StartedInv'
<1> SUFFICES ASSUME SchedulerInv, StartedInv, [HistoryNext]_<<vars, started>> PROVE StartedInv'
  OBVIOUS
<1>1. CASE HistoryNext
  <2>1. started' = started \cup RunningNow' /\ [Next]_vars
    BY <1>1 DEF HistoryNext
  <2> QED  BY <2>1, StepCases, StartedSubmit, StartedCollect, StartedProcess, StartedElse
<1>2. CASE UNCHANGED <<vars, started>>
  <2>1. UNCHANGED <<queue, cpc, wpc, batch, reply, promise, started>>
    BY <1>2 DEF vars, queueVars, clientVars, batchVars, flagVars
  <2> QED  BY <2>1 DEF StartedInv, InQueue
<1> QED  BY <1>1, <1>2

LEMMA StartedInvariant == HistorySpec => [](SchedulerInv /\ StartedInv)
<1>1. DeliveryInv => PlaceInv
  BY DEF DeliveryInv
<1>2. TypeOK /\ QueueInv /\ AnswerInv /\ PlaceInv /\ EndInv => SchedulerInv
  BY DEF SchedulerInv
<1>3. Spec => []SchedulerInv
  BY <1>1, <1>2, TypeCorrect, QueueInvariant, AnswerInvariant, DeliveryInvariant, EndInvariant, PTL
<1> QED  BY <1>3, HistoryIsSpec, StartedInit, StartedStep, PTL DEF HistorySpec

-----------------------------------------------------------------------------
(* The refinement.                                                         *)

phaseOf == [r \in Requests |-> Phase(r)]
modeOf == IF dpc = "drained" THEN "drained" ELSE IF draining THEN "closed" ELSE "open"

LEMMA RefinesInit == HistoryInit => Service!Init
<1> SUFFICES ASSUME HistoryInit PROVE Service!Init
  OBVIOUS
<1>1. \A r \in Requests : Phase(r) = "new"
  BY DEF HistoryInit, Init, Phase
<1>2. RunningNow = {}
  BY DEF HistoryInit, Init, RunningNow
<1>3. modeOf = "open"
  BY DEF HistoryInit, Init, modeOf
<1> QED  BY <1>1, <1>2, <1>3 DEF HistoryInit, Init, modeOf, Service!Init, Service!NoAnswer, NoResult

\* The phase of a request follows its submitter alone.
LEMMA PhaseMoves ==
    ASSUME TypeOK, NEW r \in Requests
    PROVE  /\ cpc' = [cpc EXCEPT ![r] = "returned"] => phaseOf' = [phaseOf EXCEPT ![r] = "done"]
           /\ cpc' = [cpc EXCEPT ![r] = "lock"] => phaseOf' = [phaseOf EXCEPT ![r] = "entered"]
           /\ cpc' = [cpc EXCEPT ![r] = "notify"] => phaseOf' = [phaseOf EXCEPT ![r] = "taken"]
<1>1. ASSUME NEW place, NEW p, cpc' = [cpc EXCEPT ![r] = place], Phase(r)' = p
      PROVE  phaseOf' = [phaseOf EXCEPT ![r] = p]
  <2>1. \A s \in Requests : s # r => Phase(s)' = Phase(s)
    BY <1>1 DEF Phase, TypeOK
  <2> QED  BY <1>1, <2>1 DEF phaseOf
<1>2. /\ cpc' = [cpc EXCEPT ![r] = "returned"] => Phase(r)' = "done"
      /\ cpc' = [cpc EXCEPT ![r] = "lock"] => Phase(r)' = "entered"
      /\ cpc' = [cpc EXCEPT ![r] = "notify"] => Phase(r)' = "taken"
  BY DEF Phase, TypeOK
<1> QED  BY <1>1, <1>2

\* A submitter's step is one of Enter, Refuse, Take and Reply, or is not seen.
LEMMA RefinesSubmit ==
    ASSUME SchedulerInv, StartedInv, NEW r \in Requests, SubmitStep(r),
           started' = started \cup RunningNow'
    PROVE  Service!Next \/ UNCHANGED Service!serviceVars
<1> USE DEF SchedulerInv
<1>1. started' = started /\ RunningNow' = RunningNow
  BY StartedSubmit
<1>2. UNCHANGED <<draining, dpc>>
  BY DEF SubmitStep
<1>3. modeOf' = modeOf
  BY <1>2 DEF modeOf
<1>4. /\ draining <=> modeOf # "open"
      /\ modeOf = "drained" <=> dpc = "drained"
  BY DEF modeOf, EndInv
<1>5. /\ cpc[r] = "idle" => phaseOf[r] = "new"
      /\ cpc[r] \in {"lock", "push"} => phaseOf[r] = "entered"
      /\ cpc[r] \in {"notify", "wait", "expired"} => phaseOf[r] = "taken"
  BY DEF phaseOf, Phase
<1>6. ASSUME NEW a, Return(r, a)
      PROVE  Service!Answer(r, a)
  <2>1. phaseOf' = [phaseOf EXCEPT ![r] = "done"] /\ result' = [result EXCEPT ![r] = a]
    BY <1>6, PhaseMoves DEF Return
  <2> QED  BY <1>1, <1>3, <2>1 DEF Service!Answer, phaseOf, modeOf
<1>7. CASE cpc[r] = "idle" /\ draining /\ Return(r, "draining")
  BY <1>4, <1>5, <1>6, <1>7 DEF Service!Next, Service!Refuse, phaseOf, modeOf
<1>8. CASE cpc[r] = "idle" /\ ~draining /\ cpc' = [cpc EXCEPT ![r] = "lock"] /\ result' = result
  <2>1. phaseOf' = [phaseOf EXCEPT ![r] = "entered"]
    BY <1>8, PhaseMoves
  <2> QED  BY <1>1, <1>3, <1>4, <1>5, <1>8, <2>1 DEF Service!Next, Service!Enter, phaseOf, modeOf
<1>9. CASE cpc[r] = "lock" /\ draining /\ Return(r, "draining")
  BY <1>4, <1>5, <1>6, <1>9 DEF Service!Next, Service!Refuse, phaseOf, modeOf
<1>10. CASE cpc[r] = "lock" /\ Return(r, "overloaded")
  BY <1>5, <1>6, <1>10 DEF Service!Next, Service!Refuse, Service!Refusals, phaseOf
<1>11. CASE SubmitPush(r)
  <2>1. dpc # "drained"
    BY <1>11, WorkersAssumption DEF SubmitPush, QueueInv, ExitInv, EndInv
  <2>2. phaseOf' = [phaseOf EXCEPT ![r] = "taken"] /\ result' = result
    BY <1>11, PhaseMoves DEF SubmitPush
  <2> QED
    BY <1>1, <1>3, <1>4, <1>5, <1>11, <2>1, <2>2
    DEF SubmitPush, Service!Next, Service!Take, phaseOf, modeOf
<1>12. CASE cpc[r] = "wait" /\ promise[r] # Unset /\ Return(r, promise[r])
  <2>1. phaseOf[r] = "taken" /\ Service!Answer(r, promise[r])
    BY <1>5, <1>6, <1>12
  <2>2. CASE promise[r] = "response"
    <3>1. r \in started
      BY <2>2 DEF StartedInv
    <3>2. \A w \in Workers : wpc[w] = "infer" => r \notin batch[w]
      BY <1>12 DEF AnswerInv, PromiseInv, Open, Answering
    <3>3. r \notin RunningNow
      BY <3>2 DEF RunningNow
    <3> QED  BY <2>1, <2>2, <3>1, <3>3 DEF Service!Next, Service!Reply, Service!Executed, phaseOf
  <2>3. CASE promise[r] \in {"timeout", "backend_error"}
    BY <2>1, <2>3 DEF Service!Next, Service!Reply, Service!Failures, phaseOf
  <2> QED  BY <1>12, <2>2, <2>3 DEF EndInv, Answers
<1>13. CASE SubmitCancel(r)
  BY <1>5, <1>6, <1>13 DEF SubmitCancel, Service!Next, Service!Reply, Service!Failures, phaseOf
<1>14. CASE /\ result' = result
            /\ \/ cpc[r] = "lock" /\ cpc' = [cpc EXCEPT ![r] = "push"]
               \/ cpc[r] = "notify" /\ cpc' = [cpc EXCEPT ![r] = "wait"]
               \/ cpc[r] = "wait" /\ cpc' = [cpc EXCEPT ![r] = "expired"]
  <2>1. \A s \in Requests : Phase(s)' = Phase(s)
    BY <1>14 DEF Phase, TypeOK
  <2>2. phaseOf' = phaseOf
    BY <2>1 DEF phaseOf
  <2> QED  BY <1>1, <1>3, <1>14, <2>2 DEF Service!serviceVars, phaseOf, modeOf
<1> QED
  BY <1>7, <1>8, <1>9, <1>10, <1>11, <1>12, <1>13, <1>14
  DEF SubmitStep, Submit, SubmitLock, SubmitNotify, SubmitWait, SeesDraining, FutureReady

\* A worker's step hands its batch to an executor, takes it back, or is not seen.
LEMMA RefinesWorker ==
    ASSUME SchedulerInv, StartedInv, NEW w \in Workers, CollectStep(w) \/ ProcessStep(w),
           started' = started \cup RunningNow'
    PROVE  Service!Next \/ UNCHANGED Service!serviceVars
<1> USE DEF SchedulerInv
<1>1. UNCHANGED <<draining, dpc, cpc, result>>
  BY DEF CollectStep, ProcessStep, queueVars, clientVars
<1>2. modeOf' = modeOf /\ phaseOf' = phaseOf
  BY <1>1 DEF modeOf, phaseOf, Phase
<1>3. batch[w] \in SUBSET Requests
  BY DEF TypeOK
<1>4. CASE /\ wpc[w] = "select"
           /\ RunningNow' = RunningNow \cup batch[w] /\ started' = started \cup batch[w]
  <2>1. batch[w] # {} /\ batch[w] \cap started = {}
    BY <1>4 DEF StartedInv, Before
  <2>2. \A r \in batch[w] : cpc[r] \in Accepted
    BY <1>3 DEF AnswerInv, CustodyInv, Holds, TypeOK, ClientPlaces, Accepted
  <2>3. \A r \in batch[w] : phaseOf[r] \in {"taken", "done"}
    BY <1>3, <2>2 DEF phaseOf, Phase, Accepted
  <2>4. modeOf # "drained"
    BY <1>4 DEF EndInv, modeOf
  <2>5. Service!Start(batch[w])
    BY <1>1, <1>2, <1>4, <2>1, <2>3, <2>4 DEF Service!Start, phaseOf, modeOf
  <2> QED  BY <1>3, <2>5 DEF Service!Next
<1>5. CASE wpc[w] = "infer" /\ RunningNow' = RunningNow \ batch[w] /\ started' = started
  <2>1. batch[w] # {} /\ batch[w] \subseteq RunningNow
    BY <1>5 DEF StartedInv, RunningNow
  <2>2. Service!Finish(batch[w])
    BY <1>1, <1>2, <1>5, <2>1 DEF Service!Finish, phaseOf, modeOf
  <2> QED  BY <1>3, <2>2 DEF Service!Next
<1>6. CASE RunningNow' = RunningNow /\ started' = started
  BY <1>1, <1>2, <1>6 DEF Service!serviceVars, phaseOf, modeOf
<1> QED  BY <1>4, <1>5, <1>6, ProcessRuns, StartedCollect

\* The retiring thread closes the service and, when the workers are joined, has drained it.
LEMMA RefinesElse ==
    ASSUME SchedulerInv, StartedInv, started' = started \cup RunningNow',
           \/ RetireStep
           \/ \E r \in Requests : Expire(r)
           \/ \E w \in Workers : SpuriousWake(w) \/ FormationExpire(w)
           \/ UNCHANGED vars
    PROVE  Service!Next \/ UNCHANGED Service!serviceVars
<1> USE DEF SchedulerInv
<1>1. started' = started /\ RunningNow' = RunningNow
  BY StartedElse
<1>2. UNCHANGED <<cpc, result>>
  BY ElseKeeps DEF RetireStep, clientVars
<1>3. phaseOf' = phaseOf
  BY <1>2 DEF phaseOf, Phase
<1>4. CASE UNCHANGED <<draining, dpc>>
  <2>1. modeOf' = modeOf
    BY <1>4 DEF modeOf
  <2> QED  BY <1>1, <1>2, <1>3, <2>1 DEF Service!serviceVars, phaseOf, modeOf
<1>5. CASE StopAccepting \/ BeginDrain \/ DrainNotify
  <2>1. (modeOf = "open" /\ modeOf' = "closed") \/ modeOf' = modeOf
    BY <1>5 DEF StopAccepting, BeginDrain, DrainNotify, modeOf, EndInv
  <2>2. CASE modeOf = "open" /\ modeOf' = "closed"
    BY <1>1, <1>2, <1>3, <2>2 DEF Service!Next, Service!Close, phaseOf, modeOf
  <2>3. CASE modeOf' = modeOf
    BY <1>1, <1>2, <1>3, <2>3 DEF Service!serviceVars, phaseOf, modeOf
  <2> QED  BY <2>1, <2>2, <2>3
<1>6. CASE RejectQueuedRequests
  <2>1. modeOf = "closed" /\ modeOf' = "drained"
    BY <1>6 DEF RejectQueuedRequests, modeOf, EndInv
  <2>2. RunningNow = {}
    BY <1>6 DEF RejectQueuedRequests, RunningNow
  <2> QED  BY <1>1, <1>2, <1>3, <2>1, <2>2 DEF Service!Next, Service!Drained, phaseOf, modeOf
<1> QED  BY <1>4, <1>5, <1>6, ElseKeeps DEF RetireStep

\* Whatever the interleaving, the clients and the registry see the promise of interface
\* Scheduler: a request is refused or taken in, one taken in is executed at most once and
\* never after the drain, and an answer says what happened.
THEOREM SchedulerIsAService == HistorySpec => ImplementsService
<1>1. SchedulerInv /\ StartedInv /\ [HistoryNext]_<<vars, started>> => [Service!Next]_Service!serviceVars
  <2> SUFFICES ASSUME SchedulerInv, StartedInv, [HistoryNext]_<<vars, started>>
               PROVE  Service!Next \/ UNCHANGED Service!serviceVars
    OBVIOUS
  <2>1. CASE HistoryNext
    <3>1. started' = started \cup RunningNow' /\ [Next]_vars
      BY <2>1 DEF HistoryNext
    <3> QED  BY <3>1, StepCases, RefinesSubmit, RefinesWorker, RefinesElse
  <2>2. CASE UNCHANGED <<vars, started>>
    <3>1. started' = started \cup RunningNow' /\ UNCHANGED vars
      <4>1. UNCHANGED <<wpc, batch, started>>
        BY <2>2 DEF vars, batchVars
      <4> QED  BY <2>2, <4>1, RunningStarted DEF RunningNow
    <3> QED  BY <3>1, RefinesElse
  <2> QED  BY <2>1, <2>2
<1> QED
  BY <1>1, RefinesInit, StartedInvariant, PTL DEF HistorySpec, ImplementsService, Service!Service

=============================================================================
