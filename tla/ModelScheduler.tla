--------------------------- MODULE ModelScheduler ---------------------------
(***************************************************************************)
(* The per-model request scheduler of src/src/ModelScheduler.cpp.          *)
(*                                                                         *)
(* Three kinds of thread share it: the HTTP/gRPC threads that are inside   *)
(* submit(), one per request; `instances` worker threads running           *)
(* workerLoop(); and the thread that retires the scheduler, which calls    *)
(* stopAccepting() and beginDrain().  They share the bounded queue and the *)
(* condition variable queue_cv_ under queue_mutex_, the atomic draining_,  *)
(* and for every request its promise and its atomic `cancelled` flag.      *)
(*                                                                         *)
(* Time is abstracted to what the code asks of it: due[r] says that the    *)
(* clock has passed the deadline of r, form[w].delayed that it has passed  *)
(* the formation deadline of the batch w collects.  Tensors are abstracted *)
(* to the two things batching looks at: a shape class and a batch          *)
(* dimension.                                                              *)
(***************************************************************************)
EXTENDS Naturals, Sequences, FiniteSets, FiniteSetsExt

CONSTANTS
    Requests,      \* the calls of submit(); every call has a thread of its own
    Workers,       \* the threads of workers_, SchedulerConfig::instances of them
    MaxQueueSize,  \* SchedulerConfig::max_queue_size
    Batching,      \* DynamicBatchingConfig::enabled and max_batch_size > 1
    MaxBatchSize,  \* DynamicBatchingConfig::max_batch_size
    Preferred,     \* DynamicBatchingConfig::preferred_batch_sizes
    Shape,         \* Shape[r]: datatypes, trailing dimensions and outputs of r; a request
                   \* with a BYTES tensor has a class to itself
    BatchSize,     \* BatchSize[r]: requestBatchSize(r)
    Retires,       \* the registry retires this scheduler at some time
    NoInputs       \* the shape class of a request without input tensors

ASSUME WorkersAssumption == IsFiniteSet(Workers) /\ Workers # {}
ASSUME ThreadsAssumption == Requests \cap Workers = {} /\ "nobody" \notin Requests \cup Workers
ASSUME LimitsAssumption  == MaxQueueSize \in Nat /\ MaxBatchSize \in Nat
ASSUME ModeAssumption    == Batching \in BOOLEAN /\ Retires \in BOOLEAN
ASSUME BatchAssumption   == BatchSize \in [Requests -> Nat]

VARIABLES
    queue,      \* queue_
    draining,   \* draining_
    owner,      \* the thread that keeps queue_mutex_ from one step to the next
    cpc,        \* cpc[r]: where the thread of r is in submit()
    result,     \* result[r]: what submit() returned
    due,        \* the clock has passed PendingRequest::deadline
    cancelled,  \* PendingRequest::cancelled
    promise,    \* PendingRequest::promise
    wpc,        \* wpc[w]: where worker w is
    batch,      \* the requests w collects, executes or answers
    todo,       \* the part of the batch the current loop has not reached
    form,       \* form[w]: the locals of formBatch
    late,       \* the members of the batch past their deadline at execution_finished
    reply,      \* the call of fulfillResult w is inside of
    exec,       \* the executor w runs on
    inflight,   \* ExecutorPool::inflight_
    metrics,    \* the counters of MetricsRecorder
    dpc         \* where the retiring thread is

queueVars  == <<queue, draining, owner>>
clientVars == <<cpc, result>>
flagVars   == <<due, cancelled, promise>>
batchVars  == <<batch, todo, form, reply>>
execVars   == <<late, exec, inflight>>
vars == <<queueVars, clientVars, flagVars, wpc, batchVars, execVars, metrics, dpc>>

-----------------------------------------------------------------------------
(* Threads, results and places.                                            *)

Executors == 1 .. Cardinality(Workers)   \* ModelLifecycle::load makes one per instance
NoExecutor == 0
NoOne   == "nobody"
Retirer == "retirer"

Outcomes  == {"response", "backend_error", "timeout", "draining", "overloaded"}
Unset     == "unset"
SetTwice  == "promise_already_satisfied"   \* set_value throws and ends the process
NoResult  == "none"

NoReply == [req |-> NoOne, res |-> NoResult, checked |-> FALSE]
ReplyTo(r, res) == [req |-> r, res |-> res, checked |-> FALSE]

\* front: batch.front(); merged: merged_batch_dimension; iterator: the queue position
\* looked at; moved: another worker removed from the queue behind that iterator;
\* progress: made_progress; delayed: the clock has passed formation_deadline;
\* elapsed: delay_elapsed, which is `delayed` as read at the top of the loop.
NoForm == [front |-> NoOne, merged |-> 0, iterator |-> 1, moved |-> FALSE,
           progress |-> FALSE, delayed |-> FALSE, elapsed |-> FALSE]

Waiters == {w \in Workers : wpc[w] \in {"popWait", "formWait"}}
Awake(w) == IF wpc[w] = "popWait" THEN "pop" ELSE "form"

\* Mutant of NotifyOne: the notification is forgotten.
NotifyNobody(pcs) == {pcs}

\* queue_cv_.notify_one(): `pcs` is wpc after the caller's own step.
NotifyOne(pcs) ==
    IF Waiters = {} THEN {pcs} ELSE {[pcs EXCEPT ![w] = Awake(w)] : w \in Waiters}

\* Mutant of NotifyAll: the notification is forgotten.
NotifyNone == wpc

\* queue_cv_.notify_all().
NotifyAll == [w \in Workers |-> IF w \in Waiters THEN Awake(w) ELSE wpc[w]]

InQueue(r) == \E i \in 1 .. Len(queue) : queue[i] = r
Holds(w, r) == r \in batch[w] \/ reply[w].req = r

RemoveAt(q, i) == [j \in 1 .. Len(q) - 1 |-> IF j < i THEN q[j] ELSE q[j + 1]]

Count(field) == metrics' = [metrics EXCEPT ![field] = @ + 1]

Init ==
    /\ queue = <<>> /\ draining = FALSE /\ owner = NoOne
    /\ cpc = [r \in Requests |-> "idle"]
    /\ result = [r \in Requests |-> NoResult]
    /\ due = [r \in Requests |-> FALSE]
    /\ cancelled = [r \in Requests |-> FALSE]
    /\ promise = [r \in Requests |-> Unset]
    /\ wpc = [w \in Workers |-> "pop"]
    /\ batch = [w \in Workers |-> {}]
    /\ todo = [w \in Workers |-> {}]
    /\ form = [w \in Workers |-> NoForm]
    /\ late = [w \in Workers |-> {}]
    /\ reply = [w \in Workers |-> NoReply]
    /\ exec = [w \in Workers |-> NoExecutor]
    /\ inflight = [e \in Executors |-> 0]
    /\ metrics = [accepted |-> 0, rejected |-> 0, timed_out |-> 0, completed |-> 0]
    /\ dpc = "idle"

-----------------------------------------------------------------------------
(* submit(), one thread per request.                                       *)

Return(r, res) == /\ cpc' = [cpc EXCEPT ![r] = "returned"]
                  /\ result' = [result EXCEPT ![r] = res]

\* The check in front of the lock, then the deadline and the promise.
Submit(r) ==
    /\ cpc[r] = "idle"
    /\ \/ draining /\ Return(r, "draining")
       \/ ~draining /\ cpc' = [cpc EXCEPT ![r] = "lock"] /\ UNCHANGED result
    /\ UNCHANGED <<queue, owner, cancelled, wpc, metrics>>

\* Mutant of SeesDraining: draining_ is not read again under the lock.
BlindToDraining == FALSE

SeesDraining == draining

\* Mutant of QueueFull: one more than the bound.
QueueOverfull == Len(queue) > MaxQueueSize

QueueFull == Len(queue) >= MaxQueueSize

\* Under queue_mutex_: draining_ again, then the bound.  stopAccepting() does not
\* take the mutex, so draining_ may still change before the push.
SubmitLock(r) ==
    /\ cpc[r] = "lock" /\ owner = NoOne
    /\ \/ SeesDraining /\ Return(r, "draining") /\ UNCHANGED <<owner, metrics>>
       \/ ~SeesDraining /\ QueueFull
          /\ Return(r, "overloaded") /\ Count("rejected") /\ UNCHANGED owner
       \/ ~SeesDraining /\ ~QueueFull
          /\ cpc' = [cpc EXCEPT ![r] = "push"] /\ owner' = r /\ UNCHANGED <<result, metrics>>
    /\ UNCHANGED <<queue, cancelled, wpc>>

SubmitPush(r) ==
    /\ cpc[r] = "push"
    /\ queue' = Append(queue, r) /\ owner' = NoOne
    /\ cpc' = [cpc EXCEPT ![r] = "notify"]
    /\ Count("accepted")
    /\ UNCHANGED <<result, cancelled, wpc>>

SubmitNotify(r) ==
    /\ cpc[r] = "notify"
    /\ wpc' \in NotifyOne(wpc)
    /\ cpc' = [cpc EXCEPT ![r] = "wait"]
    /\ UNCHANGED <<queue, owner, result, cancelled, metrics>>

\* Mutant of FutureReady: the status of wait_until is not looked at.
FutureReadyOrLate(r) == promise[r] # Unset \/ due[r]

FutureReady(r) == promise[r] # Unset

\* future.wait_until(deadline): the future is ready, or the deadline passed first.
SubmitWait(r) ==
    /\ cpc[r] = "wait"
    /\ \/ FutureReady(r) /\ Return(r, promise[r])
       \/ ~FutureReady(r) /\ due[r] /\ cpc' = [cpc EXCEPT ![r] = "expired"] /\ UNCHANGED result
    /\ UNCHANGED <<queue, owner, cancelled, wpc, metrics>>

\* Mutant of SubmitCancel: the timeout is not counted.
SubmitCancelUncounted(r) ==
    /\ cpc[r] = "expired"
    /\ cancelled' = [cancelled EXCEPT ![r] = TRUE]
    /\ Return(r, "timeout")
    /\ UNCHANGED <<queue, owner, wpc, metrics>>

\* The deadline passed: cancel_token, cancelled, requests_timed_out.
SubmitCancel(r) ==
    /\ cpc[r] = "expired"
    /\ cancelled' = [cancelled EXCEPT ![r] = TRUE]
    /\ Count("timed_out")
    /\ Return(r, "timeout")
    /\ UNCHANGED <<queue, owner, wpc>>

-----------------------------------------------------------------------------
(* The clock.                                                              *)

\* Somebody may still compare the deadline of r with the clock.
Live(r) == \/ cpc[r] \in {"lock", "push", "notify", "wait"}
           \/ InQueue(r)
           \/ \E w \in Workers : r \in batch[w]

Expire(r) ==
    /\ cpc[r] # "idle" /\ ~due[r] /\ Live(r)
    /\ due' = [due EXCEPT ![r] = TRUE]
    /\ UNCHANGED <<queueVars, clientVars, cancelled, promise, wpc, batchVars, execVars,
                   metrics, dpc>>

Forming == {"form", "scan", "formWait", "notifyExpired", "rescan", "joined"}

FormationExpire(w) ==
    /\ wpc[w] \in Forming /\ ~form[w].delayed
    /\ form' = [form EXCEPT ![w].delayed = TRUE]
    /\ UNCHANGED <<queueVars, clientVars, flagVars, wpc, batch, todo, reply, execVars,
                   metrics, dpc>>

-----------------------------------------------------------------------------
(* popNextPending and workerLoop.                                          *)

Goto(w, place) == wpc' = [wpc EXCEPT ![w] = place]

\* Removing from the queue invalidates the iterator of a worker that released the
\* mutex in the middle of its scan.
Disturbed(self) ==
    [w \in Workers |->
        IF w # self /\ wpc[w] \in {"notifyExpired", "rescan"}
        THEN [form[w] EXCEPT !.moved = TRUE] ELSE form[w]]

\* formBatch has returned `requests`.  processBatch's first pass is over those that
\* are late now.
StartBatch(w, requests) == todo' = [todo EXCEPT ![w] = {r \in requests : due[r]}]

\* Mutant of MayExit: a draining worker leaves what is queued behind.
MayExitAtOnce == draining

MayExit == draining /\ queue = <<>>

\* queue_cv_.wait evaluates its predicate under the mutex: return nullptr, block, or
\* take the front.
PopNextPending(w) ==
    /\ wpc[w] = "pop" /\ reply[w] = NoReply /\ owner = NoOne
    /\ \/ /\ MayExit
          /\ Goto(w, "exited")
          /\ UNCHANGED <<queue, owner, batch, todo, form>>
       \/ /\ queue = <<>> /\ ~draining
          /\ Goto(w, "popBlock") /\ owner' = w
          /\ UNCHANGED <<queue, batch, todo, form>>
       \/ /\ queue # <<>> /\ ~MayExit
          /\ queue' = Tail(queue)
          /\ batch' = [batch EXCEPT ![w] = {Head(queue)}]
          /\ \/ /\ Batching
                /\ Goto(w, "form")
                /\ form' = [Disturbed(w) EXCEPT ![w] = [@ EXCEPT !.front = Head(queue),
                                                                !.merged = BatchSize[Head(queue)]]]
                /\ UNCHANGED todo
             \/ /\ ~Batching
                /\ Goto(w, "late") /\ StartBatch(w, {Head(queue)})
                /\ UNCHANGED form
          /\ UNCHANGED owner
    /\ UNCHANGED <<reply, metrics>>

\* The predicate was false: release the mutex and sleep.  A notify_all that fell
\* between the two is lost.
PopBlock(w) ==
    /\ wpc[w] = "popBlock"
    /\ Goto(w, "popWait") /\ owner' = NoOne
    /\ UNCHANGED <<queue, batchVars, metrics>>

\* A condition variable may wake without a notification.
SpuriousWake(w) ==
    /\ wpc[w] = "popWait"
    /\ Goto(w, "pop")
    /\ UNCHANGED <<queueVars, clientVars, flagVars, batchVars, execVars, metrics, dpc>>

-----------------------------------------------------------------------------
(* formBatch.                                                              *)

\* areBatchCompatible.
Compatible(r, s) == Shape[r] = Shape[s]

ShouldDispatchBatchSize(dimension, delayElapsed) ==
    dimension # 0 /\ (dimension >= MaxBatchSize \/ dimension \in Preferred \/ delayElapsed)

\* The tests at the top of the loop that end it without a look at the queue.
DispatchNow(w) ==
    \/ Cardinality(batch[w]) > 1 /\ ShouldDispatchBatchSize(form[w].merged, form[w].delayed)
    \/ form[w].merged >= MaxBatchSize

\* formBatch returns, its locals are gone.
FormReturn(w) ==
    /\ StartBatch(w, batch[w])
    /\ form' = [form EXCEPT ![w] = NoForm]

\* The top of the loop, up to and including the lock and the test of draining_.
FormBatch(w) ==
    /\ wpc[w] = "form"
    /\ \/ /\ DispatchNow(w) \/ (owner = NoOne /\ draining)
          /\ Goto(w, "late") /\ FormReturn(w)
          /\ UNCHANGED owner
       \/ /\ ~DispatchNow(w) /\ owner = NoOne /\ ~draining
          /\ Goto(w, "scan") /\ owner' = w
          /\ form' = [form EXCEPT ![w] = [@ EXCEPT !.iterator = 1, !.progress = FALSE,
                                                   !.elapsed = form[w].delayed]]
          /\ UNCHANGED todo
    /\ UNCHANGED <<queue, batch, reply, metrics>>

\* Mutants of Fits: the shape, or the dimension, is not compared.
FitsAnyShape(w, r) == form[w].merged + BatchSize[r] <= MaxBatchSize
FitsAnySize(w, r) == Compatible(form[w].front, r)

Fits(w, r) ==
    /\ Compatible(form[w].front, r)
    /\ form[w].merged + BatchSize[r] <= MaxBatchSize

\* One round of the scan, at the request the iterator points to: a cancelled one is
\* erased, a late one is erased and answered without the mutex, one that does not
\* fit is passed over, one that fits joins the batch.
FormScan(w) ==
    LET i == form[w].iterator
        r == queue[i]
    IN
    /\ wpc[w] = "scan" /\ i <= Len(queue)
    /\ \/ /\ cancelled[r]
          /\ queue' = RemoveAt(queue, i)
          /\ form' = [Disturbed(w) EXCEPT ![w].progress = TRUE]
          /\ UNCHANGED <<owner, wpc, batch, reply>>
       \/ /\ ~cancelled[r] /\ due[r]
          /\ queue' = RemoveAt(queue, i) /\ owner' = NoOne
          /\ form' = [Disturbed(w) EXCEPT ![w].progress = TRUE]
          /\ reply' = [reply EXCEPT ![w] = ReplyTo(r, "timeout")]
          /\ Goto(w, "notifyExpired")
          /\ UNCHANGED batch
       \/ /\ ~cancelled[r] /\ ~due[r] /\ ~Fits(w, r)
          /\ form' = [form EXCEPT ![w].iterator = i + 1]
          /\ UNCHANGED <<queue, owner, wpc, batch, reply>>
       \/ /\ ~cancelled[r] /\ ~due[r] /\ Fits(w, r)
          /\ queue' = RemoveAt(queue, i) /\ owner' = NoOne
          /\ batch' = [batch EXCEPT ![w] = @ \cup {r}]
          /\ form' = [Disturbed(w) EXCEPT ![w].merged = @ + BatchSize[r]]
          /\ Goto(w, "joined")
          /\ UNCHANGED reply
    /\ UNCHANGED <<todo, metrics>>

\* The scan reached the end: again, dispatch, or wait for a request or the delay.
FormScanEnd(w) ==
    /\ wpc[w] = "scan" /\ form[w].iterator > Len(queue)
    /\ owner' = NoOne
    /\ \/ form[w].progress /\ Goto(w, "form") /\ UNCHANGED <<todo, form>>
       \/ ~form[w].progress /\ form[w].elapsed /\ Goto(w, "late") /\ FormReturn(w)
       \/ ~form[w].progress /\ ~form[w].elapsed /\ Goto(w, "formWait")
          /\ UNCHANGED <<todo, form>>
    /\ UNCHANGED <<queue, batch, reply, metrics>>

\* queue_cv_.wait_until returns at its deadline, or spuriously before it.
FormWake(w) ==
    /\ wpc[w] = "formWait"
    /\ Goto(w, "form")
    /\ UNCHANGED <<queue, owner, batchVars, metrics>>

\* The mutex is released: notify_one, then fulfillExpiredRequest, whose answer
\* is the call of fulfillResult `reply` has been set up for.
ExpiredNotify(w) ==
    /\ wpc[w] = "notifyExpired"
    /\ wpc' \in NotifyOne([wpc EXCEPT ![w] = "rescan"])
    /\ Count("timed_out")
    /\ UNCHANGED <<queue, owner, batchVars>>

\* lock.lock() and on with the old iterator.  When another worker removed from the
\* queue meanwhile the iterator is invalid: the behaviour is undefined.  It may
\* denote any position of the queue, or a slot outside of it ("undefined": the
\* worker reads a destroyed element, and nothing more is claimed of it).  A push
\* leaves the position what it was in libstdc++'s deque; that it may also move the
\* deque's map of blocks is left out.
FormRescan(w) ==
    /\ wpc[w] = "rescan" /\ reply[w] = NoReply /\ owner = NoOne
    /\ \/ /\ ~form[w].moved
          /\ Goto(w, "scan") /\ owner' = w
          /\ UNCHANGED form
       \/ /\ form[w].moved
          /\ Goto(w, "scan") /\ owner' = w
          /\ \E i \in 1 .. Len(queue) + 1 :
               form' = [form EXCEPT ![w] = [@ EXCEPT !.iterator = i, !.moved = FALSE]]
       \/ /\ form[w].moved
          /\ Goto(w, "undefined")
          /\ UNCHANGED <<owner, form>>
    /\ UNCHANGED <<queue, batch, todo, reply, metrics>>

\* A request joined: notify_one, then dispatch or another round.
FormJoined(w) ==
    LET dispatch == ShouldDispatchBatchSize(form[w].merged, form[w].delayed)
    IN
    /\ wpc[w] = "joined"
    /\ wpc' \in NotifyOne([wpc EXCEPT ![w] = IF dispatch THEN "late" ELSE "form"])
    /\ \/ dispatch /\ FormReturn(w)
       \/ ~dispatch /\ UNCHANGED <<todo, form>>
    /\ UNCHANGED <<queue, owner, batch, reply, metrics>>

-----------------------------------------------------------------------------
(* fulfillResult: the test of `cancelled` and set_value are two steps.     *)

Fulfill(w, r, res) == reply' = [reply EXCEPT ![w] = ReplyTo(r, res)]

FulfillCheck(w) ==
    /\ reply[w] # NoReply /\ wpc[w] # "notifyExpired" /\ ~reply[w].checked
    /\ reply' = [reply EXCEPT ![w] = IF cancelled[reply[w].req] THEN NoReply
                                     ELSE [@ EXCEPT !.checked = TRUE]]
    /\ UNCHANGED <<promise, wpc, batch, todo, execVars, metrics>>

FulfillSet(w) ==
    /\ reply[w] # NoReply /\ reply[w].checked
    /\ promise' = [promise EXCEPT ![reply[w].req] =
                     IF @ = Unset THEN reply[w].res ELSE SetTwice]
    /\ reply' = [reply EXCEPT ![w] = NoReply]
    /\ UNCHANGED <<wpc, batch, todo, execVars, metrics>>

-----------------------------------------------------------------------------
(* processBatch and processSingle.                                         *)

\* A request is answered with a timeout: cancel_token, counter, fulfillResult.
TimeOut(w, r) ==
    /\ Count("timed_out")
    /\ Fulfill(w, r, "timeout")

\* The first pass answers the members that were late when it started.
LateNext(w) ==
    /\ wpc[w] = "late" /\ reply[w] = NoReply
    /\ \E r \in todo[w] :
         /\ todo' = [todo EXCEPT ![w] = @ \ {r}]
         /\ \/ cancelled[r] /\ UNCHANGED <<metrics, reply>>
            \/ ~cancelled[r] /\ TimeOut(w, r)
    /\ UNCHANGED <<promise, wpc, batch, execVars>>

\* mergeExecutionRequests fails on a request without inputs.
MergeError(requests) == \E r \in requests : Shape[r] = NoInputs

\* Mutant of Active: the second pass forgets what the first one answered.
ActiveUnlessCancelled(w) == {r \in batch[w] : ~cancelled[r]}

Active(w) == {r \in batch[w] : ~cancelled[r] /\ ~due[r]}

\* Mutant of AfterActive: a batch of one is treated as an empty one.
AfterActiveSkipsSingle(active) ==
    IF Cardinality(active) <= 1 THEN "pop"
    ELSE IF MergeError(active) THEN "fail" ELSE "select"

AfterActive(active) ==
    CASE active = {}                    -> "pop"
      [] \E r \in active : active = {r} -> "single"
      [] OTHER -> IF MergeError(active) THEN "fail" ELSE "select"

\* The second pass reads the clock again and keeps the members that are still live.
ActivePass(w) ==
    LET place == AfterActive(Active(w))
    IN
    /\ wpc[w] = "late" /\ reply[w] = NoReply /\ todo[w] = {}
    /\ batch' = [batch EXCEPT ![w] = IF place = "pop" THEN {} ELSE Active(w)]
    /\ todo' = [todo EXCEPT ![w] = IF place = "fail" THEN Active(w) ELSE {}]
    /\ Goto(w, place)
    /\ UNCHANGED <<promise, reply, execVars, metrics>>

\* The merge failed: every member is answered with the backend error.
FailNext(w) ==
    /\ wpc[w] = "fail" /\ reply[w] = NoReply
    /\ \E r \in todo[w] :
         /\ todo' = [todo EXCEPT ![w] = @ \ {r}]
         /\ Fulfill(w, r, "backend_error")
    /\ UNCHANGED <<promise, wpc, batch, execVars, metrics>>

\* processSingle up to pool_.select(): the only member left is tested once more.
ProcessSingle(w) ==
    /\ wpc[w] = "single"
    /\ \E r \in batch[w] :
         \/ /\ cancelled[r]
            /\ batch' = [batch EXCEPT ![w] = {}]
            /\ Goto(w, "pop")
            /\ UNCHANGED <<metrics, reply>>
         \/ /\ ~cancelled[r] /\ due[r]
            /\ TimeOut(w, r)
            /\ batch' = [batch EXCEPT ![w] = {}]
            /\ Goto(w, "pop")
         \/ /\ ~cancelled[r] /\ ~due[r]
            /\ Goto(w, "select")
            /\ UNCHANGED <<metrics, batch, reply>>
    /\ UNCHANGED <<promise, todo, execVars>>

\* Mutant of LeastLoaded: the loads are not compared.
FirstExecutor(e) == e = 1

\* ExecutorPool::select: the first of the executors with the fewest users.
LeastLoaded(e) ==
    /\ \A f \in Executors : inflight[e] <= inflight[f]
    /\ \A f \in Executors : f < e => inflight[e] < inflight[f]

Select(w) ==
    /\ wpc[w] = "select"
    /\ \E e \in Executors :
         /\ LeastLoaded(e)
         /\ exec' = [exec EXCEPT ![w] = e]
         /\ inflight' = [inflight EXCEPT ![e] = @ + 1]
    /\ Goto(w, "infer")
    /\ UNCHANGED <<promise, batch, todo, reply, late, metrics>>

\* runInference returns (it catches what the executor throws), execution_finished is
\* read, and the executor is released.
RunInference(w) ==
    /\ wpc[w] = "infer"
    /\ late' = [late EXCEPT ![w] = {r \in batch[w] : due[r]}]
    /\ inflight' = [inflight EXCEPT ![exec[w]] = IF @ > 0 THEN @ - 1 ELSE @]
    /\ exec' = [exec EXCEPT ![w] = NoExecutor]
    /\ todo' = [todo EXCEPT ![w] = batch[w]]
    /\ Goto(w, "results")
    /\ UNCHANGED <<promise, batch, reply, metrics>>

\* One answer after the execution.  Only processSingle looks at `cancelled` before
\* it counts; "response" is what the executor returned, ok or not.
ResultNext(w) ==
    /\ wpc[w] = "results" /\ reply[w] = NoReply
    /\ \E r \in todo[w] :
         /\ todo' = [todo EXCEPT ![w] = @ \ {r}]
         /\ \/ /\ batch[w] = {r} /\ cancelled[r]
               /\ UNCHANGED <<metrics, reply>>
            \/ /\ ~(batch[w] = {r} /\ cancelled[r]) /\ r \in late[w]
               /\ TimeOut(w, r)
            \/ /\ ~(batch[w] = {r} /\ cancelled[r]) /\ r \notin late[w]
               /\ Count("completed")
               /\ Fulfill(w, r, "response")
    /\ UNCHANGED <<promise, wpc, batch, execVars>>

BatchDone(w) ==
    /\ wpc[w] \in {"results", "fail"} /\ reply[w] = NoReply /\ todo[w] = {}
    /\ batch' = [batch EXCEPT ![w] = {}]
    /\ late' = [late EXCEPT ![w] = {}]
    /\ Goto(w, "pop")
    /\ UNCHANGED <<promise, todo, reply, exec, inflight, metrics>>

-----------------------------------------------------------------------------
(* The thread that retires the scheduler.                                  *)

\* stopAccepting() does not take queue_mutex_.
StopAccepting ==
    /\ Retires /\ dpc = "idle"
    /\ draining' = TRUE
    /\ wpc' = NotifyAll
    /\ dpc' = "stopped"
    /\ UNCHANGED <<queue, promise>>

\* beginDrain(): draining_ under the mutex, notify_all, join, rejectQueuedRequests.
BeginDrain ==
    /\ Retires /\ dpc \in {"idle", "stopped"} /\ owner = NoOne
    /\ draining' = TRUE
    /\ dpc' = "notify"
    /\ UNCHANGED <<queue, promise, wpc>>

DrainNotify ==
    /\ dpc = "notify"
    /\ wpc' = NotifyAll
    /\ dpc' = "join"
    /\ UNCHANGED <<queue, draining, promise>>

\* The workers are joined; what is still queued is answered without a look at
\* `cancelled`.
RejectQueuedRequests ==
    /\ dpc = "join" /\ owner = NoOne
    /\ \A w \in Workers : wpc[w] = "exited"
    /\ queue' = <<>>
    /\ promise' = [r \in Requests |->
                     IF ~InQueue(r) THEN promise[r]
                     ELSE IF promise[r] = Unset THEN "draining" ELSE SetTwice]
    /\ dpc' = "drained"
    /\ UNCHANGED <<draining, wpc>>

-----------------------------------------------------------------------------
SubmitStep(r) ==
    /\ \/ Submit(r) \/ SubmitLock(r) \/ SubmitPush(r) \/ SubmitNotify(r)
       \/ SubmitWait(r) \/ SubmitCancel(r)
    /\ UNCHANGED <<draining, due, promise, batchVars, execVars, dpc>>

\* workerLoop: popNextPending, formBatch ...
CollectStep(w) ==
    /\ \/ PopNextPending(w) \/ PopBlock(w)
       \/ FormBatch(w) \/ FormScan(w) \/ FormScanEnd(w) \/ FormWake(w)
       \/ ExpiredNotify(w) \/ FormRescan(w) \/ FormJoined(w)
    /\ UNCHANGED <<draining, clientVars, flagVars, execVars, dpc>>

\* ... and processBatch.
ProcessStep(w) ==
    /\ \/ FulfillCheck(w) \/ FulfillSet(w)
       \/ LateNext(w) \/ ActivePass(w) \/ FailNext(w) \/ ProcessSingle(w)
       \/ Select(w) \/ RunInference(w) \/ ResultNext(w) \/ BatchDone(w)
    /\ UNCHANGED <<queueVars, clientVars, due, cancelled, form, dpc>>

RetireStep ==
    /\ StopAccepting \/ BeginDrain \/ DrainNotify \/ RejectQueuedRequests
    /\ UNCHANGED <<owner, clientVars, due, cancelled, batchVars, execVars, metrics>>

Next ==
    \/ \E r \in Requests : SubmitStep(r) \/ Expire(r)
    \/ \E w \in Workers :
         CollectStep(w) \/ ProcessStep(w) \/ SpuriousWake(w) \/ FormationExpire(w)
    \/ RetireStep

Spec == Init /\ [][Next]_vars

\* Threads that can run do run, executors return, and a formation delay passes.
\* Strong fairness, because a thread may find queue_mutex_ taken time and again (by
\* a worker that wakes spuriously) but not for ever.  A request's deadline need not
\* pass: no answer may depend on it.
Fairness ==
    /\ \A r \in Requests : SF_vars(cpc[r] # "idle" /\ SubmitStep(r))
    /\ \A w \in Workers : SF_vars(CollectStep(w) \/ ProcessStep(w)) /\ WF_vars(FormationExpire(w))
    /\ SF_vars(dpc # "idle" /\ RetireStep)

FairSpec == Spec /\ Fairness

-----------------------------------------------------------------------------
(* Properties.                                                             *)

ClientPlaces == {"idle", "lock", "push", "notify", "wait", "expired", "returned"}
WorkerPlaces == Forming \cup {"pop", "popBlock", "popWait", "late", "single", "fail", "select",
                              "infer", "results", "exited", "undefined"}

Forms == [front : Requests \cup {NoOne}, merged : Nat, iterator : Nat \ {0}, moved : BOOLEAN,
          progress : BOOLEAN, delayed : BOOLEAN, elapsed : BOOLEAN]
Replies == [req : Requests, res : Outcomes, checked : BOOLEAN]
Counters == [accepted : Nat, rejected : Nat, timed_out : Nat, completed : Nat]

\* Every variable has its type; no count drops below zero.
TypeOK ==
    /\ queue \in Seq(Requests)
    /\ draining \in BOOLEAN
    /\ owner \in Requests \cup Workers \cup {NoOne}
    /\ cpc \in [Requests -> ClientPlaces]
    /\ result \in [Requests -> Outcomes \cup {NoResult, SetTwice}]
    /\ due \in [Requests -> BOOLEAN]
    /\ cancelled \in [Requests -> BOOLEAN]
    /\ promise \in [Requests -> Outcomes \cup {Unset, SetTwice}]
    /\ wpc \in [Workers -> WorkerPlaces]
    /\ batch \in [Workers -> SUBSET Requests]
    /\ todo \in [Workers -> SUBSET Requests]
    /\ form \in [Workers -> Forms]
    /\ late \in [Workers -> SUBSET Requests]
    /\ reply \in [Workers -> Replies \cup {NoReply}]
    /\ exec \in [Workers -> Executors \cup {NoExecutor}]
    /\ inflight \in [Executors -> Nat]
    /\ metrics \in Counters
    /\ dpc \in {"idle", "stopped", "notify", "join", "drained"}

\* No promise is satisfied twice.  Six places of the code call set_value for a
\* request and none of them can see the others; the second call would throw
\* std::future_error out of a thread function and end the process.
AnsweredOnce == \A r \in Requests : promise[r] # SetTwice

\* A request whose submitter waits and whose deadline has not passed is somewhere:
\* in the queue or in the hands of a worker.  formBatch erases from the middle of
\* the queue and processBatch drops members in two passes; only late ones may go.
NoLostRequest ==
    \A r \in Requests :
        cpc[r] \in {"notify", "wait"} /\ promise[r] = Unset /\ ~due[r]
            => InQueue(r) \/ \E w \in Workers : Holds(w, r)

\* Once a worker has left workerLoop the queue stays empty: a submitter that read
\* draining_ as false cannot push after the workers are gone.
ExitedMeansEmpty ==
    (\E w \in Workers : wpc[w] = "exited") =>
        queue = <<>> /\ \A r \in Requests : cpc[r] # "push"

\* beginDrain() leaves nobody behind: when it returns, a submitter still waiting has been
\* given an answer, or its own deadline will release it.
DrainAnswersAccepted ==
    dpc = "drained" =>
        \A r \in Requests : cpc[r] \in {"notify", "wait", "expired"} =>
            due[r] \/ promise[r] \in Outcomes

\* [R-1] Queue depth is bounded, though the test and the push are two steps.
QueueBounded == Len(queue) <= MaxQueueSize

\* Two workers never run on one executor at the same time: select() takes the least
\* loaded of as many executors as there are workers.
ExecutorExclusive ==
    \A w, v \in Workers : w # v /\ exec[w] # NoExecutor => exec[w] # exec[v]

\* A batch of several requests can be merged and is not larger than max_batch_size,
\* over everything that can happen to the queue while it is collected.
BatchWellFormed ==
    \A w \in Workers : Cardinality(batch[w]) > 1 =>
        /\ MapThenSumSet(LAMBDA r : BatchSize[r], batch[w]) <= MaxBatchSize
        /\ \A r, s \in batch[w] : Compatible(r, s)

\* The counters miss nobody: as many completed requests as submitters hold a result,
\* as many timed out ones as submitters were told so.
AnswersAreCounted ==
    /\ Cardinality({r \in Requests : result[r] = "response"}) <= metrics.completed
    /\ Cardinality({r \in Requests : result[r] = "timeout"}) <= metrics.timed_out

Undefined == \E w \in Workers : wpc[w] = "undefined"

\* submit() returns, without any help from the deadline, though notify_one may wake a
\* worker that waits in formBatch and cannot take the request, and not the one in
\* popNextPending that could.
SubmitReturns == \A r \in Requests : cpc[r] = "lock" ~> (cpc[r] = "returned" \/ Undefined)

\* beginDrain() terminates, also after a stopAccepting() whose notification was lost.
DrainCompletes == dpc = "notify" ~> (dpc = "drained" \/ Undefined)

\* specs/2026-05-29-scheduler-autoscaling/requirements.md:39 "[R-3] Multiple
\* concurrent requests complete without data races."
NoUndefinedBehaviour == ~Undefined

\* specs/architecture.md:101 "beginDrain() joins workers and rejects queued work" and
\* specs/2026-05-29-scheduler-autoscaling/plan.md:38 "Drain rejects queued work with
\* `UNAVAILABLE`.": a request that is in time and leaves the queue while beginDrain()
\* joins the workers is rejected, and not taken by one of them.
DrainRejectsQueued ==
    [][\A r \in Requests :
         dpc = "join" /\ InQueue(r) /\ ~InQueue(r)' /\ ~due[r]
             => promise'[r] = "draining"]_vars

=============================================================================
