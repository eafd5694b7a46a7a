---------------------------- MODULE LlmScheduler ----------------------------
(***************************************************************************)
(* The scheduler of language models, src/src/LlmScheduler.cpp, with the    *)
(* part of the executors' decode loops that looks at the cancel token and  *)
(* calls back into the handler (src/src/StubExecutor.cpp,                  *)
(* src/src/NeuriploExecutor.cpp, src/src/RealNeuriploAdapter.cpp).         *)
(*                                                                         *)
(* It differs from module ModelScheduler in what it adds: admission by     *)
(* prompt length and by memory, a limited number of decode slots with a    *)
(* condition variable of their own, executors shared by several decodes,   *)
(* a cancel token read by the executor, and tokens streamed to the client  *)
(* while submit() waits.  There are no batches.  Time is abstracted as     *)
(* there: due[r] says that the clock has passed the deadline of r.         *)
(***************************************************************************)
EXTENDS Naturals, Sequences, FiniteSets, FiniteSetsExt

CONSTANTS
    Requests,       \* the calls of submit(), each in a thread of its own
    Workers,        \* workers_: one thread for each of kv_cache_slots
    ExecutorCount,  \* executors_.size()
    MaxQueueSize,   \* SchedulerConfig::max_queue_size
    ContextLength,  \* LlmSchedulerConfig::context_length
    MaxTokens,      \* LlmSchedulerConfig::max_tokens
    MemoryBudget,   \* LlmSchedulerConfig::memory_budget_bytes, 0 for none
    Prompt,         \* Prompt[r]: [tokens, max]; max = 0 if the request names none
    Streaming,      \* the requests with llm_params->streaming
    Retires         \* the registry retires this scheduler at some time

ASSUME LlmWorkersAssumption == IsFiniteSet(Workers) /\ Workers # {} /\ Requests \cap Workers = {}
ASSUME LlmLimitsAssumption ==
    /\ {MaxQueueSize, ContextLength, MaxTokens, MemoryBudget} \subseteq Nat
    /\ ExecutorCount \in Nat \ {0}
ASSUME LlmRequestAssumption ==
    Prompt \in [Requests -> [tokens : Nat, max : Nat]] /\ Streaming \subseteq Requests
ASSUME LlmModeAssumption == Retires \in BOOLEAN /\ "nobody" \notin Requests \cup Workers

VARIABLES
    queue,      \* queue_
    draining,   \* draining_
    owner,      \* the thread that keeps queue_mutex_ from one step to the next
    cpc,        \* where the thread of r is in submit()
    result,     \* what submit() returned
    due,        \* the clock has passed PendingRequest::deadline
    token,      \* ExecutionRequest::cancel_token
    cancelled,  \* PendingRequest::cancelled
    promise,    \* PendingRequest::promise
    wpc,        \* where worker w is
    job,        \* the request w processes
    reply,      \* what fulfillResult is about to do for it
    exec,       \* the executor w decodes on
    active,     \* active_decodes_
    inflight,   \* inflight_
    stray,      \* requests whose streaming_callback ran after their submit() returned
    metrics,    \* SchedulerMetricsSnapshot
    dpc         \* where the retiring thread is

queueVars  == <<queue, draining, owner>>
clientVars == <<cpc, result>>
flagVars   == <<token, cancelled, promise>>
workVars   == <<wpc, job, reply>>
slotVars   == <<exec, active, inflight>>
vars == <<queueVars, clientVars, due, flagVars, workVars, slotVars, stray, metrics, dpc>>

-----------------------------------------------------------------------------
Slots == Cardinality(Workers)        \* kv_cache_slots
Executors == 1 .. ExecutorCount
NoExecutor == 0
NoOne == "nobody"
MemoryPerToken == 2                  \* memory_per_token_bytes

Unset    == "unset"
NoResult == "none"
NoReply  == "none"
SetTwice == "promise_already_satisfied"
Outcomes == {"response", "timeout", "draining", "overloaded", "invalid"}

Count(field) == metrics' = [metrics EXCEPT ![field] = @ + 1]
Goto(w, place) == wpc' = [wpc EXCEPT ![w] = place]

Waiters == {w \in Workers : wpc[w] = "popWait"}

\* queue_cv_.notify_one(); `pcs` is wpc after the caller's own step.
NotifyOne(pcs) ==
    IF Waiters = {} THEN {pcs} ELSE {[pcs EXCEPT ![w] = "pop"] : w \in Waiters}

\* queue_cv_.notify_all().
NotifyAll == [w \in Workers |-> IF w \in Waiters THEN "pop" ELSE wpc[w]]

InQueue(r) == \E i \in 1 .. Len(queue) : queue[i] = r

Init ==
    /\ queue = <<>> /\ draining = FALSE /\ owner = NoOne
    /\ cpc = [r \in Requests |-> "idle"]
    /\ result = [r \in Requests |-> NoResult]
    /\ due = [r \in Requests |-> FALSE]
    /\ token = [r \in Requests |-> FALSE]
    /\ cancelled = [r \in Requests |-> FALSE]
    /\ promise = [r \in Requests |-> Unset]
    /\ wpc = [w \in Workers |-> "pop"]
    /\ job = [w \in Workers |-> NoOne]
    /\ reply = [w \in Workers |-> NoReply]
    /\ exec = [w \in Workers |-> NoExecutor]
    /\ active = 0
    /\ inflight = [e \in Executors |-> 0]
    /\ stray = {}
    /\ metrics = [accepted |-> 0, rejected |-> 0, pressure |-> 0, timed_out |-> 0, completed |-> 0]
    /\ dpc = "idle"

-----------------------------------------------------------------------------
(* submit().                                                               *)

Return(r, res) == /\ cpc' = [cpc EXCEPT ![r] = "returned"]
                  /\ result' = [result EXCEPT ![r] = res]
Proceed(r, place) == cpc' = [cpc EXCEPT ![r] = place] /\ UNCHANGED result

EffectiveMaxTokens(r) == IF Prompt[r].max = 0 THEN MaxTokens ELSE Prompt[r].max

\* validateLlmRequest: a prompt, and prompt and completion fit into the context.
ValidateLlmRequest(r) ==
    /\ Prompt[r].tokens > 0
    /\ Prompt[r].tokens <= ContextLength
    /\ EffectiveMaxTokens(r) \in 1 .. MaxTokens
    /\ Prompt[r].tokens + EffectiveMaxTokens(r) <= ContextLength

Submit(r) ==
    /\ cpc[r] = "idle"
    /\ \/ ~ValidateLlmRequest(r) /\ Return(r, "invalid")
       \/ ValidateLlmRequest(r) /\ draining /\ Return(r, "draining")
       \/ ValidateLlmRequest(r) /\ ~draining /\ Proceed(r, "budget")
    /\ UNCHANGED <<queue, owner, token, cancelled, wpc, metrics>>

ContextBytes(r) == Prompt[r].tokens * MemoryPerToken

\* Every active decode is taken to be as large as this one, and nothing is reserved.
OverBudget(r) ==
    MemoryBudget > 0 /\ active * ContextBytes(r) + ContextBytes(r) > MemoryBudget

SubmitBudget(r) ==
    /\ cpc[r] = "budget"
    /\ \/ OverBudget(r) /\ Return(r, "overloaded") /\ Count("pressure")
       \/ ~OverBudget(r) /\ Proceed(r, "lock") /\ UNCHANGED metrics
    /\ UNCHANGED <<queue, owner, token, cancelled, wpc>>

\* Mutant of SeesDraining: draining_ is not read again under the lock.
BlindToDraining == FALSE

SeesDraining == draining

\* Under queue_mutex_: draining_ again, then the bound.
SubmitLock(r) ==
    /\ cpc[r] = "lock" /\ owner = NoOne
    /\ \/ SeesDraining /\ Return(r, "draining") /\ UNCHANGED <<owner, metrics>>
       \/ ~SeesDraining /\ Len(queue) >= MaxQueueSize
          /\ Return(r, "overloaded") /\ Count("rejected") /\ UNCHANGED owner
       \/ ~SeesDraining /\ Len(queue) < MaxQueueSize
          /\ Proceed(r, "push") /\ owner' = r /\ UNCHANGED metrics
    /\ UNCHANGED <<queue, token, cancelled, wpc>>

SubmitPush(r) ==
    /\ cpc[r] = "push"
    /\ queue' = Append(queue, r) /\ owner' = NoOne
    /\ Proceed(r, "notify") /\ Count("accepted")
    /\ UNCHANGED <<token, cancelled, wpc>>

SubmitNotify(r) ==
    /\ cpc[r] = "notify"
    /\ wpc' \in NotifyOne(wpc)
    /\ Proceed(r, "wait")
    /\ UNCHANGED <<queue, owner, token, cancelled, metrics>>

\* Mutant of SubmitWait: a drain ends the wait.
SubmitWaitGivesUp(r) ==
    /\ cpc[r] = "wait"
    /\ \/ promise[r] # Unset /\ Return(r, promise[r])
       \/ promise[r] = Unset /\ draining /\ Return(r, "draining")
    /\ UNCHANGED <<queue, owner, token, cancelled, wpc, metrics>>

\* future.wait_until(deadline); when it expires the token is set first ...
SubmitWait(r) ==
    /\ cpc[r] = "wait"
    /\ \/ promise[r] # Unset /\ Return(r, promise[r]) /\ UNCHANGED token
       \/ /\ promise[r] = Unset /\ due[r]
          /\ token' = [token EXCEPT ![r] = TRUE]
          /\ Proceed(r, "expired")
    /\ UNCHANGED <<queue, owner, cancelled, wpc, metrics>>

\* ... and then `cancelled`.
SubmitCancel(r) ==
    /\ cpc[r] = "expired"
    /\ cancelled' = [cancelled EXCEPT ![r] = TRUE]
    /\ Count("timed_out")
    /\ Return(r, "timeout")
    /\ UNCHANGED <<queue, owner, token, wpc>>

Expire(r) ==
    /\ ~due[r]
    /\ cpc[r] \in {"lock", "push", "notify", "wait"} \/ \E w \in Workers : job[w] = r
    /\ due' = [due EXCEPT ![r] = TRUE]
    /\ UNCHANGED <<queueVars, clientVars, flagVars, workVars, slotVars, stray, metrics, dpc>>

-----------------------------------------------------------------------------
(* popNextPending.                                                         *)

MayExit == draining /\ queue = <<>>

PopNextPending(w) ==
    /\ wpc[w] = "pop" /\ owner = NoOne
    /\ \/ MayExit /\ Goto(w, "exited") /\ UNCHANGED <<queue, owner, job>>
       \/ queue = <<>> /\ ~draining
          /\ Goto(w, "popBlock") /\ owner' = w /\ UNCHANGED <<queue, job>>
       \/ /\ queue # <<>> /\ ~MayExit
          /\ queue' = Tail(queue)
          /\ job' = [job EXCEPT ![w] = Head(queue)]
          /\ Goto(w, "check") /\ UNCHANGED owner
    /\ UNCHANGED <<reply, flagVars, slotVars, metrics>>

\* The predicate was false: release the mutex and sleep.
PopBlock(w) ==
    /\ wpc[w] = "popBlock"
    /\ Goto(w, "popWait") /\ owner' = NoOne
    /\ UNCHANGED <<queue, job, reply, flagVars, slotVars, metrics>>

SpuriousWake(w) ==
    /\ wpc[w] = "popWait"
    /\ Goto(w, "pop")
    /\ UNCHANGED <<queueVars, clientVars, due, flagVars, job, reply, slotVars, stray, metrics, dpc>>

-----------------------------------------------------------------------------
(* processSingle.                                                          *)

\* Done with the request without another answer.
Drop(w) == /\ job' = [job EXCEPT ![w] = NoOne]
           /\ reply' = [reply EXCEPT ![w] = NoReply]

Fulfill(w, res) == reply' = [reply EXCEPT ![w] = res] /\ UNCHANGED job

TimeOut(w) ==
    /\ Fulfill(w, "timeout")
    /\ Count("timed_out")

\* The cancel token is set with the timeout everywhere but after acquireDecodeSlot.
SetToken(w) == token' = [token EXCEPT ![job[w]] = TRUE]

ProcessSingle(w) ==
    /\ wpc[w] = "check"
    /\ \/ cancelled[job[w]] /\ Goto(w, "pop") /\ Drop(w) /\ UNCHANGED <<token, metrics>>
       \/ /\ ~cancelled[job[w]] /\ due[job[w]]
          /\ Goto(w, "fulfill") /\ TimeOut(w) /\ SetToken(w)
       \/ /\ ~cancelled[job[w]] /\ ~due[job[w]]
          /\ Goto(w, "acquire") /\ UNCHANGED <<job, reply, token, metrics>>
    /\ UNCHANGED <<queue, owner, cancelled, promise, slotVars>>

SlotFree == active < Slots

\* acquireDecodeSlot waits for a slot, the drain or the deadline.  A drain ends the
\* wait without a slot and is answered, and counted, as a timeout.
AcquireDecodeSlot(w) ==
    /\ wpc[w] = "acquire" /\ (draining \/ SlotFree \/ due[job[w]])
    /\ \/ /\ ~draining /\ SlotFree
          /\ active' = active + 1
          /\ Goto(w, "slotted") /\ UNCHANGED <<job, reply, metrics>>
       \/ /\ draining \/ ~SlotFree
          /\ Goto(w, "fulfill") /\ TimeOut(w) /\ UNCHANGED active
    /\ UNCHANGED <<queue, owner, flagVars, exec, inflight>>

\* Mutants of ReleaseDecodeSlot: the slot is kept, or given back twice.
KeepDecodeSlot(w, place) == Goto(w, place) /\ UNCHANGED active
ReleaseDecodeSlotTwice(w, place) == Goto(w, place) /\ active' = active - 2

\* The slot is given back without slots_mutex_; both condition variables are notified.
ReleaseDecodeSlot(w, place) ==
    /\ active' = active - 1
    /\ wpc' \in NotifyOne([wpc EXCEPT ![w] = place])

\* Mutant of LeastLoaded: the first executor always.
FirstExecutor(e) == e = 1

\* selectExecutorIndex: the first of the executors with the fewest decodes.
LeastLoaded(e) ==
    /\ \A f \in Executors : inflight[e] <= inflight[f]
    /\ \A f \in Executors : f < e => inflight[e] < inflight[f]

\* With the slot: draining_ and the deadline once more, then the executor.
Slotted(w) ==
    /\ wpc[w] = "slotted"
    /\ \/ /\ draining
          /\ ReleaseDecodeSlot(w, "fulfill") /\ Fulfill(w, "draining")
          /\ UNCHANGED <<token, exec, inflight, metrics>>
       \/ /\ ~draining /\ due[job[w]]
          /\ ReleaseDecodeSlot(w, "fulfill") /\ TimeOut(w) /\ SetToken(w)
          /\ UNCHANGED <<exec, inflight>>
       \/ /\ ~draining /\ ~due[job[w]]
          /\ \E e \in Executors :
               /\ LeastLoaded(e)
               /\ exec' = [exec EXCEPT ![w] = e]
               /\ inflight' = [inflight EXCEPT ![e] = @ + 1]
          /\ Goto(w, "infer") /\ UNCHANGED <<job, reply, token, active, metrics>>
    /\ UNCHANGED <<queue, owner, cancelled, promise>>

\* The executor reads the cancel token once, before it generates anything.
Infer(w) ==
    /\ wpc[w] = "infer"
    /\ Goto(w, IF token[job[w]] THEN "decoded" ELSE "decode")
    /\ UNCHANGED <<queue, owner, job, reply, flagVars, slotVars, metrics>>

\* streaming_callback writes through references into the frame of the handler.  A
\* token written while submit() still waits changes nothing that is modelled.
StreamToken(w) ==
    /\ wpc[w] = "decode" /\ job[w] \in Streaming /\ cpc[job[w]] = "returned"
    /\ stray' = stray \cup {job[w]}
    /\ UNCHANGED <<queueVars, clientVars, due, flagVars, workVars, slotVars, metrics, dpc>>

InferReturns(w) ==
    /\ wpc[w] = "decode"
    /\ Goto(w, "decoded")
    /\ UNCHANGED <<queue, owner, job, reply, flagVars, slotVars, metrics>>

\* runInference looks at the token unless the executor threw, execution_finished is
\* read and the executor is released: what fulfillResult will be called with is
\* settled here.
RunInference(w) ==
    LET r == job[w]
    IN
    /\ wpc[w] = "decoded"
    /\ \/ token[r] /\ reply' = [reply EXCEPT ![w] = "aborted"]
       \/ reply' = [reply EXCEPT ![w] = IF due[r] THEN "late" ELSE "response"]
    /\ inflight' = [inflight EXCEPT ![exec[w]] = IF @ > 0 THEN @ - 1 ELSE @]
    /\ exec' = [exec EXCEPT ![w] = NoExecutor]
    /\ Goto(w, "release")
    /\ UNCHANGED <<queue, owner, job, flagVars, active, metrics>>

Release(w) ==
    /\ wpc[w] = "release"
    /\ ReleaseDecodeSlot(w, "results")
    /\ UNCHANGED <<queue, owner, job, reply, flagVars, exec, inflight, metrics>>

\* An aborted decode is counted before anybody looks at `cancelled`.
Results(w) ==
    /\ wpc[w] = "results"
    /\ \/ reply[w] = "aborted" /\ Goto(w, "fulfill") /\ TimeOut(w) /\ SetToken(w)
       \/ /\ reply[w] # "aborted" /\ cancelled[job[w]]
          /\ Goto(w, "pop") /\ Drop(w) /\ UNCHANGED <<token, metrics>>
       \/ /\ reply[w] = "late" /\ ~cancelled[job[w]]
          /\ Goto(w, "fulfill") /\ TimeOut(w) /\ SetToken(w)
       \/ /\ reply[w] = "response" /\ ~cancelled[job[w]]
          /\ Goto(w, "fulfill") /\ Count("completed") /\ UNCHANGED <<job, reply, token>>
    /\ UNCHANGED <<queue, owner, cancelled, promise, slotVars>>

\* fulfillResult: the test of `cancelled` and set_value are two steps.
FulfillCheck(w) ==
    /\ wpc[w] = "fulfill"
    /\ \/ cancelled[job[w]] /\ Goto(w, "pop") /\ Drop(w)
       \/ ~cancelled[job[w]] /\ Goto(w, "set") /\ UNCHANGED <<job, reply>>
    /\ UNCHANGED <<queue, owner, flagVars, slotVars, metrics>>

FulfillSet(w) ==
    /\ wpc[w] = "set"
    /\ promise' = [promise EXCEPT ![job[w]] = IF @ = Unset THEN reply[w] ELSE SetTwice]
    /\ Goto(w, "pop") /\ Drop(w)
    /\ UNCHANGED <<queue, owner, token, cancelled, slotVars, metrics>>

-----------------------------------------------------------------------------
(* The thread that retires the scheduler.                                  *)

StopAccepting ==
    /\ Retires /\ dpc = "idle"
    /\ draining' = TRUE
    /\ wpc' = NotifyAll
    /\ dpc' = "stopped"
    /\ UNCHANGED <<queue, promise>>

BeginDrain ==
    /\ Retires /\ dpc \in {"idle", "stopped"} /\ owner = NoOne
    /\ draining' = TRUE
    /\ dpc' = "notify"
    /\ UNCHANGED <<queue, promise, wpc>>

DrainNotify ==
    /\ dpc = "notify"
    /\ wpc' = NotifyAll
    /\ dpc' = "join"
    /\ UNCHANGED <<queue, draining, promise>>

\* The workers are joined; what is still queued is answered.
RejectQueuedRequests ==
    /\ dpc = "join" /\ owner = NoOne
    /\ \A w \in Workers : wpc[w] = "exited"
    /\ queue' = <<>>
    /\ promise' = [r \in Requests |->
                     IF ~InQueue(r) THEN promise[r]
                     ELSE IF promise[r] = Unset THEN "draining" ELSE SetTwice]
    /\ dpc' = "drained"
    /\ UNCHANGED <<draining, wpc>>

-----------------------------------------------------------------------------
SubmitStep(r) ==
    /\ \/ Submit(r) \/ SubmitBudget(r) \/ SubmitLock(r) \/ SubmitPush(r)
       \/ SubmitNotify(r) \/ SubmitWait(r) \/ SubmitCancel(r)
    /\ UNCHANGED <<draining, due, promise, job, reply, slotVars, stray, dpc>>

WorkerStep(w) ==
    /\ \/ PopNextPending(w) \/ PopBlock(w) \/ ProcessSingle(w) \/ AcquireDecodeSlot(w)
       \/ Slotted(w) \/ Infer(w) \/ InferReturns(w) \/ RunInference(w) \/ Release(w)
       \/ Results(w) \/ FulfillCheck(w) \/ FulfillSet(w)
    /\ UNCHANGED <<draining, clientVars, due, stray, dpc>>

RetireStep ==
    /\ StopAccepting \/ BeginDrain \/ DrainNotify \/ RejectQueuedRequests
    /\ UNCHANGED <<owner, clientVars, due, token, cancelled, job, reply, slotVars, stray, metrics>>

Next ==
    \/ \E r \in Requests : SubmitStep(r) \/ Expire(r)
    \/ \E w \in Workers : WorkerStep(w) \/ SpuriousWake(w) \/ StreamToken(w)
    \/ RetireStep

Spec == Init /\ [][Next]_vars

-----------------------------------------------------------------------------
(* Properties.                                                             *)

LlmClientPlaces == {"idle", "budget", "lock", "push", "notify", "wait", "expired", "returned"}
LlmWorkerPlaces == {"pop", "popBlock", "popWait", "check", "acquire", "slotted", "infer", "decode",
                    "decoded", "release", "results", "fulfill", "set", "exited"}

\* Every variable has its type; no count drops below zero.
TypeOK ==
    /\ queue \in Seq(Requests)
    /\ draining \in BOOLEAN
    /\ owner \in Requests \cup Workers \cup {NoOne}
    /\ cpc \in [Requests -> LlmClientPlaces]
    /\ result \in [Requests -> Outcomes \cup {NoResult, SetTwice}]
    /\ due \in [Requests -> BOOLEAN]
    /\ token \in [Requests -> BOOLEAN]
    /\ cancelled \in [Requests -> BOOLEAN]
    /\ promise \in [Requests -> Outcomes \cup {Unset, SetTwice}]
    /\ wpc \in [Workers -> LlmWorkerPlaces]
    /\ job \in [Workers -> Requests \cup {NoOne}]
    /\ reply \in [Workers -> {NoReply, "aborted", "late", "response", "timeout", "draining"}]
    /\ exec \in [Workers -> Executors \cup {NoExecutor}]
    /\ active \in 0 .. Slots
    /\ inflight \in [Executors -> Nat]
    /\ stray \subseteq Requests
    /\ metrics \in [{"accepted", "rejected", "pressure", "timed_out", "completed"} -> Nat]
    /\ dpc \in {"idle", "stopped", "notify", "join", "drained"}

HoldsSlot == {"slotted", "infer", "decode", "decoded", "release"}

\* active_decodes_ counts the workers that hold a slot, on every path of cancellation,
\* timeout and drain.  With one worker per slot a worker that wants a slot finds one:
\* the decrement outside slots_mutex_ can lose no wake-up, because nobody sleeps there.
SlotsAreHeld ==
    /\ active = Cardinality({w \in Workers : wpc[w] \in HoldsSlot})
    /\ \A w \in Workers : wpc[w] = "acquire" => SlotFree

\* Decodes are spread over the executors: no executor runs more of them at a time than
\* its even share of the slots.
EvenShare == \A e \in Executors : inflight[e] * ExecutorCount < Slots + ExecutorCount

\* A drain leaves nobody behind: when beginDrain() has returned, every submitter still
\* inside submit() finds its answer without waiting for its deadline, and no slot or
\* executor is in use.
DrainLeavesNothing ==
    dpc = "drained" =>
        /\ active = 0 /\ \A e \in Executors : inflight[e] = 0
        /\ \A r \in Requests : cpc[r] \in {"notify", "wait", "expired"} => promise[r] # Unset

\* Only a request that timed out can find its streaming callback, which refers to the
\* frame of the handler, called after submit() returned: no other way out of submit(),
\* a drain included, leaves a worker behind that still generates tokens for it.
LateTokensOnlyAfterTimeout == \A r \in stray : result[r] = "timeout"

=============================================================================
