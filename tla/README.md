# Verification of neuriplo-kserve-runtime

TLA+ models of the runtime, from the sockets to the executors, checked with TLC
on small instances, and theorems about all of them, proved with TLAPS for every
value of their parameters: every safety property that a run checks and finds
true is also a theorem.

    tlc -config sched.cfg MCSchedulerService   # any run of PROJECT.json
    tlapm KServeRuntimeProofs.tla              # any of the modules of proofs

Paths below are relative to the repository (`src/ModelScheduler.cpp` and so on).

## The system

A request enters through `HttpServer` or `GrpcServer`, each connection in a
thread of its own, and reaches `KServeRuntime::handle`. Inference requests look
up an immutable `InferSnapshot` of the model in `ModelRegistry` and call
`submit()` of its scheduler, where the calling thread waits for the answer.
Admin and repository requests call `loadModel`, `reload`, `switchVersion` and
`unloadModel`, which build executors, start a scheduler for them, publish a new
snapshot and retire the old scheduler in the background.

| Part | State | Operations | Interacts with |
|---|---|---|---|
| `ModelScheduler` | queue, draining flag, workers, executor loads, a promise and a `cancelled` flag per request, counters | `submit`, `stopAccepting`, `beginDrain`; the worker loop `popNextPending`, `formBatch`, `processBatch` | request threads, workers and the retiring thread share the queue, one mutex and one condition variable |
| `LlmScheduler` | queue, decode slots, decodes per executor, a cancel token per request | as `ModelScheduler`, without batches, with streaming | request threads, workers, handlers through the streaming callback |
| `ModelRegistry` | a slot per name: handle, published snapshot, snapshots per version, config, `reload_pending`; catalog | `loadModel`, `unloadModel`, `reload`, `switchVersion`, lookups, `allReady` | admin threads under `models_mutex_`, waiters on `load_cv_`, readers through snapshots |
| `ModelLifecycle`, `ModelStateMachine` | the handle | `load`, `beginDrain`, `completeUnload`, `beginReload`, `finishReload` | called by the registry, partly without its mutex |
| `SchedulerRetireQueue` | drains in progress | `retire` | registry; runs `Scheduler::beginDrain` in tasks |
| `KServeRuntime` | what a handler has read so far | routing, admission of admin requests, error mapping | registry, schedulers, codecs, metrics |
| `HttpServer` | client threads, `running_`, the socket | `run`, `stop`, `handleClient`, the destructor | runtime, clients that may neither send nor read |
| Codecs, `DynamicBatcher`, `BatchCompatibility`, `NeuriploExecutor` | the bytes of a request | decode, compare, merge, execute, split, encode | handlers, schedulers |
| `PipelineExecutor`, `PipelineConfig`, steps | the step graph, last uses, the tensors of a request | load, `infer` | schedulers of other models through the registry |
| `ModelRepository` | a directory tree that others write | scan at startup, lookup of a version | handlers, catalog |
| Configuration, metrics page, logging, backends | mostly none | parsing, formatting | everything |

What is hard here:

- **Concurrency in the schedulers.** `stopAccepting` sets `draining_` without
  the mutex the rest uses; a condition variable has two kinds of waiter;
  `fulfillResult` tests and sets in two steps; `formBatch` gives up the mutex in
  the middle of a scan; the deadline is compared with a new reading of the clock
  at five places; decode slots are counted outside the mutex of their waiters.
- **Concurrency in the registry.** Executors are built with the mutex released;
  `unloadModel` takes it three times; waiters retry after builds that may have
  failed, thrown or removed the slot; a handler looks at the registry two or
  three times and acts on the first look.
- **Failure.** Builds fail or throw, merges fail, requests expire, clients leave
  in the middle of a message, directories vanish during a scan.
- **Data.** Bytes are cut, appended and cut again by offsets computed from
  shapes, and tensors are moved out of a pipeline's values at their last use.

`PROJECT.json` lists each hazard at its line with the properties that would catch it.

## The modules

| Module | Models |
|---|---|
| `RequestService` | what interface `Scheduler` promises; abstract |
| `ModelScheduler` | `src/ModelScheduler.cpp`, with the decisions of `BatchCompatibility.cpp` and `DynamicBatcher.cpp` |
| `SchedulerService` | that `ModelScheduler` implements `RequestService` |
| `SchedulerServiceProofs` | the theorems about `ModelScheduler`, the refinement among them |
| `LlmScheduler` | `src/LlmScheduler.cpp`, with the executors' use of the cancel token and the streaming callback |
| `LlmService` | that `LlmScheduler` implements `RequestService` |
| `LlmServiceProofs` | the theorems about `LlmScheduler`, the refinement among them |
| `ModelRegistry` | the mutating calls of `src/ModelRegistry.cpp`, with `ModelLifecycle.cpp` and `SchedulerRetireQueue.cpp` |
| `KServeRuntime` | the handlers of `src/KServeRuntime.cpp` over the registry; extends `ModelRegistry` |
| `KServeRuntimeProofs` | the theorems about the registry, about the handlers, and that the registry's hold of them |
| `PipelineExecutor` | `src/PipelineExecutor.cpp` and the rules of `PipelineConfig.cpp` |
| `PipelineExecutorProofs` | the theorems about `PipelineExecutor` |
| `HttpServer` | `src/HttpServer.cpp` |
| `HttpServerProofs` | the theorems about `HttpServer` |
| `InferencePath` | the bytes of a request through `KServeV2Codec.cpp` or `GrpcV2Codec.cpp`, `BatchCompatibility.cpp`, `DynamicBatcher.cpp`, `NeuriploExecutor.cpp`, and back |
| `InferencePathProofs` | the theorems about `InferencePath` |
| `ModelRepository` | `src/ModelRepository.cpp` |
| `ModelRepositoryProofs` | the theorems about `ModelRepository` |
| `InductionLemmas` | induction, finite sums and folds for the proofs |
| `MC...` | their small instances; `MCSchedulerService`, `MCDataPlane` and `MCLiveness` each have several of them in one run |

### ModelScheduler

One step is what a thread does between two points where another thread can see
or change shared state. `owner` is the thread that keeps `queue_mutex_` over
several steps; a critical section that is one step needs no owner, only that
nobody else is.

- `submit()`: `Submit` (the test before the lock), `SubmitLock` (the tests under
  it), `SubmitPush`, `SubmitNotify`, `SubmitWait`, `SubmitCancel`. Test and push
  are two steps because `stopAccepting` does not respect the mutex.
- `popNextPending()`: `PopNextPending` and `PopBlock`: the predicate and the
  sleep are two steps, so that a notification without the mutex can be lost
  between them. `SpuriousWake` is the condition variable's own freedom.
- `formBatch()`: `FormBatch` (top of the loop), `FormScan` (one element of the
  scan), `FormScanEnd`, `FormWake`, `ExpiredNotify` and `FormRescan` (the
  unlocked answer to an expired request and the return to the scan),
  `FormJoined`. If another worker removed from the queue while the mutex was
  released, the iterator is invalid. `FormRescan` then lets it denote any
  position, or sends the worker to `"undefined"`, where nothing more is claimed
  of it. An additional effect of a concurrent push, a reallocation of the
  deque's block map, is left out.
- `processBatch()`, `processSingle()`: `LateNext` (first pass), `ActivePass`,
  `FailNext`, `ProcessSingle`, `Select`, `RunInference`, `ResultNext`,
  `BatchDone`; every answer goes through `FulfillCheck` and `FulfillSet`.
- The retiring thread: `StopAccepting`, `BeginDrain`, `DrainNotify`,
  `RejectQueuedRequests` (which needs all workers joined).
- Time: `Expire(r)` and `FormationExpire(w)` say that the clock has passed a
  deadline; they may happen at any time and never unhappen.

Abstracted: tensors are a shape class and a batch dimension; a response is one
value whether the backend succeeded or not; latencies and batch statistics are
not counted. `runInference` catches everything, so the branches for
`completed == false` are dead code and have no step.

### LlmScheduler

Steps as above. Admission is `Submit` (`ValidateLlmRequest`), `SubmitBudget` and
`SubmitLock`. A worker takes a request (`PopNextPending`, `ProcessSingle`), gets
a slot or an end of its wait (`AcquireDecodeSlot`), looks once more (`Slotted`),
and decodes (`Infer`, `InferReturns`, `RunInference`, `Release`, `Results`).
`token` and `cancelled` are set in two steps by a submitter that gives up.
`StreamToken` is a callback that runs although its `submit()` has returned, the
only one that matters: `stray` remembers for which requests that happened.
Token counts are inputs; a byte per token and prompt stands for
`memory_per_token_bytes`.

### RequestService and the refinements

`RequestService` is what a handler and the registry rely on, whichever scheduler
is behind the interface: a request is refused or taken in; it is executed at
most once, and only after it was taken in; a response follows an execution; a
drained service executes nothing. `SchedulerService` and `LlmService` add a
history variable, the requests ever executed, and map the scheduler's places
and flags to phases; `ImplementsService` is the abstract specification under
that mapping, checked as a property.

### ModelRegistry and KServeRuntime

A stretch of code under `models_mutex_` is one step. A call goes through its
first stretch (`LoadModel`, `ReloadStart`, `UnloadModel`), `Build` without the
mutex, the swap (`LoadSwap`, `ReloadSwap`), `Notify`, `RetireOld` and `Leave`.
`reload` and `switchVersion` share their actions: they differ in the early
return for a version that is already active and in the snapshots they remember.
A waiter of `load_cv_` sleeps (`joinSleep`, `retrySleep`), is moved to
`joinWoken` or `retryWoken` by `Notify`, and looks again. A scheduler is known
by the number of the call that built it and is accepting, stopped or drained. A
version string also stands for the config that carries it, but not for the
version that is served: `switchVersion` and an explicit config override what the
executor reports, and otherwise the executor's own versions stand (`Reported`).
A handle therefore has two fields, `version`, which routes and snapshots go by,
and `config`, a history of what its scheduler was built from. `Unavailable` is
not a state of the model because no code enters it. `MayThrow` adds the exception
that `PendingLoadGuard` exists for.

`KServeRuntime` puts handlers on top: `HandleRequest` routes, `ModelConfig` and
`Parse` prepare a registry call, `Called` reads what it returned, `Registered`
and `Dropped` are the check of `ready()` and the unload of a slot that is not,
`Refused` is the second look after a refusal. A data-plane handler looks up the
default version (`DefaultVersionOf`), then the snapshot (`Lookup`), and submits
to the scheduler it found (`Submit`), which may be draining by then. The callback
of a streaming answer refers to a snapshot its handler has released
(`StreamCallback`); if nobody else holds it the client goes to `"undefined"`.

### PipelineExecutor

`BeginLoad`, `Resolve` (one look at the registry for all steps) and `Publish`
are a load, `BeginInfer`, `RunStep` and `Respond` a request. Over HTTP a request
has the inputs of the ensemble's metadata; `ModelInfer` of the gRPC server
compares nothing, so `BeginInfer` admits any set of the names a graph knows, and
`short` remembers that an input is not among them. A tensor is the
step and name that produced it with the tensors it was computed from, so that
two computations of one value are equal and a moved-out tensor (`Gone`) is
visible. `request.copies` is the same computation without moves.

### HttpServer

A message is three lengths and the spelling of its length header: only
`Content-Length` itself is looked at. `Recv` returns any piece of what is left,
`RecvEnds` is the end of the connection, `Received` one turn of the loop. `Word`
makes the sum at line 273 wrap. A client stays, finishes (its end is closed, but
it reads on) or is gone.

`Dispatch` calls the handler, whose response streams or does not. `Sending` are
the places where the thread is in `send()`, which has no timeout: `Respond` is
taken when there is room, and nothing says that there ever is while the client
stays. `BrokenPipe` is the signal that a `send()` to a client that is gone
raises, `StreamThrows` an exception of `stream_callback`, which runs outside the
`try`; both end the process (`fate`).

`run()` and `stop()` are two threads with a step for every access to `running_`,
the socket and `client_threads_`. `SwapThreads` and `JoinThreads` are
`joinClientThreads`: what is swapped out is joined one by one. The constructor of
`std::thread` may throw, which leaves `run()` (`Accept`). `Destroy` is
`~HttpServer`, which joins nothing itself: a thread still in `client_threads_`
ends the process.

### InferencePath

A byte is the client, the input and the position it was sent for, so that an
answer shows what it was computed from. `ParseInferenceRequest` and
`ConvertInferRequest` are the two codecs, `AreBatchCompatible`, `Merged` and
`SplitResponse` the batcher, `Executable` the test of `NeuriploExecutor`.
`Backend` is external: it answers row by row, refuses inputs of different
length, fails, or answers as if built for one row. Which requests a worker takes
is left open as far as compatibility and the limit allow.

### ModelRepository

A name is a sequence of characters, the digits among them numbers. `BeginScan`
lists the directories and groups them by canonical version (`GroupVersions`),
`ScanGroup` looks into one group; `ChangeTree` may come between. `BeginResolve`
and `EndResolve` are the lookup of one version. The code sorts groups and names;
the model takes from what is left the group with `HighestVersion` and from a
group the `FirstName`, in the same order, by the same comparisons
(`IsHigherVersion`, `Before`).

## What the runs check

| Run | Shows |
|---|---|
| `sched` | two workers; a scheduler that batches requests of dimensions 1 and 2 under a limit of 2, the invalidated iterator included, and two that are retired at any time, one with batching (also in the middle of `formBatch`) and one without: `AnsweredOnce`, `NoLostRequest`, `QueueBounded`, `BatchWellFormed`, `ExitedMeansEmpty`, `DrainAnswersAccepted`, `ExecutorExclusive`, `AnswersAreCounted`, `ImplementsService` |
| `live` | `SubmitReturns` with two workers and two requests that fit no common batch, one of which fails to merge: a worker in `formBatch` may get the notification meant for the one in `popNextPending`; `DrainCompletes`, although `stopAccepting`'s notification may be lost; `RequestsAnswered`, builds that fail and throw included |
| `llm` | `SlotsAreHeld`, `EvenShare`, `DrainLeavesNothing`, `LateTokensOnlyAfterTimeout`, `ImplementsService` |
| `runtime` | `BuildOwned`, `ServingAccepts`, `PublishedIsCurrent`, `SettledNotUnloaded`, `ConfigOfServing`, `AcceptingIsReferenced`, `ServedVersion`, `OnlyUnloadEndsServing`, `ReadinessHolds` |
| `http` | `FramingExact`; `NoThreadOutlivesServer`, with threads that cannot be started, responses that stream, and destruction; `StopReturns`: a stopped server returns unless a client that stays holds its thread in `recv()` or `send()` for ever, or the process has died |
| `data` | pipelines: `MovesLikeCopies`, `AcceptedGraphRuns`; requests: `OwnRows`, `InputsAreTheirOwn`, `AdmittedIsExecutable`, `AdmittedCounted`; repository: `ScanServesHighest`, `ResolveAgreesWithScan` |

**Bounds.** The schedulers have two or three requests and two workers: three
requests are the least with which one is executed, one is queued and a third
finds the bound or changes the queue under somebody's iterator; two workers are
the least that can disturb each other, and the least with which `popNextPending`
and `formBatch` wait at once. A behaviour of `sched` is one of three instances,
which a variable of `MCSchedulerService` tells apart. The one that is not
retired has three requests; the deadline of the third, the one of two rows,
passes only if no other's does, those of the others in every combination. The
retired ones have two, since a drain concerns what is queued and what is being
pushed, and batches of at most three with a preferred size of two, so that both
tests of `shouldDispatchBatchSize` occur. There is one shape, so that the
compatibility half of `BatchWellFormed` rests on its theorem. `live` has two
requests and two workers with shapes that do not go together. The scheduler
serves on, and one request's deadline may pass, or it is retired, and none does;
with both at once the fair state graph is too large. That a drained scheduler
leaves nobody without an answer is `DrainAnswersAccepted`, proved for any number
of workers. The same run has two admin handlers over one model in one version,
with two requests, one of which waits for the build of the other; clients, which
never wait, have none there. In a behaviour of the handlers the scheduler is
retired first, without requests, so that its fair steps are over. In `llm` one
prompt is too long, and the budget admits one decode at a time by the test at
line 164. `runtime` has one model in two versions, two admin threads, one client
and three requests, the least with which a model is loaded, replaced by one
thread and unloaded by another while a client is between two looks; executors
report version "1" unless the config decides, as all of the repository do, and
the theorem of `ConfigOfServing` has them report anything; a model that loads
beside another that serves is covered by the theorem of `ReadinessHolds` only.
`http` has two connections and a buffer of three bytes for messages of up to
seven; the second connection is there for what threads do to each other, and its
client sends the shortest message. `data` has graphs of up to three steps over a
model with one input and one with two, five steps of each kind that differ in
what they read and write, and requests with any of their names; pairs of
seventeen bodies over two inputs with elements of two bytes and a `size_t` of
four bits; and all trees of four directories (two of them one version) and two
files, changed once. Its three components share no state, so each behaviour is
one of one component. Symmetry is used only over workers, requests and threads
that nothing tells apart, and not in runs that check liveness.

Deadlock checking is off where the system may stop: a retired scheduler whose
submitters are done, a bounded number of requests, a server that has returned. A
scheduler that is not retired never stops in the sense of a deadlock, since its
workers may wake spuriously; that nobody waits for ever is `SubmitReturns`.

**Fairness.** Every thread that can run runs, executors return, builds end and a
batch's formation delay passes. For the scheduler it is strong fairness: a
thread may find the mutex taken again and again, for instance by a worker that
wakes spuriously, but not for ever. A request's deadline is *not* assumed to
pass, so `SubmitReturns` says that answers arrive without it. A worker in
`"undefined"` ends the obligation: nothing can be promised after undefined
behaviour. For the runtime, handlers, builds and background drains go on, each
by weak fairness; a step of the registry is enabled until it is taken. For the
HTTP server the thread of `run()`, a `stop()` that has begun, and what a
connection's thread does without its client (`OwnStep`) are fair; that a client
connects, sends, reads or closes is not. `recv()` and `send()` have no timeout,
so `StopReturns` excepts a thread that waits in one of them for ever for a
client that stays (`Held`), and such a client does keep `run()` from returning.
A `send()` to a client that is gone ends.

### Where code and documents disagree

Each of these has a run that ends in a counterexample.

- `sched_iterator`: `formBatch` goes on with an iterator that another worker may
  have invalidated while the mutex was released (`ModelScheduler.cpp:340-346`).
- `registry_stale_version`: after a version switch and a reload, the default
  route is answered from the remembered snapshot of a retired scheduler.
- `ensemble_loop`: two concurrent reloads make two ensembles of each other,
  which `PipelineExecutor.cpp:343-348` says are rejected.
- `sched_drain_queue`: `beginDrain` joins workers that go on executing what is
  queued, so that `rejectQueuedRequests` finds nobody, while
  `specs/architecture.md:101` says that it "joins workers and rejects queued
  work" and `specs/2026-05-29-scheduler-autoscaling/plan.md:38` "Drain rejects
  queued work with `UNAVAILABLE`."
- `grpc_metrics`: a successful gRPC inference is counted as a failure, its status
  0 being no HTTP status of the 200s (`GrpcServer.cpp:200`), while
  `docs/errors.md:237` counts "total failed infer requests".
- `batch_single`: a request whose bytes do not fit its shape spoils the answers
  of the requests it is batched with, against
  `specs/2026-05-30-dynamic-batching/requirements.md:34`.

Others are visible in the models without a run of their own.

- One late request is counted twice in `requests_timed_out`, by its submitter
  (`ModelScheduler.cpp:217`) and by the worker that finds it late, while
  `docs/errors.md:243` counts requests. Both schedulers do.
- A reload that finds the slot `Unloading` and fails to build drops the last
  reference to the old scheduler and joins its workers in the calling thread
  (`ModelLifecycle.cpp:151`), against
  `specs/2026-06-10-control-data-plane-split/requirements.md:33`.
- The handler of a load that did not come up unloads the name
  (`KServeRuntime.cpp:1137`, 1209: "drop the dead slot"), although somebody
  else's load may serve under it by then (`Registered`, then `Dropped`).
- A draining `LlmScheduler` answers a request that waits for a slot with
  `DEADLINE_EXCEEDED` (`AcquireDecodeSlot`), which `docs/errors.md:29` keeps for
  a request that "exceeded its timeout budget".
- `LoadSwap` returns true for a build of its own that failed, while
  `ModelRegistry.hpp:63` says that `loadModel` "returns false" for it.
- With `MayThrow`, `PendingLoadGuard` leaves a failed model whose reload threw
  `Unloaded`, which `ModelLifecycle.cpp:169` wants to avoid; `runtime` therefore
  checks `SettledNotUnloaded` without exceptions.
- gRPC requests reach the scheduler without the comparison with the model's
  metadata that HTTP requests get (`ConvertInferRequest`, `BeginInfer`): an
  ensemble that lacks an input is then admitted, queued and counted, and fails at
  its first step, where HTTP refuses the request.
- A length header in another spelling, `content-length`, is ignored
  (`HttpServer.cpp:260`, `ContentLength`), and the request is handled with as much
  of its body as the last `recv()` happened to return, while
  `specs/2026-05-23-scaffold/plan.md:41` says "Supports `Content-Length`." and
  field names of HTTP/1.1 have no case. Such a client sends what it declares
  (`Honest`); `FramingExact` is about those that declare it as `Content-Length`.
- A body longer than declared is handled with its surplus, if TCP delivers it in
  time (`HttpServer.cpp:278`, `Framed`), while `docs/errors.md:99` names it as a
  cause of `PAYLOAD_TOO_LARGE`.
- If `run()` has thrown with connections open, because `std::thread` found no
  resources, the destructor ends the process (`Destroy`; the second half of
  `NoThreadOutlivesServer` says that nothing else brings this about), while
  `specs/architecture.md:109` says that the server "joins threads on
  stop/destruction".
- A stop of the HTTP server before `run()` has set `running_` is lost.
- A length near the maximum of `size_t` wraps in the test of the limit
  (`HttpServer.cpp:273`, `Needed`), and the request is dispatched with the bytes
  there are.
- A streaming callback that runs after its `submit()` has timed out uses
  references into a frame that is gone (`KServeRuntime.cpp:727`).
  `LateTokensOnlyAfterTimeout` says that this takes a timeout, not that it cannot
  happen. `AnswersAreCounted` is a lower bound likewise: it does not see the
  second count of a late request above.

## What is proved

Every theorem below holds for all values of the constants that satisfy the
`ASSUME`s of the component's module, which TLC evaluates on every run. Nothing
is bounded except by `MaxCalls`, `MaxRequests`, `MaxLoads` and `MaxChanges`, any
natural number. No property is inductive by itself; each section names the
invariant that is.

### The tensor scheduler

For any set of requests, any finite set of workers, any queue bound, any batch
limit, preferred sizes, shapes and batch dimensions, with or without batching
and retirement. A batch dimension is a natural number: negative ones, which
`requestBatchSize` would cast to `size_t`, are excluded.

| Theorem | Property |
|---|---|
| `TypeCorrect` | `TypeOK` |
| `QueueIsBounded` | `QueueBounded` |
| `ExitedWorkersLeaveNothing` | `ExitedMeansEmpty` |
| `AnsweredAtMostOnce` | `AnsweredOnce` |
| `NoRequestIsLost` | `NoLostRequest` |
| `ExecutorsAreNotShared` | `ExecutorExclusive` |
| `DrainLeavesNobody` | `DrainAnswersAccepted` |
| `CountersMissNobody` | `AnswersAreCounted` |
| `BatchesCanBeMerged` | `BatchWellFormed` |
| `SchedulerIsAService` | `ImplementsService` |

- **The queue.** `QueueInv`: whoever is about to push, about to sleep, or in the
  scan owns the mutex (`MutexInv`); between the test of the bound and the push
  there is room (`RoomInv`); an exited worker saw `draining_` and an empty queue
  and nobody is about to push (`ExitInv`). The third needs the first: a worker
  can leave only when nobody owns the mutex, so nobody is at the push, and after
  that nobody gets past the test of `draining_`.
- **Answers.** `AnswerInv`: a request is in at most one place of the queue or in
  the hands of one worker (`CustodyInv`); what a loop over a batch has left is
  part of the batch, and in the first pass it is late (`TodoInv`); a promise is
  unset while somebody is still going to set it (`PromiseInv`). The lateness in
  `TodoInv` is what keeps the second pass, which drops late members, from
  answering again what the first one answered.
- **Delivery.** `DeliveryInv` adds what a worker has in its hands at each place
  (`PlaceInv`) and that a batch is done with a request only when it is answered
  or its submitter has gone (`DoneInv`); then each step keeps a request that is
  waited for, or has a reason (late, cancelled, answered) to let it go.
- **Executors.** `ExecInv`: an executor's load is 1 if a worker infers on it and
  0 otherwise. As there are as many executors as workers, a worker that has none
  leaves one free (`FreeExecutor`, a counting argument), and the least loaded
  executor is a free one.
- **Drain and counters.** `EndInv` has what workers answer and what `submit()`
  passes on; nobody is left in the queue when the workers are joined. `CountInv`
  counts those who have been, or are about to be, told.
- **Batches.** `BatchInv`: the running sum of `formBatch` is the size of what it
  has collected. That the sum of a set grows by what is added to it is a fact
  about a fold, from `InductionLemmas`.
- **Refinement.** `StartedInv` says of the history variable that who was
  executed is neither queued nor in a batch on its way to an executor. With it
  each step of the scheduler is matched with a step of `RequestService`, or with
  none.

### The LLM scheduler

For any set of requests and prompts, any finite set of workers, any number of
executors, any limits.

| Theorem | Property |
|---|---|
| `TypeCorrect` | `TypeOK` |
| `SlotsNeverLeak` | `SlotsAreHeld` |
| `DecodesAreSpread` | `EvenShare` |
| `DrainIsComplete` | `DrainLeavesNothing` |
| `LateTokensAreTimeouts` | `LateTokensOnlyAfterTimeout` |
| `LlmSchedulerIsAService` | `ImplementsService` |

`SlotsInv` and `InflightInv` equate the counters with the number of workers that
hold a slot, or are on the executor; `EvenShare` follows because a decode goes
to the executor with the fewest of them, and the least of some numbers is at
most their mean. `MutexInv` is the argument of `QueueInv` above, `CustodyInv`
that of `AnswerInv` without batches; `CustodyInv` also says that a request still
held by a worker whose `submit()` has returned timed out. `DrainLeavesNothing`
is about every submitter that is still in `submit()`, past its deadline or not.
`StartedInv` carries the refinement.

### The registry and the handlers

For any models, versions and threads.

| Theorem | Property |
|---|---|
| `TypeCorrect` | `TypeOK` |
| `BuildsAreOwned` | `BuildOwned` |
| `RetirementSparesServing` | `ServingAccepts` |
| `ReadersSeeTheHandle` | `PublishedIsCurrent` |
| `NoReloadLeavesUnloaded` | `SettledNotUnloaded`, if `~MayThrow` |
| `ConfigFollowsScheduler` | `ConfigOfServing` |
| `NoAcceptingIsDropped` | `AcceptingIsReferenced` |
| `ReadinessEndsByUnload` | `OnlyUnloadEndsServing`, an action property |
| `RuntimeUsesRegistry` | `RuntimeSpec => Spec` |
| `RuntimeTypeCorrect` | `RuntimeTypeOK` |
| `AnswersCarryTheirVersion` | `ServedVersion` |
| `ReadinessSurvivesReloads` | `ReadinessHolds`, if `~MayThrow` |

`RegistryInv` is one invariant for the registry's theorems: schedulers belong to
calls, and nobody refers to one that is not built (`IdInv`); what a thread has
built, from the config of its call, is known to nobody else until it swaps it in
(`BuiltInv`); what each state
of a slot says about its handle, its snapshot and its scheduler (`SlotInv`); two
slots share no scheduler (`OwnInv`); one thread builds a slot (`BuildInv`). They
need each other. That a retirement cannot hit a scheduler that serves rests on
`OwnInv` and `BuiltInv`, and those on `BuildInv`: a thread comes back from its
build to the slot it left. Its corollary is that the checks in `LoadSwap` and
`ReloadSwap` for a slot that has gone meanwhile never fail. `AcceptInv` follows
the last reference to a scheduler.

`RuntimeUsesRegistry` shows that each step of the handlers is a step of the
registry or leaves it alone, and that the bound on calls is never what stops
them (`BudgetInv`: two registry calls a request). The registry's theorems are
therefore theorems about `RuntimeSpec`, and `ServedVersion` uses them: a
remembered snapshot has the version it is remembered under (`SnapsInv`).

Two theorems assume that builds do not throw. With exceptions both properties
are false of the code; see "Where code and documents disagree".

### Ensembles

For any models, interfaces, graphs and loaders: `MovingIsCopying`
(`MovesLikeCopies`) and `AcceptedGraphsRun` (`AcceptedGraphRuns`). The
assumptions on `Interfaces` and `Graphs` are what the config parser guarantees:
lists of tensor names that are not empty, graphs that are not empty, and model
steps that name a model. `ValuesInv` says that a tensor somebody is still going
to read, a later step or the response, is in the map and equal to its copy;
`ProducedInv` that, unless a model was replaced by one with other outputs or the
request came short, the map has what the graph's check at load time took for
granted. `ShortInv` says that a short request gets no further than the first
step: the metadata's inputs are what that step reads, so one of its lookups
fails.

### The HTTP server

`MessagesAreFramed` (`FramingExact`) and `RunJoinsItsThreads`
(`NoThreadOutlivesServer`), for any set of connections and messages, any buffer
size and any word width. `ConnectionInv` says that no more is received than was
sent; the framing then follows from the arithmetic of one turn of the loop, the
wrapping sum included. `ThreadsInv` says that a connection that is open is in
`client_threads_` or still to be joined, and that after the swap nothing is added:
when the last is joined none is open, and only a `run()` that has thrown leaves
any in `client_threads_`.

### The bytes of a request

For any clients, bodies, models, element size, batch limit and width of
`size_t`.

| Theorem | Property |
|---|---|
| `AdmittedCountedAlways` | `AdmittedCounted` |
| `InputsAreTheirOwnAlways` | `InputsAreTheirOwn` |
| `AdmittedIsExecutableAlways` | `AdmittedIsExecutable` |
| `OwnRowsAlways` | `OwnRows` |

`PathAssumption` says what a body is after its JSON has been read: inputs with a
form, a size that is not negative, and a shape of integers, negative ones
included; and that `ElementSize`, `MaxBatchSize` and the largest `size_t` are
not zero. Nothing is assumed of how sizes, shapes and the binary part agree.

- **Places.** `PathInv`: queue and batch hold a request once and not both, each
  where its `place` says, and what is executed is what the body decodes to.
- **Counting.** `PathCounted`: the counters are the numbers of admitted and of
  successful answers, which grow with each answer by the one that is new.
- **Decoding.** The loop over the inputs is followed turn by turn: `offset` is
  the length of what the binary inputs so far declare, and a tensor is appended
  for each input. As the binary part must be used up exactly, the slice of an
  input lies where its own bytes were put, which is the flattening of what all
  inputs have behind the header.
- **Admission.** As long as no dimension is zero and none negative, which
  `ShapeMatches` refuses, the two loops that multiply dimensions
  (`tensorElementCount`, `elementCount`) go through the same products and give
  up at the same overflow.
- **Batches.** `PathBatches`: the members of a batch are compatible, and a
  response without a fault is `Rows` of the merged request. Merged bytes are a
  flattening of the members' bytes, each a number of rows long; row `i` of the
  merged request is a row of the member whose rows `i` falls between
  (`BatchOffset`), so the rows of the whole are those of the members one after
  the other, and the slice cut out for a member has as many of them as it has.
  The products of the batcher may wrap around. For a tensor that has the bytes of
  its shape (`Exact`) they agree with the checked product of `elementCount`
  (`SliceExact`); for a response, the split goes through only if the tensor is as
  long as its shape says (`SplitFits`), which a product that wrapped is not.

### The model repository

For any finite set of directory names of any length, any files, any ranking of
backends: `ScanServesHighestAlways` (`ScanServesHighest`) and
`ResolveAgreesWithScanAlways` (`ResolveAgreesWithScan`).

Both rest on facts about names. `CanonicalVersion` keeps the number a name
stands for (`CanonicalIsSame`); of two canonical versions the one that is longer,
or later as text, is the greater number (`HigherIsGreater`), and equal numbers
have one canonical version (`SameValue`). So the comparison of `isHigherVersion`,
which never converts to an integer, is that of the numbers, and each finite set
of versions has a highest.

`ScanInv`: while the scan goes on, every directory that could be served all
along is the first of one of the groups that are left; a group that is skipped
held no model when it was looked into, so none of those, and the group that is
served is the highest of those left. `ResolveInv`: in a tree that has not
changed, the groups left to the scan are those a lookup lists, and both pick by
the same function of tree and group.

### Induction

The library's induction theorems take an operator as parameter, which the
provers cannot instantiate. `InductionLemmas` replaces them by facts about sets:
a nonempty set of natural numbers has a least member (`LeastNatural`), a
nonempty set of finite sets has one that is smallest (`SmallestSubset`). A proof
by induction takes the set of counterexamples and refutes its least member. In
this way the module shows what `MapThenSumSet` of the community modules
computes: that the sum exists, that it does not depend on the order in which
elements are chosen, and what it is for a set with one element more. For the
folds over sequences, with which the model writes the loops of the code, it shows
that each is the last of a sequence of values that starts with the first one and
goes on turn by turn (`FoldTurns`); the proofs then follow those values up to the
end (`UpTo`).

### Only model-checked

- Liveness (`SubmitReturns`, `DrainCompletes`, `RequestsAnswered`,
  `StopReturns`), out of reach of the prover. Liveness of `LlmScheduler` is not
  checked either: its fair state graph is too large for a run of a few minutes at
  the size where slots are contended, and its `submit()` returns at the deadline
  in any case.
- The runs that end in a counterexample.

## Plan

Done: all components below except what is listed as not modelled, the refinement
of both schedulers, and the theorems above.

What could follow: liveness of `LlmScheduler` on an instance of its own; the
hazards of `PROJECT.json` that have a note instead of a property, which the code
would have to be changed for first; the destructor of `SchedulerRetireQueue`.

## Not modelled

- Image pre- and postprocessing (`PipelineStepsTasks.cpp`): arithmetic of a
  vision library without state. The tensors the steps read and write are in
  `PipelineExecutor`.
- `RuntimeConfig.cpp`, `AdminCodec.cpp`, `OpenAiCodec.cpp` and JSON text: parsing
  and formatting without state; handlers see a value or a body that does not
  parse.
- `RealNeuriploAdapter.cpp`, `BackendRegistry.cpp`: an adapter to libraries that
  are loaded at run time.
- Route and method errors, metadata pages, the repository index, the metrics
  page, logging and `main.cpp`: output.
- The destructor of `SchedulerRetireQueue` and the pruning of its list.
