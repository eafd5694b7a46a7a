-------------------------- MODULE LlmServiceProofs --------------------------
(***************************************************************************)
(* What holds of LlmScheduler for every number of requests, workers and    *)
(* executors, every prompt and every limit, and that it implements         *)
(* RequestService: one invariant about the history variable more, and the  *)
(* step of the service that each step of the scheduler is.                 *)
(***************************************************************************)
EXTENDS LlmService, SequenceTheorems, FiniteSetTheorems, TLAPS

-----------------------------------------------------------------------------
(* Places.                                                                 *)

Fields == {"accepted", "rejected", "pressure", "timed_out", "completed"}
Replies == {NoReply, "aborted", "late", "response", "timeout", "draining"}
Resting == {"pop", "popBlock", "popWait", "exited"}
OnExecutor == {"infer", "decode", "decoded"}

\* TypeOK without the bounds of active_decodes_, which rest on SlotsInv.
Typed ==
    /\ queue \in Seq(Requests)
    /\ draining \in BOOLEAN
    /\ owner \in Requests \cup Workers \cup {NoOne}
    /\ cpc \in [Requests -> LlmClientPlaces]
    /\ result \in [Requests -> Outcomes \cup {NoResult, SetTwice}]
    /\ due \in [Requests -> BOOLEAN]
    /\ token \in [Requests -> BOOLEAN]
    /\ cancelled \in [Requests -> BOOLEAN]
    /\ promise \in [Requests -> Outcomes \cup {Unset, SetTwice}]
    /\ wpc \in [Workers -> LlmWorkerPlaces]
    /\ job \in [Workers -> Requests \cup {NoOne}]
    /\ reply \in [Workers -> Replies]
    /\ exec \in [Workers -> Executors \cup {NoExecutor}]
    /\ active \in Int
    /\ inflight \in [Executors -> Nat]
    /\ stray \subseteq Requests
    /\ metrics \in [Fields -> Nat]
    /\ dpc \in {"idle", "stopped", "notify", "join", "drained"}

\* What a worker has in its hands at each place: a request from check to set, a reply
\* behind the decode, an executor during it; and "draining" is the reply of a drain.
PlaceInv ==
    \A w \in Workers :
        /\ wpc[w] \in Resting <=> job[w] = NoOne
        /\ wpc[w] \in {"release", "results"} => reply[w] \in {"aborted", "late", "response"}
        /\ wpc[w] \in {"fulfill", "set"} => reply[w] \in {"timeout", "draining", "response"}
        /\ wpc[w] \in OnExecutor <=> exec[w] # NoExecutor
        /\ reply[w] = "draining" => draining

\* notify_one and notify_all only take sleepers back to the top of popNextPending.
Wakes(before, after) ==
    /\ after \in [Workers -> LlmWorkerPlaces]
    /\ \A w \in Workers : after[w] = before[w] \/ (before[w] = "popWait" /\ after[w] = "pop")

LEMMA NotifyOneWakes ==
    ASSUME NEW pcs \in [Workers -> LlmWorkerPlaces], NEW after \in NotifyOne(pcs),
           \A w \in Waiters : pcs[w] = "popWait"
    PROVE  Wakes(pcs, after)
BY DEF NotifyOne, Waiters, Wakes, LlmWorkerPlaces

LEMMA NotifyAllWakes ==
    ASSUME wpc \in [Workers -> LlmWorkerPlaces]
    PROVE  Wakes(wpc, NotifyAll)
BY DEF NotifyAll, Waiters, Wakes, LlmWorkerPlaces

\* A worker that gives back its slot goes where it is sent; the others may be woken.
LEMMA ReleaseWakes ==
    ASSUME Typed, NEW w \in Workers, NEW place \in LlmWorkerPlaces, wpc[w] # "popWait",
           ReleaseDecodeSlot(w, place)
    PROVE  Wakes([wpc EXCEPT ![w] = place], wpc') /\ active' = active - 1
<1>1. [wpc EXCEPT ![w] = place] \in [Workers -> LlmWorkerPlaces]
  BY DEF Typed
<1>2. \A v \in Waiters : [wpc EXCEPT ![w] = place][v] = "popWait"
  BY DEF Typed, Waiters
<1> QED  BY <1>1, <1>2, NotifyOneWakes DEF ReleaseDecodeSlot

LEMMA CountType ==
    ASSUME metrics \in [Fields -> Nat], NEW field \in Fields, Count(field)
    PROVE  metrics' \in [Fields -> Nat]
BY DEF Count

LEMMA FlagType ==
    ASSUME NEW S, NEW f \in [S -> BOOLEAN], NEW r
    PROVE  [f EXCEPT ![r] = TRUE] \in [S -> BOOLEAN]
BY Zenon

LEMMA FrontType ==
    ASSUME NEW S, NEW q \in Seq(S), q # <<>>
    PROVE  Head(q) \in S /\ Tail(q) \in Seq(S)
OBVIOUS

LEMMA NobodyIsNoThread == NoOne \notin Requests /\ NoOne \notin Workers
BY LlmModeAssumption DEF NoOne

-----------------------------------------------------------------------------
(* Types, and what a worker has in its hands.                              *)

LEMMA TypedInit == Init => Typed /\ PlaceInv
<1> SUFFICES ASSUME Init PROVE Typed /\ PlaceInv
  OBVIOUS
<1>1. draining \in BOOLEAN
  BY Zenon DEF Init
<1>2. cpc \in [Requests -> LlmClientPlaces] /\ wpc \in [Workers -> LlmWorkerPlaces]
  BY DEF Init, LlmClientPlaces, LlmWorkerPlaces
<1>3. metrics \in [Fields -> Nat]
  BY DEF Init, Fields
<1>4. PlaceInv
  BY DEF Init, PlaceInv, Resting, OnExecutor, NoReply
<1> QED  BY <1>1, <1>2, <1>3, <1>4 DEF Init, Typed, Replies

LEMMA TypedSubmit ==
    ASSUME Typed, NEW r \in Requests, SubmitStep(r)
    PROVE  Typed' /\ Wakes(wpc, wpc')
<1>0. UNCHANGED <<draining, due, promise, job, reply, exec, active, inflight, stray, dpc>>
  BY DEF SubmitStep, slotVars
<1>1. cpc' \in [Requests -> LlmClientPlaces]
  BY DEF SubmitStep, Submit, SubmitBudget, SubmitLock, SubmitPush, SubmitNotify, SubmitWait,
         SubmitCancel, Return, Proceed, Typed, LlmClientPlaces
<1>2. result' \in [Requests -> Outcomes \cup {NoResult, SetTwice}]
  BY DEF SubmitStep, Submit, SubmitBudget, SubmitLock, SubmitPush, SubmitNotify, SubmitWait,
         SubmitCancel, Return, Proceed, Typed, Outcomes
<1>3. token' \in [Requests -> BOOLEAN] /\ cancelled' \in [Requests -> BOOLEAN]
  <2>1. /\ token' = token \/ token' = [token EXCEPT ![r] = TRUE]
        /\ cancelled' = cancelled \/ cancelled' = [cancelled EXCEPT ![r] = TRUE]
    BY DEF SubmitStep, Submit, SubmitBudget, SubmitLock, SubmitPush, SubmitNotify, SubmitWait,
           SubmitCancel
  <2> QED  BY <2>1, FlagType DEF Typed
<1>4. metrics' \in [Fields -> Nat]
  BY CountType DEF SubmitStep, Submit, SubmitBudget, SubmitLock, SubmitPush, SubmitNotify, SubmitWait,
         SubmitCancel, Typed, Fields
<1>5. queue' \in Seq(Requests) /\ owner' \in Requests \cup Workers \cup {NoOne}
  <2>1. /\ queue' = queue \/ queue' = Append(queue, r)
        /\ owner' \in {owner, r, NoOne}
    BY DEF SubmitStep, Submit, SubmitBudget, SubmitLock, SubmitPush, SubmitNotify, SubmitWait,
           SubmitCancel
  <2>2. queue \in Seq(Requests) /\ owner \in Requests \cup Workers \cup {NoOne}
    BY DEF Typed
  <2>3. Append(queue, r) \in Seq(Requests)
    BY <2>2
  <2> QED  BY <2>1, <2>2, <2>3
<1>6. wpc' = wpc \/ wpc' \in NotifyOne(wpc)
  BY DEF SubmitStep, Submit, SubmitBudget, SubmitLock, SubmitPush, SubmitNotify, SubmitWait,
         SubmitCancel
<1>7. Wakes(wpc, wpc')
  <2>1. CASE wpc' = wpc
    BY <2>1 DEF Typed, Wakes
  <2>2. CASE wpc' \in NotifyOne(wpc)
    <3>1. wpc \in [Workers -> LlmWorkerPlaces] /\ \A v \in Waiters : wpc[v] = "popWait"
      BY DEF Typed, Waiters
    <3> QED  BY <2>2, <3>1, NotifyOneWakes
  <2> QED  BY <1>6, <2>1, <2>2
<1> QED  BY <1>0, <1>1, <1>2, <1>3, <1>4, <1>5, <1>7 DEF Typed, Wakes

\* The step of a worker leaves the hands of the others alone, and wakes them at most.
Others(w) ==
    \A v \in Workers : v # w =>
        /\ job'[v] = job[v] /\ reply'[v] = reply[v] /\ exec'[v] = exec[v]
        /\ wpc'[v] = wpc[v] \/ (wpc[v] = "popWait" /\ wpc'[v] = "pop")

\* A worker is sent to one place; only the two that give a slot back notify others.
Sent(w, place) ==
    /\ wpc' \in [Workers -> LlmWorkerPlaces] /\ wpc'[w] = place
    /\ \A v \in Workers : v # w => wpc'[v] = wpc[v] \/ (wpc[v] = "popWait" /\ wpc'[v] = "pop")

LEMMA GotoSends ==
    ASSUME Typed, NEW w \in Workers, NEW place \in LlmWorkerPlaces, Goto(w, place)
    PROVE  Sent(w, place)
BY DEF Goto, Sent, Typed

LEMMA ReleaseSends ==
    ASSUME Typed, NEW w \in Workers, NEW place \in LlmWorkerPlaces, wpc[w] # "popWait",
           ReleaseDecodeSlot(w, place), place # "popWait"
    PROVE  Sent(w, place) /\ active' = active - 1
BY ReleaseWakes DEF Sent, Wakes, Typed

LEMMA DropType ==
    ASSUME Typed, NEW w \in Workers, Drop(w)
    PROVE  /\ job' \in [Workers -> Requests \cup {NoOne}] /\ job' = [job EXCEPT ![w] = NoOne]
           /\ reply' \in [Workers -> Replies] /\ reply' = [reply EXCEPT ![w] = NoReply]
BY DEF Drop, Typed, Replies

LEMMA FulfillType ==
    ASSUME Typed, NEW w \in Workers, NEW res \in Replies, Fulfill(w, res)
    PROVE  /\ job' = job
           /\ reply' \in [Workers -> Replies] /\ reply' = [reply EXCEPT ![w] = res]
BY DEF Fulfill, Typed

LEMMA SetTokenType ==
    ASSUME Typed, NEW w \in Workers, SetToken(w)
    PROVE  token' \in [Requests -> BOOLEAN]
BY FlagType DEF SetToken, Typed

LEMMA TimeOutType ==
    ASSUME Typed, NEW w \in Workers, TimeOut(w)
    PROVE  /\ job' = job
           /\ reply' \in [Workers -> Replies] /\ reply' = [reply EXCEPT ![w] = "timeout"]
           /\ metrics' \in [Fields -> Nat]
<1>1. Fulfill(w, "timeout") /\ "timeout" \in Replies
  BY DEF TimeOut, Replies
<1>2. metrics' \in [Fields -> Nat]
  BY CountType DEF TimeOut, Typed, Fields
<1> QED  BY <1>1, <1>2, FulfillType

\* What each step of a worker does to its place, its request, its reply and its
\* executor.
LEMMA WorkerMoves ==
    ASSUME Typed, NEW w \in Workers, WorkerStep(w)
    PROVE  /\ \E place \in LlmWorkerPlaces : Sent(w, place)
           /\ UNCHANGED <<draining, cpc, result, due, stray, dpc, cancelled>>
<1>1. UNCHANGED <<draining, cpc, result, due, stray, dpc>>
  BY DEF WorkerStep, clientVars
<1>2. cancelled' = cancelled
  BY DEF WorkerStep, PopNextPending, PopBlock, ProcessSingle, AcquireDecodeSlot, Slotted, Infer,
         InferReturns, RunInference, Release, Results, FulfillCheck, FulfillSet, flagVars
<1>3. \/ \E place \in LlmWorkerPlaces : Goto(w, place)
      \/ \E place \in {"fulfill", "results"} : ReleaseDecodeSlot(w, place) /\ wpc[w] # "popWait"
  BY DEF WorkerStep, PopNextPending, PopBlock, ProcessSingle, AcquireDecodeSlot, Slotted, Infer,
         InferReturns, RunInference, Release, Results, FulfillCheck, FulfillSet, LlmWorkerPlaces
<1>4. {"fulfill", "results"} \subseteq LlmWorkerPlaces
  BY DEF LlmWorkerPlaces
<1> QED  BY <1>1, <1>2, <1>3, <1>4, GotoSends, ReleaseSends

LEMMA TypedWorker ==
    ASSUME Typed, PlaceInv, NEW w \in Workers, WorkerStep(w)
    PROVE  Typed' /\ PlaceInv'
<1>0. PICK place \in LlmWorkerPlaces : Sent(w, place)
  BY WorkerMoves
<1>1. UNCHANGED <<draining, cpc, result, due, stray, dpc, cancelled>>
  BY WorkerMoves
<1>2. wpc' \in [Workers -> LlmWorkerPlaces]
  BY <1>0 DEF Sent
<1> DEFINE Rest == /\ queue' \in Seq(Requests) /\ owner' \in Requests \cup Workers \cup {NoOne}
                   /\ token' \in [Requests -> BOOLEAN]
                   /\ promise' \in [Requests -> Outcomes \cup {Unset, SetTwice}]
                   /\ active' \in Int /\ inflight' \in [Executors -> Nat]
                   /\ metrics' \in [Fields -> Nat]
           Hands == /\ job' \in [Workers -> Requests \cup {NoOne}] /\ reply' \in [Workers -> Replies]
                    /\ exec' \in [Workers -> Executors \cup {NoExecutor}]
                    /\ \A v \in Workers : v # w =>
                         job'[v] = job[v] /\ reply'[v] = reply[v] /\ exec'[v] = exec[v]
           Place(v) == /\ wpc[v] \in Resting <=> job[v] = NoOne
                       /\ wpc[v] \in {"release", "results"} => reply[v] \in {"aborted", "late", "response"}
                       /\ wpc[v] \in {"fulfill", "set"} => reply[v] \in {"timeout", "draining", "response"}
                       /\ wpc[v] \in OnExecutor <=> exec[v] # NoExecutor
                       /\ reply[v] = "draining" => draining
<1>3. SUFFICES Rest /\ Hands /\ Place(w)'
  <2>1. ASSUME Hands, NEW v \in Workers, v # w PROVE Place(v)'
    BY <1>0, <1>1, <2>1 DEF Sent, PlaceInv, Resting, OnExecutor
  <2> QED  BY <1>1, <1>2, <2>1 DEF Typed, PlaceInv
<1>4. Place(w) /\ NoOne \notin Requests /\ job[w] \in Requests \cup {NoOne}
  BY NobodyIsNoThread DEF PlaceInv, Typed
<1>5. CASE PopNextPending(w)
  <2>1. /\ UNCHANGED <<reply, token, promise, exec, active, inflight, metrics>>
        /\ wpc[w] = "pop"
        /\ \/ UNCHANGED <<queue, job>> /\ wpc'[w] \in {"exited", "popBlock"}
           \/ /\ queue # <<>> /\ queue' = Tail(queue) /\ job' = [job EXCEPT ![w] = Head(queue)]
              /\ wpc'[w] = "check"
        /\ owner' \in {owner, w}
    BY <1>5 DEF PopNextPending, flagVars, slotVars, Goto, Typed
  <2>2. queue # <<>> => Head(queue) \in Requests /\ Tail(queue) \in Seq(Requests)
    BY FrontType DEF Typed
  <2>3. Rest
    BY <2>1, <2>2 DEF Typed
  <2>4. Hands /\ Place(w)'
    BY <1>1, <1>4, <2>1, <2>2 DEF Typed, Resting, OnExecutor
  <2> QED  BY <2>3, <2>4
<1>6. CASE PopBlock(w)
  BY <1>1, <1>4, <1>6 DEF PopBlock, flagVars, slotVars, Goto, Typed, Resting, OnExecutor
<1>7. CASE Infer(w) \/ InferReturns(w)
  BY <1>1, <1>4, <1>7 DEF Infer, InferReturns, flagVars, slotVars, Goto, Typed, Resting, OnExecutor
<1>8. CASE ProcessSingle(w)
  <2>1. UNCHANGED <<queue, owner, promise, exec, active, inflight>> /\ wpc[w] = "check"
    BY <1>8 DEF ProcessSingle, slotVars
  <2>2. \/ wpc'[w] = "pop" /\ Drop(w) /\ UNCHANGED <<token, metrics>>
        \/ wpc'[w] = "fulfill" /\ TimeOut(w) /\ SetToken(w)
        \/ wpc'[w] = "acquire" /\ UNCHANGED <<job, reply, token, metrics>>
    BY <1>8 DEF ProcessSingle, Goto, Typed
  <2>3. Rest
    BY <2>1, <2>2, TimeOutType, SetTokenType DEF Typed
  <2>4. Hands
    BY <2>1, <2>2, TimeOutType, DropType DEF Typed
  <2>5. Place(w)'
    BY <1>1, <1>4, <2>1, <2>2, TimeOutType, DropType DEF Typed, Resting, OnExecutor, NoReply
  <2> QED  BY <2>3, <2>4, <2>5
<1>9. CASE AcquireDecodeSlot(w)
  <2>1. UNCHANGED <<queue, owner, token, promise, exec, inflight>> /\ wpc[w] = "acquire"
    BY <1>9 DEF AcquireDecodeSlot, flagVars
  <2>2. \/ wpc'[w] = "fulfill" /\ TimeOut(w) /\ active' = active
        \/ wpc'[w] = "slotted" /\ UNCHANGED <<job, reply, metrics>> /\ active' = active + 1
    BY <1>9 DEF AcquireDecodeSlot, Goto, Typed
  <2>3. Rest
    BY <2>1, <2>2, TimeOutType DEF Typed
  <2>4. Hands
    BY <2>1, <2>2, TimeOutType DEF Typed
  <2>5. Place(w)'
    BY <1>1, <1>4, <2>1, <2>2, TimeOutType DEF Typed, Resting, OnExecutor
  <2> QED  BY <2>3, <2>4, <2>5
<1>10. CASE Slotted(w)
  <2>1. UNCHANGED <<queue, owner, promise>> /\ wpc[w] = "slotted"
    BY <1>10 DEF Slotted
  <2>2. \/ /\ draining /\ ReleaseDecodeSlot(w, "fulfill") /\ Fulfill(w, "draining")
           /\ UNCHANGED <<token, exec, inflight, metrics>>
        \/ /\ ReleaseDecodeSlot(w, "fulfill") /\ TimeOut(w) /\ SetToken(w)
           /\ UNCHANGED <<exec, inflight>>
        \/ /\ \E e \in Executors : /\ exec' = [exec EXCEPT ![w] = e]
                                   /\ inflight' = [inflight EXCEPT ![e] = @ + 1]
           /\ Goto(w, "infer") /\ UNCHANGED <<job, reply, token, active, metrics>>
    BY <1>10 DEF Slotted
  <2>3. "fulfill" \in LlmWorkerPlaces /\ "infer" \in LlmWorkerPlaces /\ "draining" \in Replies
    BY DEF LlmWorkerPlaces, Replies
  <2>4. CASE draining /\ ReleaseDecodeSlot(w, "fulfill") /\ Fulfill(w, "draining")
             /\ UNCHANGED <<token, exec, inflight, metrics>>
    <3>1. wpc'[w] = "fulfill" /\ active' = active - 1
      BY <2>1, <2>3, <2>4, ReleaseSends DEF Sent
    <3>2. job' = job /\ reply' \in [Workers -> Replies] /\ reply' = [reply EXCEPT ![w] = "draining"]
      BY <2>3, <2>4, FulfillType
    <3>3. Rest
      BY <2>1, <2>4, <3>1 DEF Typed
    <3> QED
      BY <1>1, <1>4, <2>1, <2>4, <3>1, <3>2, <3>3 DEF Typed, Resting, OnExecutor
  <2>5. CASE ReleaseDecodeSlot(w, "fulfill") /\ TimeOut(w) /\ SetToken(w) /\ UNCHANGED <<exec, inflight>>
    <3>1. wpc'[w] = "fulfill" /\ active' = active - 1
      BY <2>1, <2>3, <2>5, ReleaseSends DEF Sent
    <3>2. Rest
      BY <2>1, <2>5, <3>1, TimeOutType, SetTokenType DEF Typed
    <3> QED
      BY <1>1, <1>4, <2>1, <2>5, <3>1, <3>2, TimeOutType DEF Typed, Resting, OnExecutor
  <2>6. CASE /\ \E e \in Executors : /\ exec' = [exec EXCEPT ![w] = e]
                                     /\ inflight' = [inflight EXCEPT ![e] = @ + 1]
             /\ Goto(w, "infer") /\ UNCHANGED <<job, reply, token, active, metrics>>
    <3>1. wpc'[w] = "infer"
      BY <2>6 DEF Goto, Typed
    <3>2. Rest
      BY <2>1, <2>6 DEF Typed
    <3>3. Hands
      BY <2>6 DEF Typed
    <3>4. exec'[w] # NoExecutor
      BY <2>6 DEF Typed, Executors, NoExecutor
    <3> QED
      BY <1>1, <1>4, <2>1, <2>6, <3>1, <3>2, <3>3, <3>4 DEF Resting, OnExecutor
  <2> QED  BY <2>2, <2>4, <2>5, <2>6
<1>11. CASE RunInference(w)
  <2>1. /\ UNCHANGED <<queue, owner, job, token, promise, active, metrics>>
        /\ wpc[w] = "decoded" /\ wpc'[w] = "release"
    BY <1>11 DEF RunInference, flagVars, Goto, Typed
  <2>2. \E res \in {"aborted", "late", "response"} : reply' = [reply EXCEPT ![w] = res]
    BY <1>11 DEF RunInference
  <2>3. exec' = [exec EXCEPT ![w] = NoExecutor]
    BY <1>11 DEF RunInference
  <2>4. inflight' \in [Executors -> Nat]
    <3>1. inflight' = [inflight EXCEPT ![exec[w]] = IF @ > 0 THEN @ - 1 ELSE @]
      BY <1>11 DEF RunInference
    <3>2. ASSUME NEW e \in Executors PROVE inflight'[e] \in Nat
      BY <3>1 DEF Typed
    <3> QED  BY <3>1, <3>2 DEF Typed
  <2>5. Rest
    BY <2>1, <2>4 DEF Typed
  <2>6. Hands
    BY <2>1, <2>2, <2>3 DEF Typed, Replies
  <2>7. Place(w)'
    BY <1>1, <1>4, <2>1, <2>2, <2>3 DEF Typed, Resting, OnExecutor
  <2> QED  BY <2>5, <2>6, <2>7
<1>12. CASE Release(w)
  <2>1. /\ UNCHANGED <<queue, owner, job, reply, token, promise, exec, inflight, metrics>>
        /\ wpc[w] = "release"
    BY <1>12 DEF Release, flagVars
  <2>2. "results" \in LlmWorkerPlaces
    BY DEF LlmWorkerPlaces
  <2>3. wpc'[w] = "results" /\ active' = active - 1
    BY <1>12, <2>1, <2>2, ReleaseSends DEF Release, Sent
  <2>4. Rest /\ Hands
    BY <2>1, <2>3 DEF Typed
  <2>5. Place(w)'
    BY <1>1, <1>4, <2>1, <2>3 DEF Resting, OnExecutor
  <2> QED  BY <2>4, <2>5
<1>13. CASE Results(w)
  <2>1. UNCHANGED <<queue, owner, promise, exec, active, inflight>> /\ wpc[w] = "results"
    BY <1>13 DEF Results, slotVars
  <2>2. \/ wpc'[w] = "pop" /\ Drop(w) /\ UNCHANGED <<token, metrics>>
        \/ wpc'[w] = "fulfill" /\ TimeOut(w) /\ SetToken(w)
        \/ wpc'[w] = "fulfill" /\ reply[w] = "response" /\ Count("completed")
           /\ UNCHANGED <<job, reply, token>>
    BY <1>13 DEF Results, Goto, Typed
  <2>3. Rest
    BY <2>1, <2>2, TimeOutType, SetTokenType, CountType DEF Typed, Fields
  <2>4. Hands
    BY <2>1, <2>2, TimeOutType, DropType DEF Typed
  <2>5. Place(w)'
    BY <1>1, <1>4, <2>1, <2>2, TimeOutType, DropType DEF Typed, Resting, OnExecutor, NoReply
  <2> QED  BY <2>3, <2>4, <2>5
<1>14. CASE FulfillCheck(w)
  <2>1. UNCHANGED <<queue, owner, token, promise, exec, active, inflight, metrics>> /\ wpc[w] = "fulfill"
    BY <1>14 DEF FulfillCheck, flagVars, slotVars
  <2>2. (wpc'[w] = "pop" /\ Drop(w)) \/ (wpc'[w] = "set" /\ UNCHANGED <<job, reply>>)
    BY <1>14 DEF FulfillCheck, Goto, Typed
  <2>3. Rest /\ Hands
    BY <2>1, <2>2, DropType DEF Typed
  <2>4. Place(w)'
    BY <1>1, <1>4, <2>1, <2>2, DropType DEF Typed, Resting, OnExecutor, NoReply
  <2> QED  BY <2>3, <2>4
<1>15. CASE FulfillSet(w)
  <2>1. /\ UNCHANGED <<queue, owner, token, exec, active, inflight, metrics>>
        /\ wpc[w] = "set" /\ wpc'[w] = "pop" /\ Drop(w)
    BY <1>15 DEF FulfillSet, slotVars, Goto, Typed
  <2>2. reply[w] \in Outcomes
    BY <1>4, <2>1 DEF Outcomes
  <2>3. promise' \in [Requests -> Outcomes \cup {Unset, SetTwice}]
    BY <1>15, <2>2 DEF FulfillSet, Typed
  <2>4. Rest /\ Hands
    BY <2>1, <2>3, DropType DEF Typed
  <2>5. Place(w)'
    BY <1>1, <1>4, <2>1, DropType DEF Typed, Resting, OnExecutor, NoReply
  <2> QED  BY <2>4, <2>5
<1> QED
  BY <1>5, <1>6, <1>7, <1>8, <1>9, <1>10, <1>11, <1>12, <1>13, <1>14, <1>15 DEF WorkerStep

LEMMA TypedRetire ==
    ASSUME Typed, RetireStep
    PROVE  Typed' /\ Wakes(wpc, wpc') /\ (draining => draining')
<1>0. /\ UNCHANGED <<owner, cpc, result, due, token, cancelled, job, reply, exec, active, inflight>>
      /\ UNCHANGED <<stray, metrics>>
  BY DEF RetireStep, clientVars, slotVars
<1>1. wpc' = wpc \/ wpc' = NotifyAll
  BY DEF RetireStep, StopAccepting, BeginDrain, DrainNotify, RejectQueuedRequests
<1>2. Wakes(wpc, wpc')
  BY <1>1, NotifyAllWakes DEF Typed, Wakes
<1>3. queue' \in Seq(Requests) /\ dpc' \in {"idle", "stopped", "notify", "join", "drained"}
  <2>1. queue' \in {queue, <<>>} /\ dpc' \in {"idle", "stopped", "notify", "join", "drained"}
    BY DEF RetireStep, StopAccepting, BeginDrain, DrainNotify, RejectQueuedRequests
  <2>2. queue \in Seq(Requests) /\ <<>> \in Seq(Requests)
    BY DEF Typed
  <2> QED  BY <2>1, <2>2
<1>4. draining' = TRUE \/ draining' = draining
  BY DEF RetireStep, StopAccepting, BeginDrain, DrainNotify, RejectQueuedRequests
<1>5. promise' \in [Requests -> Outcomes \cup {Unset, SetTwice}]
  BY DEF RetireStep, StopAccepting, BeginDrain, DrainNotify, RejectQueuedRequests, Typed, Outcomes
<1>6. draining' \in BOOLEAN /\ (draining => draining')
  BY <1>4, Zenon DEF Typed
<1> QED  BY <1>0, <1>2, <1>3, <1>5, <1>6 DEF Typed, Wakes

\* A step that only wakes workers keeps what they have in their hands.
LEMMA PlaceWakes ==
    ASSUME Typed, PlaceInv, Wakes(wpc, wpc'), UNCHANGED <<job, reply, exec>>, draining => draining'
    PROVE  PlaceInv'
BY DEF PlaceInv, Wakes, Resting, OnExecutor

\* The clock, a spurious wake-up, a late token and a stuttering step.
LEMMA TypedElse ==
    ASSUME Typed, \/ \E r \in Requests : Expire(r)
                  \/ \E w \in Workers : SpuriousWake(w) \/ StreamToken(w)
                  \/ UNCHANGED vars
    PROVE  /\ Typed' /\ Wakes(wpc, wpc')
           /\ UNCHANGED <<queue, draining, owner, cpc, result, token, cancelled, promise, job, reply,
                          exec, active, inflight, metrics, dpc>>
           /\ \A r \in Requests : due[r] => due'[r]
<1>1. UNCHANGED <<queue, draining, owner, cpc, result, token, cancelled, promise, job, reply, exec,
                  active, inflight, metrics, dpc>>
  BY DEF Expire, SpuriousWake, StreamToken, vars, queueVars, clientVars, flagVars, workVars, slotVars
<1>2. due' = due \/ \E r \in Requests : due' = [due EXCEPT ![r] = TRUE]
  BY DEF Expire, SpuriousWake, StreamToken, vars
<1>3. due' \in [Requests -> BOOLEAN]
  BY <1>2, FlagType DEF Typed
<1>4. \A r \in Requests : due[r] => due'[r]
  BY <1>2, ZenonT(30) DEF Typed
<1>5. Wakes(wpc, wpc')
  BY DEF Expire, SpuriousWake, StreamToken, vars, workVars, Wakes, Goto, Typed, LlmWorkerPlaces
<1>6. stray' \subseteq Requests
  BY LlmRequestAssumption DEF Expire, SpuriousWake, StreamToken, vars, Typed
<1> QED  BY <1>1, <1>3, <1>4, <1>5, <1>6 DEF Typed, Wakes

\* Every step is one of a submitter, of a worker, of the retiring thread, or one of these.
LEMMA StepCases ==
    ASSUME [Next]_vars
    PROVE  \/ \E r \in Requests : SubmitStep(r)
           \/ \E w \in Workers : WorkerStep(w)
           \/ RetireStep
           \/ \/ \E r \in Requests : Expire(r)
              \/ \E w \in Workers : SpuriousWake(w) \/ StreamToken(w)
              \/ UNCHANGED vars
BY DEF Next

LEMMA TypedStep == Typed /\ PlaceInv /\ [Next]_vars => Typed' /\ PlaceInv'
<1> SUFFICES ASSUME Typed, PlaceInv, [Next]_vars PROVE Typed' /\ PlaceInv'
  OBVIOUS
<1>1. ASSUME NEW r \in Requests, SubmitStep(r) PROVE Typed' /\ PlaceInv'
  <2>1. UNCHANGED <<job, reply, exec, draining>>
    BY <1>1 DEF SubmitStep, slotVars
  <2> QED  BY <1>1, <2>1, TypedSubmit, PlaceWakes
<1>2. ASSUME NEW w \in Workers, WorkerStep(w) PROVE Typed' /\ PlaceInv'
  BY <1>2, TypedWorker
<1>3. CASE RetireStep
  <2>1. UNCHANGED <<job, reply, exec>>
    BY <1>3 DEF RetireStep, slotVars
  <2> QED  BY <1>3, <2>1, TypedRetire, PlaceWakes
<1>4. CASE \/ \E r \in Requests : Expire(r)
           \/ \E w \in Workers : SpuriousWake(w) \/ StreamToken(w)
           \/ UNCHANGED vars
  BY <1>4, TypedElse, PlaceWakes
<1> QED  BY <1>1, <1>2, <1>3, <1>4, StepCases

LEMMA TypedInvariant == Spec => [](Typed /\ PlaceInv)
BY TypedInit, TypedStep, PTL DEF Spec

-----------------------------------------------------------------------------
(* Decode slots.                                                           *)

Holders == {w \in Workers : wpc[w] \in HoldsSlot}

SlotsInv == active = Cardinality(Holders)

\* Removing or adding one worker changes the number of holders by one.
LEMMA HoldersFinite ==
    /\ IsFiniteSet(Holders) /\ Cardinality(Holders) \in 0 .. Slots
    /\ \A w \in Workers : w \notin Holders => Cardinality(Holders) < Slots
<1>0. IsFiniteSet(Workers)
  BY LlmWorkersAssumption
<1>1. Holders \in SUBSET Workers
  BY DEF Holders
<1>2. IsFiniteSet(Holders) /\ Cardinality(Holders) <= Slots /\ (Slots = Cardinality(Holders) => Workers = Holders)
  BY <1>0, <1>1, FS_Subset DEF Slots
<1>3. Cardinality(Holders) \in Nat /\ Slots \in Nat
  BY <1>0, <1>2, FS_CardinalityType DEF Slots
<1> QED  BY <1>2, <1>3

LEMMA SlotsWorker ==
    ASSUME Typed, PlaceInv, SlotsInv, NEW w \in Workers, WorkerStep(w)
    PROVE  SlotsInv'
<1>1. \A v \in Workers : v # w => (v \in Holders' <=> v \in Holders)
  BY WorkerMoves DEF Sent, Holders, HoldsSlot
<1>2. Holders \subseteq Workers /\ Holders' \subseteq Workers /\ IsFiniteSet(Holders)
  BY HoldersFinite DEF Holders
<1>3. Cardinality(Holders) \in Nat
  BY HoldersFinite
<1>4. CASE active' = active /\ (w \in Holders' <=> w \in Holders)
  <2>1. Holders' = Holders
    BY <1>1, <1>2, <1>4
  <2> QED  BY <1>4, <2>1 DEF SlotsInv
<1>5. CASE active' = active + 1 /\ w \notin Holders /\ w \in Holders'
  <2>1. Holders' = Holders \cup {w}
    BY <1>1, <1>2, <1>5
  <2> QED  BY <1>2, <1>5, <2>1, FS_AddElement DEF SlotsInv
<1>6. CASE active' = active - 1 /\ w \in Holders /\ w \notin Holders'
  <2>1. Holders' = Holders \ {w}
    BY <1>1, <1>2, <1>6
  <2> QED  BY <1>2, <1>6, <2>1, FS_RemoveElement DEF SlotsInv
<1>7. CASE PopNextPending(w) \/ PopBlock(w) \/ ProcessSingle(w) \/ Infer(w) \/ InferReturns(w)
           \/ RunInference(w) \/ Results(w) \/ FulfillCheck(w) \/ FulfillSet(w)
  <2>1. active' = active /\ (w \in Holders' <=> w \in Holders)
    BY <1>7 DEF PopNextPending, PopBlock, ProcessSingle, Infer, InferReturns, RunInference, Results,
       FulfillCheck, FulfillSet, slotVars, Goto, Holders, HoldsSlot, Typed
  <2> QED  BY <1>4, <2>1
<1>8. CASE AcquireDecodeSlot(w)
  <2>1. \/ active' = active /\ (w \in Holders' <=> w \in Holders)
        \/ active' = active + 1 /\ w \notin Holders /\ w \in Holders'
    BY <1>8 DEF AcquireDecodeSlot, Goto, Holders, HoldsSlot, Typed
  <2> QED  BY <1>4, <1>5, <2>1
<1>9. CASE Slotted(w) \/ Release(w)
  <2>1. \/ active' = active /\ wpc[w] = "slotted" /\ wpc'[w] = "infer"
        \/ ReleaseDecodeSlot(w, "fulfill") /\ wpc[w] \in HoldsSlot
        \/ ReleaseDecodeSlot(w, "results") /\ wpc[w] \in HoldsSlot
    BY <1>9 DEF Slotted, Release, Goto, HoldsSlot, Typed
  <2>2. "fulfill" \in LlmWorkerPlaces /\ "results" \in LlmWorkerPlaces /\ "popWait" \notin HoldsSlot
    BY DEF LlmWorkerPlaces, HoldsSlot
  <2>3. \/ active' = active /\ wpc[w] = "slotted" /\ wpc'[w] = "infer"
        \/ active' = active - 1 /\ wpc'[w] \in {"fulfill", "results"} /\ wpc[w] \in HoldsSlot
    BY <2>1, <2>2, ReleaseSends DEF Sent
  <2> QED  BY <1>4, <1>6, <2>3 DEF Holders, HoldsSlot
<1> QED  BY <1>7, <1>8, <1>9 DEF WorkerStep

LEMMA SlotsStep == Typed /\ PlaceInv /\ SlotsInv /\ [Next]_vars => SlotsInv'
<1> SUFFICES ASSUME Typed, PlaceInv, SlotsInv, [Next]_vars PROVE SlotsInv'
  OBVIOUS
<1>1. ASSUME Wakes(wpc, wpc'), active' = active PROVE SlotsInv'
  <2>1. Holders' = Holders
    BY <1>1 DEF Wakes, Holders, HoldsSlot
  <2> QED  BY <1>1, <2>1 DEF SlotsInv
<1>2. ASSUME NEW r \in Requests, SubmitStep(r) PROVE SlotsInv'
  BY <1>1, <1>2, TypedSubmit DEF SubmitStep, slotVars
<1>3. CASE RetireStep
  BY <1>1, <1>3, TypedRetire DEF RetireStep, slotVars
<1>4. CASE \/ \E r \in Requests : Expire(r)
           \/ \E w \in Workers : SpuriousWake(w) \/ StreamToken(w)
           \/ UNCHANGED vars
  BY <1>1, <1>4, TypedElse
<1> QED  BY <1>2, <1>3, <1>4, SlotsWorker, StepCases

LEMMA SlotsInvariant == Spec => []SlotsInv
<1>1. Init => SlotsInv
  <2> SUFFICES ASSUME Init PROVE SlotsInv
    OBVIOUS
  <2>1. Holders = {}
    BY DEF Init, Holders, HoldsSlot
  <2> QED  BY <2>1, FS_EmptySet DEF Init, SlotsInv
<1> QED  BY <1>1, TypedInvariant, SlotsStep, PTL DEF Spec

\* Every variable has its type; active_decodes_ stays between 0 and kv_cache_slots.
THEOREM TypeCorrect == Spec => []TypeOK
<1>1. Typed /\ SlotsInv => TypeOK
  BY HoldersFinite DEF Typed, SlotsInv, TypeOK, Replies, Fields
<1> QED  BY <1>1, TypedInvariant, SlotsInvariant, PTL

\* active_decodes_ counts the workers that hold a slot, and a worker that wants one
\* finds one: acquireDecodeSlot never sleeps for want of a slot.
THEOREM SlotsNeverLeak == Spec => []SlotsAreHeld
<1>1. SlotsInv => SlotsAreHeld
  <2> SUFFICES ASSUME SlotsInv, NEW w \in Workers, wpc[w] = "acquire" PROVE SlotFree
    BY DEF SlotsInv, SlotsAreHeld, Holders
  <2>1. w \notin Holders
    BY DEF Holders, HoldsSlot
  <2> QED  BY <2>1, HoldersFinite DEF SlotsInv, SlotFree
<1> QED  BY <1>1, SlotsInvariant, PTL

-----------------------------------------------------------------------------
(* Executors.                                                              *)

Users(e) == {w \in Workers : exec[w] = e}

InflightInv == \A e \in Executors : inflight[e] = Cardinality(Users(e))

LEMMA UsersFinite ==
    \A e \in Executors : IsFiniteSet(Users(e)) /\ Cardinality(Users(e)) \in Nat
<1>1. ASSUME NEW e \in Executors PROVE IsFiniteSet(Users(e)) /\ Cardinality(Users(e)) \in Nat
  <2>1. Users(e) \in SUBSET Workers
    BY DEF Users
  <2>2. IsFiniteSet(Users(e))
    BY <2>1, LlmWorkersAssumption, FS_Subset
  <2> QED  BY <2>2, FS_CardinalityType
<1> QED  BY <1>1

LEMMA InflightWorker ==
    ASSUME Typed, PlaceInv, InflightInv, NEW w \in Workers, WorkerStep(w)
    PROVE  InflightInv'
<1>1. CASE UNCHANGED <<exec, inflight>>
  BY <1>1 DEF InflightInv, Users
<1>2. CASE Slotted(w) /\ ~UNCHANGED <<exec, inflight>>
  <2>1. PICK e \in Executors : /\ exec' = [exec EXCEPT ![w] = e]
                               /\ inflight' = [inflight EXCEPT ![e] = @ + 1]
    BY <1>2 DEF Slotted
  <2>2. exec[w] = NoExecutor
    BY <1>2 DEF Slotted, PlaceInv, OnExecutor
  <2>3. SUFFICES ASSUME NEW f \in Executors PROVE inflight'[f] = Cardinality(Users(f)')
    BY DEF InflightInv
  <2>4. CASE f = e
    <3>1. Users(f)' = Users(f) \cup {w} /\ w \notin Users(f)
      BY <2>1, <2>2, <2>4 DEF Users, Typed, Executors, NoExecutor
    <3>2. IsFiniteSet(Users(f))
      BY UsersFinite
    <3>3. Cardinality(Users(f) \cup {w}) = Cardinality(Users(f)) + 1
      BY <3>1, <3>2, FS_AddElement
    <3> QED  BY <2>1, <2>4, <3>1, <3>3 DEF InflightInv, Typed
  <2>5. CASE f # e
    <3>1. Users(f)' = Users(f)
      BY <2>1, <2>2, <2>5 DEF Users, Typed, Executors, NoExecutor
    <3> QED  BY <2>1, <2>5, <3>1 DEF InflightInv, Typed
  <2> QED  BY <2>4, <2>5
<1>3. CASE RunInference(w)
  <2>1. /\ exec' = [exec EXCEPT ![w] = NoExecutor]
        /\ inflight' = [inflight EXCEPT ![exec[w]] = IF @ > 0 THEN @ - 1 ELSE @]
    BY <1>3 DEF RunInference
  <2>2. exec[w] \in Executors
    BY <1>3 DEF RunInference, PlaceInv, OnExecutor, Typed
  <2>3. SUFFICES ASSUME NEW f \in Executors PROVE inflight'[f] = Cardinality(Users(f)')
    BY DEF InflightInv
  <2>4. CASE f = exec[w]
    <3>1. Users(f)' = Users(f) \ {w} /\ w \in Users(f)
      BY <2>1, <2>4 DEF Users, Typed, Executors, NoExecutor
    <3>2. IsFiniteSet(Users(f)) /\ Cardinality(Users(f)) \in Nat
      BY UsersFinite
    <3>3. Cardinality(Users(f) \ {w}) = Cardinality(Users(f)) - 1
      BY <3>1, <3>2, FS_RemoveElement
    <3>4. Cardinality(Users(f)) > 0
      BY <3>1, <3>2, FS_EmptySet
    <3>5. inflight[f] = Cardinality(Users(f)) /\ inflight \in [Executors -> Nat]
      BY DEF InflightInv, Typed
    <3>6. inflight'[f] = inflight[f] - 1
      BY <2>1, <2>4, <3>4, <3>5
    <3> QED  BY <3>1, <3>3, <3>5, <3>6
  <2>5. CASE f # exec[w]
    <3>1. Users(f)' = Users(f)
      BY <2>1, <2>5 DEF Users, Typed, Executors, NoExecutor
    <3> QED  BY <2>1, <2>2, <2>5, <3>1 DEF InflightInv, Typed
  <2> QED  BY <2>4, <2>5
<1> QED
  BY <1>1, <1>2, <1>3 DEF WorkerStep, PopNextPending, PopBlock, ProcessSingle, AcquireDecodeSlot,
     Slotted, Infer, InferReturns, Release, Results, FulfillCheck, FulfillSet, slotVars

LEMMA InflightInvariant == Spec => []InflightInv
<1>1. Init => InflightInv
  <2> SUFFICES ASSUME Init, NEW e \in Executors PROVE inflight[e] = Cardinality(Users(e))
    BY DEF InflightInv
  <2>1. Users(e) = {}
    BY DEF Init, Users, Executors, NoExecutor
  <2> QED  BY <2>1, FS_EmptySet DEF Init
<1>2. Typed /\ PlaceInv /\ InflightInv /\ [Next]_vars => InflightInv'
  <2> SUFFICES ASSUME Typed, PlaceInv, InflightInv, [Next]_vars PROVE InflightInv'
    OBVIOUS
  <2>1. ASSUME UNCHANGED <<exec, inflight>> PROVE InflightInv'
    BY <2>1 DEF InflightInv, Users
  <2>2. ASSUME NEW r \in Requests, SubmitStep(r) PROVE InflightInv'
    BY <2>1, <2>2 DEF SubmitStep, slotVars
  <2>3. CASE RetireStep
    BY <2>1, <2>3 DEF RetireStep, slotVars
  <2>4. CASE \/ \E r \in Requests : Expire(r)
             \/ \E w \in Workers : SpuriousWake(w) \/ StreamToken(w)
             \/ UNCHANGED vars
    BY <2>1, <2>4, TypedElse
  <2> QED  BY <2>2, <2>3, <2>4, InflightWorker, StepCases
<1> QED  BY <1>1, <1>2, TypedInvariant, PTL DEF Spec

\* Counting: when each of n classes has at least m members, n * m members are classed.
LEMMA ClassesCount ==
    ASSUME NEW n \in Nat, NEW m \in Nat, NEW W, IsFiniteSet(W), NEW class \in [W -> 0 .. n],
           \A e \in 1 .. n : Cardinality({v \in W : class[v] = e}) >= m
    PROVE  n * m <= Cardinality({v \in W : class[v] # 0})
<1> DEFINE Classed == {v \in W : class[v] # 0}
           Class(e) == {v \in W : class[v] = e}
           Numbering(e) == {g \in [1 .. m -> Class(e)] : \A i, j \in 1 .. m : g[i] = g[j] => i = j}
           G == [e \in 1 .. n |-> CHOOSE g \in Numbering(e) : TRUE]
           F == [p \in (1 .. n) \X (1 .. m) |-> G[p[1]][p[2]]]
<1>1. ASSUME NEW e \in 1 .. n PROVE G[e] \in Numbering(e)
  <2> DEFINE k == Cardinality(Class(e))
  <2>1. IsFiniteSet(Class(e)) /\ k >= m
    <3>1. Class(e) \in SUBSET W
      OBVIOUS
    <3> QED  BY <3>1, FS_Subset
  <2>2. k \in Nat /\ Bijection(1 .. k, Class(e)) # {}
    BY <2>1, FS_CardinalityType DEF ExistsBijection
  <2> HIDE DEF k
  <2>3. PICK b : b \in Bijection(1 .. k, Class(e))
    BY <2>2
  <2>4. /\ b \in [1 .. k -> Class(e)]
        /\ \A i, j \in 1 .. k : b[i] = b[j] => i = j
    BY <2>3 DEF Bijection, Injection, IsInjective
  <2>5. \A i \in 1 .. m : i \in 1 .. k
    BY <2>1, <2>2
  <2>6. [i \in 1 .. m |-> b[i]] \in Numbering(e)
    BY <2>4, <2>5
  <2>7. G[e] = CHOOSE g \in Numbering(e) : TRUE
    OBVIOUS
  <2> HIDE DEF G, Numbering
  <2> QED  BY <2>6, <2>7
<1>2. \A e \in 1 .. n, i \in 1 .. m : /\ F[<<e, i>>] = G[e][i] /\ G[e][i] \in Class(e)
                                     /\ \A j \in 1 .. m : G[e][i] = G[e][j] => i = j
  <2>1. \A e \in 1 .. n, i \in 1 .. m : F[<<e, i>>] = G[e][i]
    OBVIOUS
  <2> HIDE DEF F, G
  <2> QED  BY <1>1, <2>1
<1>3. \A p \in (1 .. n) \X (1 .. m) : \E e \in 1 .. n, i \in 1 .. m : p = <<e, i>>
  OBVIOUS
<1>4. \A e \in 1 .. n : \A v \in Class(e) : v \in Classed /\ class[v] = e
  OBVIOUS
<1>5. DOMAIN F = (1 .. n) \X (1 .. m) /\ F = [p \in DOMAIN F |-> F[p]]
  OBVIOUS
<1> HIDE DEF F, G, Class
<1>6. F \in [(1 .. n) \X (1 .. m) -> Classed]
  BY <1>2, <1>3, <1>4, <1>5
<1>7. ASSUME NEW p \in (1 .. n) \X (1 .. m), NEW q \in (1 .. n) \X (1 .. m), F[p] = F[q]
      PROVE  p = q
  <2>1. PICK e \in 1 .. n, i \in 1 .. m : p = <<e, i>>
    BY <1>3
  <2>2. PICK f \in 1 .. n, j \in 1 .. m : q = <<f, j>>
    BY <1>3
  <2>3. G[e][i] = G[f][j]
    BY <1>2, <1>7, <2>1, <2>2
  <2>4. G[e][i] \in Class(e) /\ G[f][j] \in Class(f)
    BY <1>2
  <2>5. e = f
    BY <1>4, <2>3, <2>4
  <2> QED  BY <1>2, <2>1, <2>2, <2>3, <2>5
<1>8. F \in Injection((1 .. n) \X (1 .. m), Classed)
  BY <1>6, <1>7 DEF Injection, IsInjective
<1>9. IsFiniteSet(Classed)
  <2>1. Classed \in SUBSET W
    OBVIOUS
  <2> QED  BY <2>1, FS_Subset
<1>10. /\ IsFiniteSet(1 .. n) /\ Cardinality(1 .. n) = n
       /\ IsFiniteSet(1 .. m) /\ Cardinality(1 .. m) = m
  BY FS_Interval
<1>11. Cardinality((1 .. n) \X (1 .. m)) = n * m
  <2>1. Cardinality((1 .. n) \X (1 .. m)) = Cardinality(1 .. n) * Cardinality(1 .. m)
    BY <1>10, FS_Product, Zenon
  <2> QED  BY <1>10, <2>1
<1> HIDE DEF Classed
<1>12. Cardinality((1 .. n) \X (1 .. m)) <= Cardinality(Classed)
  BY <1>8, <1>9, FS_Injection
<1> QED  BY <1>11, <1>12 DEF Classed

\* The least loaded executor has at most its share of the other workers.
LEMMA LeastLoadedShare ==
    ASSUME Typed, InflightInv, NEW e \in Executors, \A f \in Executors : inflight[e] <= inflight[f],
           NEW w \in Workers, exec[w] = NoExecutor
    PROVE  ExecutorCount * inflight[e] < Slots
<1> DEFINE Busy == {v \in Workers : exec[v] # 0}
<1>1. inflight[e] \in Nat /\ ExecutorCount \in Nat
  BY LlmLimitsAssumption DEF Typed
<1>2. exec \in [Workers -> 0 .. ExecutorCount]
  BY <1>1 DEF Typed, Executors, NoExecutor
<1>3. \A f \in 1 .. ExecutorCount : Cardinality({v \in Workers : exec[v] = f}) >= inflight[e]
  BY DEF InflightInv, Users, Executors, Typed
<1>4. ExecutorCount * inflight[e] <= Cardinality(Busy)
  BY <1>1, <1>2, <1>3, ClassesCount, LlmWorkersAssumption
<1>5. Busy \in SUBSET Workers /\ IsFiniteSet(Workers) /\ w \notin Busy
  BY LlmWorkersAssumption DEF NoExecutor
<1> HIDE DEF Busy
<1>6. /\ IsFiniteSet(Busy) /\ Cardinality(Busy) <= Slots
      /\ Slots = Cardinality(Busy) => Workers = Busy
  BY <1>5, FS_Subset DEF Slots
<1>7. Cardinality(Busy) \in Nat /\ Slots \in Nat
  BY <1>5, <1>6, FS_CardinalityType DEF Slots
<1>8. ExecutorCount * inflight[e] \in Nat
  BY <1>1
<1> QED  BY <1>4, <1>5, <1>6, <1>7, <1>8

LEMMA EvenShareStep ==
    Typed /\ PlaceInv /\ InflightInv /\ EvenShare /\ [Next]_vars => EvenShare'
<1> SUFFICES ASSUME Typed, PlaceInv, InflightInv, EvenShare, [Next]_vars, NEW f \in Executors
             PROVE  inflight'[f] * ExecutorCount < Slots + ExecutorCount
  BY DEF EvenShare
<1>0. /\ inflight[f] * ExecutorCount < Slots + ExecutorCount
      /\ inflight[f] \in Nat /\ ExecutorCount \in Nat /\ Slots \in Nat
  BY LlmLimitsAssumption, LlmWorkersAssumption, FS_CardinalityType DEF EvenShare, Typed, Slots
<1>1. CASE inflight'[f] = inflight[f]
  BY <1>0, <1>1
<1>2. ASSUME NEW w \in Workers, Slotted(w), inflight'[f] # inflight[f]
      PROVE  inflight'[f] * ExecutorCount < Slots + ExecutorCount
  <2>1. LeastLoaded(f) /\ inflight'[f] = inflight[f] + 1
    BY <1>2 DEF Slotted, Typed
  <2>2. exec[w] = NoExecutor
    BY <1>2 DEF Slotted, PlaceInv, OnExecutor
  <2>3. ExecutorCount * inflight[f] < Slots
    BY <2>1, <2>2, LeastLoadedShare DEF LeastLoaded
  <2>4. (inflight[f] + 1) * ExecutorCount = ExecutorCount * inflight[f] + ExecutorCount
    BY <1>0
  <2>5. ExecutorCount * inflight[f] \in Nat
    BY <1>0
  <2> QED  BY <1>0, <2>1, <2>3, <2>4, <2>5
<1>3. ASSUME NEW w \in Workers, RunInference(w), inflight'[f] # inflight[f]
      PROVE  inflight'[f] * ExecutorCount < Slots + ExecutorCount
  <2>1. inflight'[f] = inflight[f] - 1 /\ inflight[f] > 0
    BY <1>0, <1>3 DEF RunInference, Typed
  <2>2. (inflight[f] - 1) * ExecutorCount = inflight[f] * ExecutorCount - ExecutorCount
    BY <1>0
  <2>3. inflight[f] * ExecutorCount \in Nat
    BY <1>0
  <2> QED  BY <1>0, <2>1, <2>2, <2>3
<1>4. ASSUME NEW r \in Requests, SubmitStep(r) PROVE inflight' = inflight
  BY <1>4 DEF SubmitStep, slotVars
<1>5. ASSUME NEW w \in Workers, WorkerStep(w), ~Slotted(w), ~RunInference(w) PROVE inflight' = inflight
  BY <1>5 DEF WorkerStep, PopNextPending, PopBlock, ProcessSingle, AcquireDecodeSlot, Infer,
     InferReturns, Release, Results, FulfillCheck, FulfillSet, slotVars
<1>6. CASE RetireStep
  BY <1>1, <1>6 DEF RetireStep, slotVars
<1>7. CASE \/ \E r \in Requests : Expire(r)
           \/ \E w \in Workers : SpuriousWake(w) \/ StreamToken(w)
           \/ UNCHANGED vars
  BY <1>1, <1>7, TypedElse
<1> QED  BY <1>1, <1>2, <1>3, <1>4, <1>5, <1>6, <1>7, StepCases

\* No executor runs more decodes at a time than its even share of the slots, rounded up.
THEOREM DecodesAreSpread == Spec => []EvenShare
<1>1. Init => EvenShare
  <2> SUFFICES ASSUME Init, NEW e \in Executors PROVE inflight[e] * ExecutorCount < Slots + ExecutorCount
    BY DEF EvenShare
  <2>1. inflight[e] = 0 /\ ExecutorCount \in Nat \ {0} /\ Slots \in Nat
    BY LlmLimitsAssumption, LlmWorkersAssumption, FS_CardinalityType DEF Init, Slots
  <2> QED  BY <2>1
<1> QED  BY <1>1, TypedInvariant, InflightInvariant, EvenShareStep, PTL DEF Spec

-----------------------------------------------------------------------------
(* The mutex, the drain and the end of the workers.                        *)

\* Who is between the two halves of a critical section owns queue_mutex_; a worker that
\* has left the loop leaves an empty queue, and nobody fills it any more.
MutexInv ==
    /\ \A r \in Requests : cpc[r] = "push" => owner = r
    /\ \A w \in Workers : wpc[w] = "popBlock" => owner = w
    /\ dpc # "idle" => draining
    /\ \A w \in Workers : wpc[w] = "exited" =>
         draining /\ queue = <<>> /\ \A r \in Requests : cpc[r] # "push"
    /\ dpc = "drained" => \A w \in Workers : wpc[w] = "exited"

LEMMA MutexSubmit ==
    ASSUME Typed, MutexInv, NEW r \in Requests, SubmitStep(r)
    PROVE  MutexInv'
<1>1. UNCHANGED <<draining, dpc>> /\ Wakes(wpc, wpc') /\ draining \in BOOLEAN
  BY TypedSubmit DEF SubmitStep, Typed
<1>2. /\ NoOne \notin Requests /\ NoOne \notin Workers /\ r \notin Workers
      /\ cpc \in [Requests -> LlmClientPlaces]
  BY NobodyIsNoThread, LlmWorkersAssumption DEF Typed
<1>3. CASE SubmitLock(r)
  <2>1. /\ queue' = queue /\ wpc' = wpc /\ owner = NoOne
        /\ \A s \in Requests : s # r => cpc'[s] = cpc[s]
        /\ (owner' = NoOne /\ cpc'[r] = "returned") \/ (~draining /\ owner' = r)
    BY <1>2, <1>3 DEF SubmitLock, SeesDraining, Return, Proceed
  <2> QED  BY <1>1, <1>2, <2>1 DEF MutexInv
<1>4. CASE SubmitPush(r)
  <2>1. wpc' = wpc /\ cpc' = [cpc EXCEPT ![r] = "notify"] /\ owner = r /\ cpc[r] = "push"
    BY <1>4 DEF SubmitPush, Proceed, MutexInv
  <2>2. \A s \in Requests : cpc'[s] # "push"
    BY <1>2, <2>1 DEF MutexInv
  <2>3. \A w \in Workers : wpc[w] # "popBlock" /\ wpc[w] # "exited"
    BY <1>2, <2>1 DEF MutexInv
  <2> QED  BY <1>1, <2>1, <2>2, <2>3 DEF MutexInv
<1>5. CASE ~SubmitLock(r) /\ ~SubmitPush(r)
  <2>1. /\ UNCHANGED <<queue, owner>>
        /\ \A s \in Requests : cpc'[s] = "push" => cpc[s] = "push"
    BY <1>2, <1>5 DEF SubmitStep, Submit, SubmitBudget, SubmitNotify, SubmitWait, SubmitCancel, Return,
       Proceed
  <2> QED  BY <1>1, <2>1 DEF MutexInv, Wakes
<1> QED  BY <1>3, <1>4, <1>5

LEMMA MutexWorker ==
    ASSUME Typed, MutexInv, NEW w \in Workers, WorkerStep(w)
    PROVE  MutexInv'
<1>1. PICK place \in LlmWorkerPlaces : Sent(w, place)
  BY WorkerMoves
<1>2. UNCHANGED <<draining, cpc, dpc>> /\ draining \in BOOLEAN
  BY WorkerMoves DEF Typed
<1>3. NoOne \notin Requests /\ NoOne \notin Workers /\ w \notin Requests
  BY NobodyIsNoThread, LlmWorkersAssumption
<1>4. wpc[w] # "exited"
  BY DEF WorkerStep, PopNextPending, PopBlock, ProcessSingle, AcquireDecodeSlot, Slotted, Infer,
     InferReturns, RunInference, Release, Results, FulfillCheck, FulfillSet
<1>5. dpc # "drained"
  BY <1>4 DEF MutexInv
<1>6. CASE PopNextPending(w)
  <2>1. /\ owner = NoOne
        /\ \/ wpc'[w] = "exited" /\ draining /\ queue = <<>> /\ UNCHANGED <<queue, owner>>
           \/ wpc'[w] = "popBlock" /\ queue' = queue /\ owner' = w /\ ~draining
           \/ wpc'[w] = "check" /\ queue # <<>> /\ owner' = owner
    BY <1>6 DEF PopNextPending, MayExit, Goto, Typed
  <2>2. \A r \in Requests : cpc[r] # "push"
    BY <1>3, <2>1 DEF MutexInv
  <2>3. \A v \in Workers : wpc[v] # "popBlock"
    BY <1>3, <2>1 DEF MutexInv
  <2> QED  BY <1>1, <1>2, <1>3, <1>5, <2>1, <2>2, <2>3 DEF MutexInv, Sent
<1>7. CASE PopBlock(w)
  <2>1. owner = w /\ owner' = NoOne /\ queue' = queue /\ wpc'[w] = "popWait"
    BY <1>7 DEF PopBlock, MutexInv, Goto, Typed
  <2> QED  BY <1>1, <1>2, <1>3, <1>5, <2>1 DEF MutexInv, Sent
<1>8. CASE ~PopNextPending(w) /\ ~PopBlock(w)
  <2>1. UNCHANGED <<queue, owner>>
    BY <1>8 DEF WorkerStep, ProcessSingle, AcquireDecodeSlot, Slotted, Infer, InferReturns,
       RunInference, Release, Results, FulfillCheck, FulfillSet
  <2>2. \/ \E p \in LlmWorkerPlaces \ {"exited", "popBlock"} : Goto(w, p)
        \/ \E p \in {"fulfill", "results"} : ReleaseDecodeSlot(w, p) /\ wpc[w] # "popWait"
    BY <1>8 DEF WorkerStep, ProcessSingle, AcquireDecodeSlot, Slotted, Infer, InferReturns,
       RunInference, Release, Results, FulfillCheck, FulfillSet, LlmWorkerPlaces
  <2>3. {"fulfill", "results"} \subseteq LlmWorkerPlaces
    BY DEF LlmWorkerPlaces
  <2>4. wpc'[w] \notin {"exited", "popBlock"}
    BY <2>2, <2>3, GotoSends, ReleaseSends DEF Sent
  <2> QED  BY <1>1, <1>2, <1>5, <2>1, <2>4 DEF MutexInv, Sent
<1> QED  BY <1>6, <1>7, <1>8

LEMMA MutexRetire ==
    ASSUME Typed, MutexInv, RetireStep
    PROVE  MutexInv'
<1>1. /\ UNCHANGED <<owner, cpc>> /\ Wakes(wpc, wpc') /\ (draining => draining')
      /\ draining \in BOOLEAN /\ draining' \in BOOLEAN
  BY TypedRetire DEF RetireStep, clientVars, Typed
<1>2. dpc' # "idle" => draining'
  BY <1>1 DEF RetireStep, StopAccepting, BeginDrain, DrainNotify, RejectQueuedRequests, MutexInv
<1>3. queue' = queue \/ queue' = <<>>
  BY DEF RetireStep, StopAccepting, BeginDrain, DrainNotify, RejectQueuedRequests
<1>4. dpc' = "drained" => \A w \in Workers : wpc'[w] = "exited"
  BY DEF RetireStep, StopAccepting, BeginDrain, DrainNotify, RejectQueuedRequests
<1> QED  BY <1>1, <1>2, <1>3, <1>4 DEF MutexInv, Wakes

LEMMA MutexInvariant == Spec => []MutexInv
<1>1. Init => MutexInv
  BY DEF Init, MutexInv
<1>2. Typed /\ PlaceInv /\ MutexInv /\ [Next]_vars => MutexInv'
  <2> SUFFICES ASSUME Typed, MutexInv, [Next]_vars PROVE MutexInv'
    OBVIOUS
  <2>1. CASE \/ \E r \in Requests : Expire(r)
             \/ \E w \in Workers : SpuriousWake(w) \/ StreamToken(w)
             \/ UNCHANGED vars
    <3>1. UNCHANGED <<queue, draining, owner, cpc, dpc>> /\ Wakes(wpc, wpc')
      BY <2>1, TypedElse
    <3> QED  BY <3>1 DEF MutexInv, Wakes
  <2> QED  BY <2>1, MutexSubmit, MutexWorker, MutexRetire, StepCases
<1> QED  BY <1>1, <1>2, TypedInvariant, PTL DEF Spec

-----------------------------------------------------------------------------
(* Who has a request: the queue, one worker, or the submitter alone.       *)

Waiting == {"notify", "wait", "expired"}
Accepted == Waiting \cup {"returned"}

Held(r) == InQueue(r) \/ \E w \in Workers : job[w] = r

CustodyInv ==
    /\ \A i, j \in 1 .. Len(queue) : queue[i] = queue[j] => i = j
    /\ \A v, w \in Workers : job[v] = job[w] /\ job[v] # NoOne => v = w
    /\ \A w \in Workers : ~InQueue(job[w])
    /\ \A r \in Requests :
         /\ Held(r) => /\ cpc[r] \in Accepted /\ promise[r] = Unset
                       /\ cpc[r] = "returned" => result[r] = "timeout"
         /\ cpc[r] \in Waiting /\ promise[r] = Unset => Held(r)
         /\ promise[r] # Unset => cpc[r] \in Accepted
         /\ promise[r] # SetTwice
         /\ cancelled[r] => cpc[r] = "returned"
         /\ r \in stray => cpc[r] = "returned" /\ result[r] = "timeout"

LEMMA AppendElements ==
    ASSUME NEW q \in Seq(Requests), NEW r
    PROVE  /\ Len(Append(q, r)) = Len(q) + 1 /\ Len(q) \in Nat
           /\ \A i \in 1 .. Len(q) : Append(q, r)[i] = q[i]
           /\ Append(q, r)[Len(q) + 1] = r
OBVIOUS

LEMMA TailElements ==
    ASSUME NEW q \in Seq(Requests), q # <<>>
    PROVE  /\ Len(Tail(q)) = Len(q) - 1 /\ Len(q) \in Nat \ {0}
           /\ \A i \in 1 .. Len(q) - 1 : Tail(q)[i] = q[i + 1]
           /\ Head(q) = q[1] /\ Head(q) \in Requests /\ Tail(q) \in Seq(Requests)
OBVIOUS

LEMMA CustodySubmit ==
    ASSUME Typed, CustodyInv, NEW r \in Requests, SubmitStep(r)
    PROVE  CustodyInv'
<1>1. UNCHANGED <<promise, job, stray>>
  BY DEF SubmitStep
<1>2. cpc \in [Requests -> LlmClientPlaces] /\ result \in [Requests -> Outcomes \cup {NoResult, SetTwice}]
  BY DEF Typed
<1>3. /\ \A s \in Requests : s # r => cpc'[s] = cpc[s] /\ result'[s] = result[s]
      /\ \A s \in Requests : s # r => cancelled'[s] = cancelled[s]
  BY <1>2 DEF SubmitStep, Submit, SubmitBudget, SubmitLock, SubmitPush, SubmitNotify, SubmitWait,
     SubmitCancel, Return, Proceed, Typed
<1>4. cpc[r] # "returned" /\ ~cancelled[r] /\ r \notin stray
  BY DEF SubmitStep, Submit, SubmitBudget, SubmitLock, SubmitPush, SubmitNotify, SubmitWait,
     SubmitCancel, CustodyInv
<1>5. CASE SubmitPush(r)
  <2>1. /\ queue' = Append(queue, r) /\ cpc[r] = "push" /\ cpc'[r] = "notify"
        /\ UNCHANGED <<result, cancelled>>
    BY <1>2, <1>5 DEF SubmitPush, Proceed
  <2>2. ~Held(r) /\ promise[r] = Unset
    BY <2>1 DEF CustodyInv, Accepted, Waiting
  <2>3. /\ Len(queue') = Len(queue) + 1 /\ Len(queue) \in Nat
        /\ \A i \in 1 .. Len(queue) : queue'[i] = queue[i] /\ queue[i] # r
        /\ queue'[Len(queue) + 1] = r
    BY <2>1, <2>2, AppendElements DEF Typed, Held, InQueue
  <2>4. \A s : InQueue(s)' <=> InQueue(s) \/ s = r
    BY <2>3 DEF InQueue
  <2>5. \A w \in Workers : job[w] # r
    BY <2>2 DEF Held
  <2>6. \A s \in Requests : Held(s)' <=> Held(s) \/ s = r
    BY <1>1, <2>4 DEF Held
  <2>7. \A i, j \in 1 .. Len(queue') : queue'[i] = queue'[j] => i = j
    BY <2>3 DEF CustodyInv
  <2>8. \A w \in Workers : ~InQueue(job[w])'
    BY <1>1, <2>4, <2>5 DEF CustodyInv
  <2> QED
    BY <1>1, <1>3, <1>4, <2>1, <2>2, <2>6, <2>7, <2>8 DEF CustodyInv, Accepted, Waiting
<1>6. CASE ~SubmitPush(r)
  <2>1. queue' = queue
    BY <1>6 DEF SubmitStep, Submit, SubmitBudget, SubmitLock, SubmitNotify, SubmitWait, SubmitCancel
  <2>2. /\ cpc[r] \in Accepted => cpc'[r] \in Accepted
        /\ cpc'[r] \in Waiting => cpc[r] \in Waiting
        /\ cpc[r] \in Accepted /\ cpc'[r] = "returned" => promise[r] # Unset \/ result'[r] = "timeout"
    BY <1>2, <1>6 DEF SubmitStep, Submit, SubmitBudget, SubmitLock, SubmitNotify, SubmitWait,
       SubmitCancel, Return, Proceed, Accepted, Waiting
  <2>3. cancelled'[r] => cpc'[r] = "returned"
    BY <1>2, <1>4, <1>6 DEF SubmitStep, Submit, SubmitBudget, SubmitLock, SubmitNotify, SubmitWait,
       SubmitCancel, Return, Proceed
  <2>4. \A s : InQueue(s)' <=> InQueue(s)
    BY <2>1 DEF InQueue
  <2>5. \A s \in Requests : Held(s)' <=> Held(s)
    BY <1>1, <2>4 DEF Held
  <2>6. /\ \A i, j \in 1 .. Len(queue') : queue'[i] = queue'[j] => i = j
        /\ \A w \in Workers : ~InQueue(job[w])'
        /\ \A v, w \in Workers : job'[v] = job'[w] /\ job'[v] # NoOne => v = w
    BY <1>1, <2>1 DEF CustodyInv, InQueue
  <2> QED
    BY <1>1, <1>3, <1>4, <2>2, <2>3, <2>5, <2>6 DEF CustodyInv
<1> QED  BY <1>5, <1>6

\* What a worker's step does to custody: nothing, or it takes the front of the queue, or
\* lets a cancelled request go, or answers the request it has.
LEMMA WorkerCustody ==
    ASSUME Typed, PlaceInv, NEW w \in Workers, WorkerStep(w)
    PROVE  \/ UNCHANGED <<queue, job, promise>>
           \/ /\ queue # <<>> /\ queue' = Tail(queue) /\ promise' = promise
              /\ job[w] = NoOne /\ job' = [job EXCEPT ![w] = Head(queue)]
           \/ /\ UNCHANGED <<queue, promise>> /\ job' = [job EXCEPT ![w] = NoOne]
              /\ job[w] \in Requests /\ cancelled[job[w]]
           \/ /\ queue' = queue /\ job' = [job EXCEPT ![w] = NoOne] /\ job[w] \in Requests
              /\ reply[w] \notin {Unset, SetTwice}
              /\ promise' = [promise EXCEPT ![job[w]] = IF @ = Unset THEN reply[w] ELSE SetTwice]
<1>1. CASE PopNextPending(w)
  BY <1>1 DEF PopNextPending, flagVars, PlaceInv, Resting
<1>2. CASE ProcessSingle(w) \/ Results(w) \/ FulfillCheck(w)
  <2>1. wpc[w] \in {"check", "results", "fulfill"} /\ UNCHANGED <<queue, promise>>
    BY <1>2 DEF ProcessSingle, Results, FulfillCheck, flagVars
  <2>2. job[w] \in Requests
    BY <2>1 DEF PlaceInv, Resting, Typed
  <2>3. job' = job \/ (cancelled[job[w]] /\ Drop(w))
    BY <1>2 DEF ProcessSingle, Results, FulfillCheck, TimeOut, Fulfill
  <2> QED  BY <2>1, <2>2, <2>3 DEF Drop
<1>3. CASE FulfillSet(w)
  <2>1. job[w] \in Requests /\ reply[w] \notin {Unset, SetTwice}
    BY <1>3 DEF FulfillSet, PlaceInv, Resting, Typed, Unset, SetTwice
  <2> QED  BY <1>3, <2>1 DEF FulfillSet, Drop
<1>4. CASE ~PopNextPending(w) /\ ~ProcessSingle(w) /\ ~Results(w) /\ ~FulfillCheck(w) /\ ~FulfillSet(w)
  BY <1>4 DEF WorkerStep, PopBlock, AcquireDecodeSlot, Slotted, Infer, InferReturns, RunInference,
     Release, TimeOut, Fulfill, flagVars
<1> QED  BY <1>1, <1>2, <1>3, <1>4

LEMMA CustodyWorker ==
    ASSUME Typed, PlaceInv, CustodyInv, NEW w \in Workers, WorkerStep(w)
    PROVE  CustodyInv'
<1>1. UNCHANGED <<cpc, result, stray, cancelled>>
  BY WorkerMoves
<1>2. /\ job \in [Workers -> Requests \cup {NoOne}] /\ queue \in Seq(Requests) /\ NoOne \notin Requests
      /\ promise \in [Requests -> Outcomes \cup {Unset, SetTwice}]
  BY NobodyIsNoThread DEF Typed
<1>3. CASE UNCHANGED <<queue, job, promise>>
  BY <1>1, <1>3 DEF CustodyInv, Held, InQueue
<1>4. CASE /\ queue # <<>> /\ queue' = Tail(queue) /\ promise' = promise
           /\ job[w] = NoOne /\ job' = [job EXCEPT ![w] = Head(queue)]
  <2> DEFINE h == Head(queue)
  <2>1. /\ Len(queue') = Len(queue) - 1 /\ Len(queue) \in Nat \ {0}
        /\ \A i \in 1 .. Len(queue) - 1 : queue'[i] = queue[i + 1]
        /\ h = queue[1] /\ h \in Requests
    BY <1>2, <1>4, TailElements
  <2> HIDE DEF h
  <2>2. \A i \in 2 .. Len(queue) : queue[i] # h
    BY <2>1 DEF CustodyInv
  <2>3. \A s : InQueue(s)' <=> InQueue(s) /\ s # h
    <3>1. ASSUME NEW s, InQueue(s)' PROVE InQueue(s) /\ s # h
      BY <2>1, <2>2, <3>1 DEF InQueue
    <3>2. ASSUME NEW s, InQueue(s), s # h PROVE InQueue(s)'
      <4>1. PICK i \in 1 .. Len(queue) : queue[i] = s
        BY <3>2 DEF InQueue
      <4>2. i # 1 /\ i - 1 \in 1 .. Len(queue')
        BY <2>1, <3>2, <4>1
      <4>3. queue'[i - 1] = queue[i]
        BY <2>1, <4>1, <4>2
      <4> QED  BY <4>1, <4>2, <4>3 DEF InQueue
    <3> QED  BY <3>1, <3>2
  <2>4. InQueue(h) /\ \A v \in Workers : job[v] # h
    BY <2>1 DEF InQueue, CustodyInv
  <2>5. job'[w] = h /\ \A v \in Workers : v # w => job'[v] = job[v]
    BY <1>2, <1>4 DEF h
  <2>6. \A s \in Requests : Held(s)' <=> Held(s)
    BY <1>2, <1>4, <2>3, <2>4, <2>5 DEF Held
  <2>7. \A i, j \in 1 .. Len(queue') : queue'[i] = queue'[j] => i = j
    <3> SUFFICES ASSUME NEW i \in 1 .. Len(queue'), NEW j \in 1 .. Len(queue'), queue'[i] = queue'[j]
                 PROVE  i = j
      OBVIOUS
    <3>1. i + 1 \in 1 .. Len(queue) /\ j + 1 \in 1 .. Len(queue) /\ queue[i + 1] = queue[j + 1]
      BY <2>1
    <3>2. i + 1 = j + 1
      BY <3>1 DEF CustodyInv
    <3> QED  BY <3>2
  <2>8. /\ \A v, u \in Workers : job'[v] = job'[u] /\ job'[v] # NoOne => v = u
        /\ \A v \in Workers : ~InQueue(job[v])'
    BY <2>3, <2>4, <2>5 DEF CustodyInv
  <2> QED  BY <1>1, <1>4, <2>6, <2>7, <2>8 DEF CustodyInv
<1>5. CASE /\ UNCHANGED <<queue, promise>> /\ job' = [job EXCEPT ![w] = NoOne]
           /\ job[w] \in Requests /\ cancelled[job[w]]
  <2>1. job'[w] = NoOne /\ \A v \in Workers : v # w => job'[v] = job[v]
    BY <1>2, <1>5
  <2>2. \A s : InQueue(s)' <=> InQueue(s)
    BY <1>5 DEF InQueue
  <2>3. \A s \in Requests : /\ Held(s)' => Held(s)
                            /\ s # job[w] /\ Held(s) => Held(s)'
    BY <1>2, <2>1, <2>2 DEF Held
  <2>4. cpc[job[w]] = "returned"
    BY <1>5 DEF CustodyInv
  <2>5. ~InQueue(NoOne)
    BY <1>2 DEF InQueue
  <2>6. /\ \A v, u \in Workers : job'[v] = job'[u] /\ job'[v] # NoOne => v = u
        /\ \A v \in Workers : ~InQueue(job[v])'
        /\ \A i, j \in 1 .. Len(queue') : queue'[i] = queue'[j] => i = j
    BY <1>5, <2>1, <2>2, <2>5 DEF CustodyInv
  <2> QED  BY <1>1, <1>5, <2>3, <2>4, <2>6 DEF CustodyInv, Waiting
<1>6. CASE /\ queue' = queue /\ job' = [job EXCEPT ![w] = NoOne] /\ job[w] \in Requests
           /\ reply[w] \notin {Unset, SetTwice}
           /\ promise' = [promise EXCEPT ![job[w]] = IF @ = Unset THEN reply[w] ELSE SetTwice]
  <2>1. job'[w] = NoOne /\ \A v \in Workers : v # w => job'[v] = job[v]
    BY <1>2, <1>6
  <2>2. \A s : InQueue(s)' <=> InQueue(s)
    BY <1>6 DEF InQueue
  <2>3. \A s \in Requests : Held(s)' <=> Held(s) /\ s # job[w]
    BY <1>2, <1>6, <2>1, <2>2 DEF Held, CustodyInv
  <2>4. Held(job[w])
    BY <1>6 DEF Held
  <2>5. /\ promise'[job[w]] = reply[w] /\ cpc[job[w]] \in Accepted
        /\ \A s \in Requests : s # job[w] => promise'[s] = promise[s]
    BY <1>2, <1>6, <2>4 DEF CustodyInv
  <2>6. ~InQueue(NoOne)
    BY <1>2 DEF InQueue
  <2>7. /\ \A v, u \in Workers : job'[v] = job'[u] /\ job'[v] # NoOne => v = u
        /\ \A v \in Workers : ~InQueue(job[v])'
        /\ \A i, j \in 1 .. Len(queue') : queue'[i] = queue'[j] => i = j
    BY <1>6, <2>1, <2>2, <2>6 DEF CustodyInv
  <2> QED  BY <1>1, <1>6, <2>3, <2>5, <2>7 DEF CustodyInv
<1> QED  BY <1>3, <1>4, <1>5, <1>6, WorkerCustody

LEMMA CustodyRetire ==
    ASSUME Typed, CustodyInv, RetireStep
    PROVE  CustodyInv'
<1>1. UNCHANGED <<cpc, result, cancelled, job, stray>>
  BY DEF RetireStep, clientVars
<1>2. CASE RejectQueuedRequests
  <2>1. /\ queue' = <<>>
        /\ \A r \in Requests : promise'[r] = IF ~InQueue(r) THEN promise[r]
                                             ELSE IF promise[r] = Unset THEN "draining" ELSE SetTwice
    BY <1>2 DEF RejectQueuedRequests
  <2>2. \A s : ~InQueue(s)'
    BY <2>1 DEF InQueue
  <2>3. \A s \in Requests : Held(s)' => Held(s) /\ ~InQueue(s)
    BY <1>1, <2>2 DEF Held, CustodyInv
  <2>4. \A s \in Requests : Held(s) => Held(s)' \/ InQueue(s)
    BY <1>1 DEF Held
  <2>5. \A s \in Requests : InQueue(s) => promise[s] = Unset /\ cpc[s] \in Accepted
    BY DEF Held, CustodyInv
  <2> QED  BY <1>1, <2>1, <2>2, <2>3, <2>4, <2>5 DEF CustodyInv, Unset, SetTwice
<1>3. CASE ~RejectQueuedRequests
  <2>1. UNCHANGED <<queue, promise>>
    BY <1>3 DEF RetireStep, StopAccepting, BeginDrain, DrainNotify
  <2> QED  BY <1>1, <2>1 DEF CustodyInv, Held, InQueue
<1> QED  BY <1>2, <1>3

LEMMA CustodyInvariant == Spec => []CustodyInv
<1>1. Init => CustodyInv
  BY NobodyIsNoThread DEF Init, CustodyInv, Held, InQueue, Waiting, Accepted, Unset, SetTwice
<1>2. Typed /\ PlaceInv /\ CustodyInv /\ [Next]_vars => CustodyInv'
  <2> SUFFICES ASSUME Typed, PlaceInv, CustodyInv, [Next]_vars PROVE CustodyInv'
    OBVIOUS
  <2>1. CASE \/ \E r \in Requests : Expire(r)
             \/ \E w \in Workers : SpuriousWake(w) \/ StreamToken(w)
             \/ UNCHANGED vars
    <3>1. UNCHANGED <<queue, cpc, result, cancelled, promise, job>>
      BY <2>1, TypedElse
    <3>2. stray' = stray \/ \E w \in Workers : /\ job[w] \in Requests /\ cpc[job[w]] = "returned"
                                              /\ stray' = stray \cup {job[w]}
      BY <2>1, LlmRequestAssumption DEF Expire, SpuriousWake, StreamToken, vars
    <3>3. \A r \in stray' : cpc[r] = "returned" /\ result[r] = "timeout"
      BY <3>2 DEF CustodyInv, Held, Typed
    <3> QED  BY <3>1, <3>3 DEF CustodyInv, Held, InQueue
  <2> QED  BY <2>1, CustodySubmit, CustodyWorker, CustodyRetire, StepCases
<1> QED  BY <1>1, <1>2, TypedInvariant, PTL DEF Spec

\* A streaming callback that runs after its submit() returned belongs to a request that
\* timed out: the drain and every other answer end the decode before submit() returns.
THEOREM LateTokensAreTimeouts == Spec => []LateTokensOnlyAfterTimeout
<1>1. Typed /\ CustodyInv => LateTokensOnlyAfterTimeout
  BY DEF Typed, CustodyInv, LateTokensOnlyAfterTimeout
<1> QED  BY <1>1, TypedInvariant, CustodyInvariant, PTL

\* When beginDrain() has returned, no slot and no executor is in use and nobody who was
\* taken in is without an answer.
THEOREM DrainIsComplete == Spec => []DrainLeavesNothing
<1>1. Typed /\ PlaceInv /\ SlotsInv /\ InflightInv /\ MutexInv /\ CustodyInv => DrainLeavesNothing
  <2> SUFFICES ASSUME Typed, PlaceInv, SlotsInv, InflightInv, MutexInv, CustodyInv, dpc = "drained"
               PROVE  /\ active = 0 /\ \A e \in Executors : inflight[e] = 0
                      /\ \A r \in Requests : cpc[r] \in Waiting => promise[r] # Unset
    BY DEF DrainLeavesNothing, Waiting
  <2>1. \A w \in Workers : wpc[w] = "exited" /\ job[w] = NoOne /\ exec[w] = NoExecutor
    BY DEF MutexInv, PlaceInv, Resting, OnExecutor
  <2>2. queue = <<>>
    BY LlmWorkersAssumption, <2>1 DEF MutexInv
  <2>3. Holders = {} /\ \A e \in Executors : Users(e) = {}
    BY <2>1 DEF Holders, HoldsSlot, Users, Executors, NoExecutor
  <2>4. active = 0 /\ \A e \in Executors : inflight[e] = 0
    BY <2>3, FS_EmptySet DEF SlotsInv, InflightInv
  <2>5. \A r \in Requests : ~Held(r)
    BY <2>1, <2>2, NobodyIsNoThread DEF Held, InQueue
  <2> QED  BY <2>4, <2>5 DEF CustodyInv
<1> QED
  BY <1>1, TypedInvariant, SlotsInvariant, InflightInvariant, MutexInvariant, CustodyInvariant, PTL

-----------------------------------------------------------------------------
(* The requests an executor ever worked on.                                *)

\* A request is decoded by the worker that popped it, before that worker answers it, and
\* never again: who has been decoded is neither queued nor on its way to an executor.
StartedInv ==
    /\ started \subseteq Requests
    /\ \A r \in started : cpc[r] \in Accepted /\ ~InQueue(r)
    /\ \A w \in Workers :
         /\ wpc[w] \in OnExecutor => job[w] \in started
         /\ wpc[w] \in {"check", "acquire", "slotted"} => job[w] \notin started
         /\ reply[w] = "response" => job[w] \in started
    /\ \A r \in Requests :
         /\ promise[r] \in {Unset, "response", "timeout", "draining"}
         /\ promise[r] = "response" => r \in started
         /\ promise[r] = "draining" => draining

SchedulerInv == Typed /\ PlaceInv /\ MutexInv /\ CustodyInv

LEMMA StartedInit == HistoryInit => StartedInv
BY DEF HistoryInit, Init, StartedInv, OnExecutor, Unset, NoReply

LEMMA DecodingStarted ==
    ASSUME StartedInv PROVE DecodingNow \subseteq started
BY DEF StartedInv, DecodingNow, OnExecutor

\* A step that sends nobody to an executor starts nothing.
LEMMA NothingStarts ==
    ASSUME StartedInv, started' = started \cup DecodingNow',
           \A w \in Workers : wpc'[w] \in OnExecutor => wpc[w] \in OnExecutor /\ job'[w] = job[w]
    PROVE  started' = started
BY DEF StartedInv, DecodingNow, OnExecutor

LEMMA StartedSubmit ==
    ASSUME SchedulerInv, StartedInv, NEW r \in Requests, SubmitStep(r),
           started' = started \cup DecodingNow'
    PROVE  StartedInv' /\ started' = started /\ DecodingNow' = DecodingNow
<1> USE DEF SchedulerInv
<1>1. UNCHANGED <<promise, job, reply, draining>> /\ Wakes(wpc, wpc')
  BY TypedSubmit DEF SubmitStep
<1>2. started' = started
  BY <1>1, NothingStarts DEF Wakes, OnExecutor
<1>3. DecodingNow' = DecodingNow
  BY <1>1 DEF DecodingNow, Wakes
<1>4. \A s \in Requests : cpc[s] \in Accepted => cpc'[s] \in Accepted
  BY DEF SubmitStep, Submit, SubmitBudget, SubmitLock, SubmitPush, SubmitNotify, SubmitWait,
     SubmitCancel, Return, Proceed, Accepted, Waiting, Typed
<1>5. \A s \in started : ~InQueue(s)'
  <2>1. CASE SubmitPush(r)
    <3>1. r \notin started /\ queue' = Append(queue, r)
      BY <2>1 DEF SubmitPush, StartedInv, Accepted, Waiting
    <3> QED  BY <3>1, AppendElements DEF InQueue, StartedInv, Typed
  <2>2. CASE ~SubmitPush(r)
    <3>1. queue' = queue
      BY <2>2 DEF SubmitStep, Submit, SubmitBudget, SubmitLock, SubmitNotify, SubmitWait, SubmitCancel
    <3> QED  BY <3>1 DEF InQueue, StartedInv
  <2> QED  BY <2>1, <2>2
<1> QED  BY <1>1, <1>2, <1>3, <1>4, <1>5 DEF StartedInv, Wakes, OnExecutor

\* What a worker replies is set when its request has been decoded, or is no response.
LEMMA WorkerReplies ==
    ASSUME Typed, NEW w \in Workers, WorkerStep(w)
    PROVE  /\ \A v \in Workers : v # w => reply'[v] = reply[v] /\ job'[v] = job[v]
           /\ reply'[w] = "response" => reply[w] = "response" \/ wpc[w] = "decoded"
<1>1. \/ reply' = reply
      \/ \E res \in {"timeout", "draining", NoReply} : reply' = [reply EXCEPT ![w] = res]
      \/ wpc[w] = "decoded" /\ \E res \in {"aborted", "late", "response"} : reply' = [reply EXCEPT ![w] = res]
  BY DEF WorkerStep, PopNextPending, PopBlock, ProcessSingle, AcquireDecodeSlot, Slotted, Infer,
     InferReturns, RunInference, Release, Results, FulfillCheck, FulfillSet, Drop, TimeOut, Fulfill
<1>2. job' = job \/ \E x : job' = [job EXCEPT ![w] = x]
  BY DEF WorkerStep, PopNextPending, PopBlock, ProcessSingle, AcquireDecodeSlot, Slotted, Infer,
     InferReturns, RunInference, Release, Results, FulfillCheck, FulfillSet, Drop, TimeOut, Fulfill
<1> QED  BY <1>1, <1>2 DEF Typed, NoReply

\* Where a step of a worker leads to: the step onto an executor and the one off it are
\* the only ones that change what is decoded.
LEMMA WorkerPlaces ==
    ASSUME Typed, PlaceInv, NEW w \in Workers, WorkerStep(w)
    PROVE  \/ wpc[w] = "slotted" /\ wpc'[w] = "infer" /\ UNCHANGED <<job, queue>>
           \/ wpc[w] = "decoded" /\ wpc'[w] = "release" /\ UNCHANGED <<job, queue>>
           \/ /\ wpc[w] \in {"infer", "decode"} /\ wpc'[w] \in {"decode", "decoded"}
              /\ UNCHANGED <<job, queue>>
           \/ /\ wpc[w] = "pop" /\ wpc'[w] = "check" /\ queue # <<>>
              /\ queue' = Tail(queue) /\ job'[w] = Head(queue)
           \/ /\ wpc[w] \in {"check", "acquire"} /\ wpc'[w] \in {"acquire", "slotted"}
              /\ UNCHANGED <<job, queue>>
           \/ /\ wpc[w] \notin OnExecutor /\ queue' = queue
              /\ wpc'[w] \notin OnExecutor \cup {"check", "acquire", "slotted"}
<1>1. CASE Slotted(w)
  <2>1. wpc[w] = "slotted" /\ queue' = queue /\ "fulfill" \in LlmWorkerPlaces
    BY <1>1 DEF Slotted, LlmWorkerPlaces
  <2>2. (Goto(w, "infer") /\ job' = job) \/ ReleaseDecodeSlot(w, "fulfill")
    BY <1>1 DEF Slotted
  <2>3. (wpc'[w] = "infer" /\ job' = job) \/ wpc'[w] = "fulfill"
    BY <2>1, <2>2, ReleaseSends DEF Goto, Sent, Typed
  <2> QED  BY <2>1, <2>3 DEF OnExecutor
<1>2. CASE Release(w)
  <2>1. wpc[w] = "release" /\ queue' = queue /\ "results" \in LlmWorkerPlaces
    BY <1>2 DEF Release, LlmWorkerPlaces
  <2>2. wpc'[w] = "results"
    BY <1>2, <2>1, ReleaseSends DEF Release, Sent
  <2> QED  BY <2>1, <2>2 DEF OnExecutor
<1>3. CASE PopNextPending(w)
  BY <1>3 DEF PopNextPending, Goto, Typed, OnExecutor
<1>4. CASE PopBlock(w) \/ ProcessSingle(w) \/ AcquireDecodeSlot(w) \/ Infer(w) \/ InferReturns(w)
  BY <1>4 DEF PopBlock, ProcessSingle, AcquireDecodeSlot, Infer, InferReturns, Goto, Typed, OnExecutor
<1>5. CASE RunInference(w) \/ Results(w) \/ FulfillCheck(w) \/ FulfillSet(w)
  BY <1>5 DEF RunInference, Results, FulfillCheck, FulfillSet, Goto, Typed, OnExecutor
<1> QED  BY <1>1, <1>2, <1>3, <1>4, <1>5 DEF WorkerStep

\* What is decoded after a worker's step, and what has been.
LEMMA WorkerDecodes ==
    ASSUME SchedulerInv, StartedInv, NEW w \in Workers, WorkerStep(w),
           started' = started \cup DecodingNow'
    PROVE  \/ /\ wpc[w] = "slotted" /\ wpc'[w] = "infer"
              /\ DecodingNow' = DecodingNow \cup {job[w]} /\ started' = started \cup {job[w]}
           \/ /\ wpc[w] = "decoded" /\ wpc'[w] = "release"
              /\ DecodingNow' = DecodingNow \ {job[w]} /\ started' = started
           \/ /\ wpc[w] # "decoded" /\ wpc'[w] # "infer"
              /\ DecodingNow' = DecodingNow /\ started' = started
<1> USE DEF SchedulerInv
<1>1. \A v \in Workers : v # w => /\ job'[v] = job[v]
                                  /\ wpc'[v] \in OnExecutor <=> wpc[v] \in OnExecutor
  BY WorkerReplies, WorkerMoves DEF Sent, OnExecutor
<1>2. DecodingNow = {job[v] : v \in {u \in Workers : wpc[u] \in OnExecutor}}
  BY DEF DecodingNow, OnExecutor
<1>3. DecodingNow' = {job'[v] : v \in {u \in Workers : wpc'[u] \in OnExecutor}}
  BY DEF DecodingNow, OnExecutor
<1>4. DecodingNow \subseteq started
  BY DecodingStarted
<1>5. CASE wpc[w] = "slotted" /\ wpc'[w] = "infer" /\ job' = job
  <2>1. DecodingNow' = DecodingNow \cup {job[w]}
    BY <1>1, <1>2, <1>3, <1>5 DEF OnExecutor
  <2> QED  BY <1>4, <1>5, <2>1
<1>6. CASE wpc[w] = "decoded" /\ wpc'[w] = "release" /\ job' = job
  <2>1. \A v \in Workers : v # w => job[v] # job[w]
    BY <1>6 DEF CustodyInv, PlaceInv, Resting
  <2>2. DecodingNow' = DecodingNow \ {job[w]}
    BY <1>1, <1>2, <1>3, <1>6, <2>1 DEF OnExecutor
  <2> QED  BY <1>4, <1>6, <2>2
<1>7. CASE wpc[w] \in {"infer", "decode"} /\ wpc'[w] \in {"decode", "decoded"} /\ job' = job
  <2>1. DecodingNow' = DecodingNow
    BY <1>1, <1>2, <1>3, <1>7 DEF OnExecutor
  <2> QED  BY <1>4, <1>7, <2>1
<1>8. CASE wpc[w] \notin OnExecutor /\ wpc'[w] \notin OnExecutor
  <2>1. DecodingNow' = DecodingNow
    BY <1>1, <1>2, <1>3, <1>8
  <2> QED  BY <1>4, <1>8, <2>1 DEF OnExecutor
<1> QED  BY <1>5, <1>6, <1>7, <1>8, WorkerPlaces DEF OnExecutor

LEMMA StartedWorker ==
    ASSUME SchedulerInv, StartedInv, NEW w \in Workers, WorkerStep(w),
           started' = started \cup DecodingNow'
    PROVE  StartedInv'
<1> USE DEF SchedulerInv
<1>1. UNCHANGED <<draining, cpc>>
  BY WorkerMoves
<1>2. /\ job \in [Workers -> Requests \cup {NoOne}] /\ queue \in Seq(Requests) /\ NoOne \notin Requests
      /\ promise \in [Requests -> Outcomes \cup {Unset, SetTwice}] /\ started \subseteq Requests
  BY NobodyIsNoThread DEF Typed, StartedInv
<1>3. started \subseteq started' /\ started' \subseteq started \cup {job[w]}
  BY WorkerDecodes
<1>4. started' # started => wpc[w] = "slotted" /\ wpc'[w] = "infer" /\ job[w] \in Requests
  BY WorkerDecodes DEF PlaceInv, Resting, Typed
<1>5. \A r \in started' : r \in Requests /\ cpc'[r] \in Accepted /\ ~InQueue(r)'
  <2>1. \A r \in started' : r \in Requests /\ cpc[r] \in Accepted /\ ~InQueue(r)
    BY <1>2, <1>3, <1>4 DEF StartedInv, CustodyInv, Held
  <2>2. \A r : InQueue(r)' => InQueue(r)
    <3>1. queue' = queue \/ (queue # <<>> /\ queue' = Tail(queue))
      BY WorkerPlaces
    <3> QED  BY <1>2, <3>1, TailElements DEF InQueue
  <2> QED  BY <1>1, <2>1, <2>2
<1>6. ASSUME NEW v \in Workers, v # w
      PROVE  /\ wpc'[v] \in OnExecutor => job'[v] \in started'
             /\ wpc'[v] \in {"check", "acquire", "slotted"} => job'[v] \notin started'
             /\ reply'[v] = "response" => job'[v] \in started'
  <2>1. /\ job'[v] = job[v] /\ reply'[v] = reply[v]
        /\ wpc'[v] = wpc[v] \/ (wpc[v] = "popWait" /\ wpc'[v] = "pop")
    BY <1>6, WorkerReplies, WorkerMoves DEF Sent
  <2>2. started' # started => job[v] # job[w]
    BY <1>2, <1>4, <1>6 DEF CustodyInv
  <2> QED  BY <1>3, <2>1, <2>2 DEF StartedInv, OnExecutor
<1>7. /\ wpc'[w] \in OnExecutor => job'[w] \in started'
      /\ wpc'[w] \in {"check", "acquire", "slotted"} => job'[w] \notin started'
  <2>1. CASE wpc[w] = "slotted" /\ wpc'[w] = "infer" /\ job' = job
    BY <2>1, WorkerDecodes DEF OnExecutor
  <2>2. CASE wpc[w] = "pop" /\ wpc'[w] = "check" /\ queue # <<>> /\ job'[w] = Head(queue)
    <3>1. InQueue(job'[w]) /\ job'[w] \in Requests
      BY <1>2, <2>2, TailElements DEF InQueue
    <3>2. job'[w] \notin started /\ started' = started
      BY <1>4, <2>2, <3>1 DEF StartedInv
    <3> QED  BY <2>2, <3>2 DEF OnExecutor
  <2>3. CASE wpc[w] # "slotted" /\ job' = job /\ wpc'[w] \in OnExecutor /\ wpc[w] \in OnExecutor
    BY <1>3, <2>3 DEF StartedInv, OnExecutor
  <2>4. CASE wpc[w] \in {"check", "acquire"} /\ wpc'[w] \in {"acquire", "slotted"} /\ job' = job
    BY <1>4, <2>4 DEF StartedInv, OnExecutor
  <2>5. CASE wpc'[w] \notin OnExecutor \cup {"check", "acquire", "slotted"}
    BY <2>5
  <2> QED  BY <2>1, <2>2, <2>3, <2>4, <2>5, WorkerPlaces DEF OnExecutor
<1>8. reply'[w] = "response" => job'[w] \in started'
  <2> SUFFICES ASSUME reply'[w] = "response" PROVE job'[w] \in started'
    OBVIOUS
  <2>1. job[w] \in started
    BY WorkerReplies DEF StartedInv, OnExecutor
  <2>2. job[w] # NoOne
    BY <1>2, <2>1
  <2>3. job' = job
    <3>1. ~Drop(w)
      BY DEF Drop, Typed, NoReply
    <3>2. ~PopNextPending(w)
      BY <2>2 DEF PopNextPending, PlaceInv, Resting
    <3> QED  BY <3>1, <3>2 DEF WorkerStep, PopBlock, ProcessSingle, AcquireDecodeSlot, Slotted, Infer,
             InferReturns, RunInference, Release, Results, FulfillCheck, FulfillSet, TimeOut, Fulfill
  <2> QED  BY <1>3, <2>1, <2>3
<1>9. ASSUME NEW r \in Requests
      PROVE  /\ promise'[r] \in {Unset, "response", "timeout", "draining"}
             /\ promise'[r] = "response" => r \in started'
             /\ promise'[r] = "draining" => draining'
  <2>1. CASE promise'[r] = promise[r]
    BY <1>1, <1>3, <2>1 DEF StartedInv
  <2>2. CASE promise'[r] # promise[r]
    <3>1. FulfillSet(w) /\ r = job[w]
      BY <1>2, <2>2 DEF WorkerStep, PopNextPending, PopBlock, ProcessSingle, AcquireDecodeSlot, Slotted,
         Infer, InferReturns, RunInference, Release, Results, FulfillCheck, FulfillSet, flagVars
    <3>2. promise[r] = Unset /\ promise'[r] = reply[w]
      BY <1>2, <3>1 DEF FulfillSet, CustodyInv, Held
    <3>3. reply[w] \in {"timeout", "draining", "response"} /\ (reply[w] = "draining" => draining)
      BY <3>1 DEF FulfillSet, PlaceInv
    <3>4. reply[w] = "response" => r \in started'
      BY <1>3, <3>1 DEF StartedInv
    <3> QED  BY <1>1, <3>2, <3>3, <3>4
  <2> QED  BY <2>1, <2>2
<1> QED  BY <1>5, <1>6, <1>7, <1>8, <1>9 DEF StartedInv

\* The retiring thread, the clock and the rest start nothing.
LEMMA StartedElse ==
    ASSUME SchedulerInv, StartedInv, started' = started \cup DecodingNow',
           \/ RetireStep
           \/ \E r \in Requests : Expire(r)
           \/ \E w \in Workers : SpuriousWake(w) \/ StreamToken(w)
           \/ UNCHANGED vars
    PROVE  StartedInv' /\ started' = started /\ DecodingNow' = DecodingNow
<1> USE DEF SchedulerInv
<1>1. UNCHANGED <<cpc, job, reply>> /\ Wakes(wpc, wpc') /\ (draining => draining')
  BY TypedRetire, TypedElse DEF RetireStep, clientVars
<1>2. started' = started
  BY <1>1, NothingStarts DEF Wakes, OnExecutor
<1>3. DecodingNow' = DecodingNow
  BY <1>1 DEF DecodingNow, Wakes
<1>4. CASE RejectQueuedRequests
  <2>1. draining /\ \A r : ~InQueue(r)'
    BY <1>4 DEF RejectQueuedRequests, MutexInv, InQueue
  <2>2. \A r \in Requests : /\ promise'[r] = promise[r] \/ promise'[r] = "draining"
    BY <1>4 DEF RejectQueuedRequests, CustodyInv, Held
  <2> QED  BY <1>1, <1>2, <1>3, <2>1, <2>2 DEF StartedInv, Wakes, OnExecutor
<1>5. CASE ~RejectQueuedRequests
  <2>1. UNCHANGED <<queue, promise>>
    BY <1>5, TypedElse DEF RetireStep, StopAccepting, BeginDrain, DrainNotify
  <2> QED  BY <1>1, <1>2, <1>3, <2>1 DEF StartedInv, Wakes, OnExecutor, InQueue
<1> QED  BY <1>4, <1>5

LEMMA HistoryIsSpec == HistorySpec => Spec
<1>1. HistoryInit => Init
  BY DEF HistoryInit
<1>2. [HistoryNext]_<<vars, started>> => [Next]_vars
  BY DEF HistoryNext
<1> QED  BY <1>1, <1>2, PTL DEF HistorySpec, Spec

LEMMA StartedStep ==
    SchedulerInv /\ StartedInv /\ [HistoryNext]_<<vars, started>> => StartedInv'
<1> SUFFICES ASSUME SchedulerInv, StartedInv, [HistoryNext]_<<vars, started>> PROVE StartedInv'
  OBVIOUS
<1>1. CASE HistoryNext
  <2>1. started' = started \cup DecodingNow' /\ [Next]_vars
    BY <1>1 DEF HistoryNext
  <2> QED  BY <2>1, StepCases, StartedSubmit, StartedWorker, StartedElse
<1>2. CASE UNCHANGED <<vars, started>>
  <2>1. UNCHANGED <<queue, draining, cpc, wpc, job, reply, promise, started>>
    BY <1>2 DEF vars, queueVars, clientVars, workVars, flagVars
  <2> QED  BY <2>1 DEF StartedInv, InQueue
<1> QED  BY <1>1, <1>2

LEMMA StartedInvariant == HistorySpec => [](SchedulerInv /\ StartedInv)
<1>1. HistorySpec => []SchedulerInv
  BY HistoryIsSpec, TypedInvariant, MutexInvariant, CustodyInvariant, PTL DEF SchedulerInv
<1> QED  BY <1>1, StartedInit, StartedStep, PTL DEF HistorySpec

-----------------------------------------------------------------------------
(* The refinement.                                                         *)

phaseOf == [r \in Requests |-> Phase(r)]
modeOf == IF dpc = "drained" THEN "drained" ELSE IF draining THEN "closed" ELSE "open"

\* The service is open until draining_ is set.
LEMMA Modes ==
    ASSUME MutexInv
    PROVE  /\ ~draining => modeOf = "open"
           /\ draining /\ dpc # "drained" => modeOf = "closed"
           /\ dpc = "drained" => modeOf = "drained"
           /\ dpc = "drained" => draining
BY DEF MutexInv, modeOf

LEMMA RefinesInit == HistoryInit => Service!Init
<1> SUFFICES ASSUME HistoryInit PROVE Service!Init
  OBVIOUS
<1>1. \A r \in Requests : Phase(r) = "new"
  BY DEF HistoryInit, Init, Phase
<1>2. DecodingNow = {}
  BY DEF HistoryInit, Init, DecodingNow
<1>3. modeOf = "open"
  BY DEF HistoryInit, Init, modeOf
<1> QED  BY <1>1, <1>2, <1>3 DEF HistoryInit, Init, modeOf, Service!Init, Service!NoAnswer, NoResult

LEMMA PhaseMoves ==
    ASSUME Typed, NEW r \in Requests
    PROVE  /\ Return(r, result'[r]) => phaseOf' = [phaseOf EXCEPT ![r] = "done"]
           /\ cpc' = [cpc EXCEPT ![r] = "budget"] => phaseOf' = [phaseOf EXCEPT ![r] = "entered"]
           /\ cpc' = [cpc EXCEPT ![r] = "notify"] => phaseOf' = [phaseOf EXCEPT ![r] = "taken"]
<1>1. ASSUME NEW place, NEW p, cpc' = [cpc EXCEPT ![r] = place], Phase(r)' = p
      PROVE  phaseOf' = [phaseOf EXCEPT ![r] = p]
  <2>1. \A s \in Requests : s # r => Phase(s)' = Phase(s)
    BY <1>1 DEF Phase, Typed
  <2> QED  BY <1>1, <2>1 DEF phaseOf
<1>2. /\ cpc' = [cpc EXCEPT ![r] = "returned"] => Phase(r)' = "done"
      /\ cpc' = [cpc EXCEPT ![r] = "budget"] => Phase(r)' = "entered"
      /\ cpc' = [cpc EXCEPT ![r] = "notify"] => Phase(r)' = "taken"
  BY DEF Phase, Typed
<1> QED  BY <1>1, <1>2 DEF Return

\* A submitter's step is one of Enter, Refuse, Take and Reply, or is not seen.
LEMMA RefinesSubmit ==
    ASSUME SchedulerInv, StartedInv, NEW r \in Requests, SubmitStep(r),
           started' = started \cup DecodingNow'
    PROVE  Service!Next \/ UNCHANGED Service!serviceVars
<1> USE DEF SchedulerInv
<1>1. started' = started /\ DecodingNow' = DecodingNow
  BY StartedSubmit
<1>2. UNCHANGED <<draining, dpc>>
  BY DEF SubmitStep
<1>3. modeOf' = modeOf
  BY <1>2 DEF modeOf
<1>4. /\ draining <=> modeOf # "open"
      /\ modeOf = "drained" <=> dpc = "drained"
  BY Modes
<1>5. /\ cpc[r] = "idle" => phaseOf[r] = "new"
      /\ cpc[r] \in {"budget", "lock", "push"} => phaseOf[r] = "entered"
      /\ cpc[r] \in Waiting => phaseOf[r] = "taken"
  BY DEF phaseOf, Phase, Waiting
<1>6. /\ \A a : Return(r, a) => /\ phaseOf' = [phaseOf EXCEPT ![r] = "done"]
                                /\ result' = [result EXCEPT ![r] = a]
      /\ Proceed(r, "budget") => phaseOf' = [phaseOf EXCEPT ![r] = "entered"] /\ result' = result
      /\ Proceed(r, "notify") => phaseOf' = [phaseOf EXCEPT ![r] = "taken"] /\ result' = result
  <2>1. \A a : Return(r, a) => Return(r, result'[r]) /\ result' = [result EXCEPT ![r] = a]
    BY DEF Return, Typed
  <2> QED  BY <2>1, PhaseMoves DEF Proceed
<1>7. \A a : Return(r, a) => Service!Answer(r, a)
  BY <1>1, <1>3, <1>6 DEF Service!Answer, phaseOf, modeOf
<1>8. CASE Submit(r)
  <2>1. CASE Return(r, "invalid")
    BY <1>5, <1>7, <1>8, <2>1 DEF Submit, Service!Next, Service!Refuse, Service!Refusals, phaseOf
  <2>2. CASE draining /\ Return(r, "draining")
    BY <1>4, <1>5, <1>7, <1>8, <2>2 DEF Submit, Service!Next, Service!Refuse, phaseOf, modeOf
  <2>3. CASE ~draining /\ Proceed(r, "budget")
    BY <1>1, <1>3, <1>4, <1>5, <1>6, <1>8, <2>3 DEF Submit, Service!Next, Service!Enter, phaseOf, modeOf
  <2> QED  BY <1>8, <2>1, <2>2, <2>3 DEF Submit
<1>9. CASE \E a \in {"overloaded"} : cpc[r] \in {"budget", "lock"} /\ Return(r, a)
  BY <1>5, <1>7, <1>9 DEF Service!Next, Service!Refuse, Service!Refusals, phaseOf
<1>10. CASE cpc[r] = "lock" /\ draining /\ Return(r, "draining")
  BY <1>4, <1>5, <1>7, <1>10 DEF Service!Next, Service!Refuse, phaseOf, modeOf
<1>11. CASE SubmitPush(r)
  <2>1. dpc # "drained"
    BY <1>11, LlmWorkersAssumption DEF SubmitPush, MutexInv
  <2> QED
    BY <1>1, <1>3, <1>4, <1>5, <1>6, <1>11, <2>1
    DEF SubmitPush, Service!Next, Service!Take, phaseOf, modeOf
<1>12. CASE cpc[r] = "wait" /\ promise[r] # Unset /\ Return(r, promise[r])
  <2>1. phaseOf[r] = "taken" /\ Service!Answer(r, promise[r])
    BY <1>5, <1>7, <1>12 DEF Waiting
  <2>2. CASE promise[r] = "response"
    <3>1. r \in started /\ ~Held(r)
      BY <2>2, <1>12 DEF StartedInv, CustodyInv
    <3>2. r \notin DecodingNow
      BY <3>1 DEF Held, DecodingNow
    <3> QED  BY <2>1, <2>2, <3>1, <3>2 DEF Service!Next, Service!Reply, Service!Executed, phaseOf
  <2>3. CASE promise[r] = "timeout"
    BY <2>1, <2>3 DEF Service!Next, Service!Reply, Service!Failures, phaseOf
  <2>4. CASE promise[r] = "draining"
    <3>1. draining
      BY <2>4 DEF StartedInv
    <3> QED  BY <1>4, <2>1, <2>4, <3>1 DEF Service!Next, Service!Reply, phaseOf, modeOf
  <2> QED  BY <1>12, <2>2, <2>3, <2>4 DEF StartedInv
<1>13. CASE SubmitCancel(r)
  BY <1>5, <1>7, <1>13 DEF SubmitCancel, Service!Next, Service!Reply, Service!Failures, phaseOf, Waiting
<1>14. CASE \/ cpc[r] = "budget" /\ Proceed(r, "lock")
            \/ cpc[r] = "lock" /\ Proceed(r, "push")
            \/ cpc[r] = "notify" /\ Proceed(r, "wait")
            \/ cpc[r] = "wait" /\ Proceed(r, "expired")
  <2>1. \A s \in Requests : Phase(s)' = Phase(s)
    BY <1>14 DEF Proceed, Phase, Typed
  <2>2. phaseOf' = phaseOf /\ result' = result
    BY <1>14, <2>1 DEF phaseOf, Proceed
  <2> QED  BY <1>1, <1>3, <2>2 DEF Service!serviceVars, phaseOf, modeOf
<1>15. SubmitBudget(r) \/ SubmitLock(r) => \/ \E a \in {"overloaded"} : cpc[r] \in {"budget", "lock"} /\ Return(r, a)
                                           \/ cpc[r] = "lock" /\ draining /\ Return(r, "draining")
                                           \/ cpc[r] = "budget" /\ Proceed(r, "lock")
                                           \/ cpc[r] = "lock" /\ Proceed(r, "push")
  BY DEF SubmitBudget, SubmitLock, SeesDraining
<1>16. SubmitNotify(r) \/ SubmitWait(r) => \/ cpc[r] = "notify" /\ Proceed(r, "wait")
                                           \/ cpc[r] = "wait" /\ promise[r] # Unset /\ Return(r, promise[r])
                                           \/ cpc[r] = "wait" /\ Proceed(r, "expired")
  BY DEF SubmitNotify, SubmitWait
<1> QED
  BY <1>8, <1>9, <1>10, <1>11, <1>12, <1>13, <1>14, <1>15, <1>16 DEF SubmitStep

\* A worker's step begins one decode, ends one, or is not seen.
LEMMA RefinesWorker ==
    ASSUME SchedulerInv, StartedInv, NEW w \in Workers, WorkerStep(w),
           started' = started \cup DecodingNow'
    PROVE  Service!Next \/ UNCHANGED Service!serviceVars
<1> USE DEF SchedulerInv
<1>1. UNCHANGED <<draining, dpc, cpc, result>>
  BY WorkerMoves
<1>2. modeOf' = modeOf /\ phaseOf' = phaseOf
  BY <1>1 DEF modeOf, phaseOf, Phase
<1>3. CASE /\ wpc[w] = "slotted"
           /\ DecodingNow' = DecodingNow \cup {job[w]} /\ started' = started \cup {job[w]}
  <2>1. job[w] \in Requests /\ job[w] \notin started /\ cpc[job[w]] \in Accepted
    <3>1. job[w] \in Requests /\ job[w] \notin started
      BY <1>3 DEF PlaceInv, Resting, Typed, StartedInv
    <3>2. Held(job[w])
      BY DEF Held
    <3> QED  BY <3>1, <3>2 DEF CustodyInv
  <2>2. phaseOf[job[w]] \in {"taken", "done"}
    BY <2>1 DEF phaseOf, Phase, Accepted, Waiting
  <2>3. modeOf # "drained"
    BY <1>3, Modes DEF MutexInv, modeOf
  <2>4. {job[w]} \in SUBSET Requests
    BY <2>1
  <2>5. Service!Start({job[w]})
    BY <1>1, <1>2, <1>3, <2>1, <2>2, <2>3 DEF Service!Start, phaseOf, modeOf
  <2> QED  BY <2>4, <2>5 DEF Service!Next
<1>4. CASE wpc[w] = "decoded" /\ DecodingNow' = DecodingNow \ {job[w]} /\ started' = started
  <2>1. job[w] \in Requests /\ job[w] \in DecodingNow
    BY <1>4 DEF PlaceInv, Resting, Typed, DecodingNow
  <2>2. {job[w]} \in SUBSET Requests
    BY <2>1
  <2>3. Service!Finish({job[w]})
    BY <1>1, <1>2, <1>4, <2>1 DEF Service!Finish, phaseOf, modeOf
  <2> QED  BY <2>2, <2>3 DEF Service!Next
<1>5. CASE DecodingNow' = DecodingNow /\ started' = started
  BY <1>1, <1>2, <1>5 DEF Service!serviceVars, phaseOf, modeOf
<1> QED  BY <1>3, <1>4, <1>5, WorkerDecodes

\* The retiring thread closes the service and, when the workers are joined, has drained it.
LEMMA RefinesElse ==
    ASSUME SchedulerInv, StartedInv, started' = started \cup DecodingNow',
           \/ RetireStep
           \/ \E r \in Requests : Expire(r)
           \/ \E w \in Workers : SpuriousWake(w) \/ StreamToken(w)
           \/ UNCHANGED vars
    PROVE  Service!Next \/ UNCHANGED Service!serviceVars
<1> USE DEF SchedulerInv
<1>1. started' = started /\ DecodingNow' = DecodingNow
  BY StartedElse
<1>2. UNCHANGED <<cpc, result>>
  BY TypedElse DEF RetireStep, clientVars
<1>3. phaseOf' = phaseOf
  BY <1>2 DEF phaseOf, Phase
<1>4. CASE UNCHANGED <<draining, dpc>>
  BY <1>1, <1>2, <1>3, <1>4 DEF Service!serviceVars, phaseOf
<1>5. CASE StopAccepting \/ BeginDrain \/ DrainNotify
  <2>1. (modeOf = "open" /\ modeOf' = "closed") \/ modeOf' = modeOf
    BY <1>5 DEF StopAccepting, BeginDrain, DrainNotify, modeOf, MutexInv
  <2>2. CASE modeOf = "open" /\ modeOf' = "closed"
    BY <1>1, <1>2, <1>3, <2>2 DEF Service!Next, Service!Close, phaseOf, modeOf
  <2>3. CASE modeOf' = modeOf
    BY <1>1, <1>2, <1>3, <2>3 DEF Service!serviceVars, phaseOf, modeOf
  <2> QED  BY <2>1, <2>2, <2>3
<1>6. CASE RejectQueuedRequests
  <2>1. modeOf = "closed" /\ modeOf' = "drained"
    BY <1>6 DEF RejectQueuedRequests, modeOf, MutexInv
  <2>2. DecodingNow = {}
    BY <1>6 DEF RejectQueuedRequests, DecodingNow
  <2> QED  BY <1>1, <1>2, <1>3, <2>1, <2>2 DEF Service!Next, Service!Drained, phaseOf, modeOf
<1> QED  BY <1>4, <1>5, <1>6, TypedElse DEF RetireStep

\* Whatever the interleaving, the clients and the registry see the promise of interface
\* Scheduler: a request is refused or taken in, one taken in is decoded at most once and
\* never after the drain, and an answer says what happened.
THEOREM LlmSchedulerIsAService == HistorySpec => ImplementsService
<1>1. SchedulerInv /\ StartedInv /\ [HistoryNext]_<<vars, started>> => [Service!Next]_Service!serviceVars
  <2> SUFFICES ASSUME SchedulerInv, StartedInv, [HistoryNext]_<<vars, started>>
               PROVE  Service!Next \/ UNCHANGED Service!serviceVars
    OBVIOUS
  <2>1. CASE HistoryNext
    <3>1. started' = started \cup DecodingNow' /\ [Next]_vars
      BY <2>1 DEF HistoryNext
    <3> QED  BY <3>1, StepCases, RefinesSubmit, RefinesWorker, RefinesElse
  <2>2. CASE UNCHANGED <<vars, started>>
    <3>1. started' = started \cup DecodingNow' /\ UNCHANGED vars
      <4>1. UNCHANGED <<wpc, job, started>>
        BY <2>2 DEF vars, workVars
      <4> QED  BY <2>2, <4>1, DecodingStarted DEF DecodingNow
    <3> QED  BY <3>1, RefinesElse
  <2> QED  BY <2>1, <2>2
<1> QED
  BY <1>1, RefinesInit, StartedInvariant, PTL DEF HistorySpec, ImplementsService, Service!Service

=============================================================================
