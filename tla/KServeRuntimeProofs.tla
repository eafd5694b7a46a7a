------------------------- MODULE KServeRuntimeProofs -------------------------
(***************************************************************************)
(* What TLAPS proves of ModelRegistry and then of KServeRuntime, for every *)
(* number of names, versions, threads, calls, clients and requests: the    *)
(* lifecycle of a model; that the handlers use the registry as             *)
(* ModelRegistry specifies it, so that what is proved there holds here;    *)
(* and what the handlers promise beyond it.                                *)
(***************************************************************************)
EXTENDS KServeRuntime, FiniteSetTheorems, TLAPS

-----------------------------------------------------------------------------
(* Types.                                                                  *)

\* A thread that serves a call knows it; only an unload comes without a version, and it
\* stays in unloadModel.
CallInv ==
    \A t \in Threads : tpc[t] # "returned" =>
        /\ call[t] \in Calls
        /\ call[t].kind # "unload" => call[t].version \in Versions
        /\ call[t].kind = "unload" => tpc[t] \in {"unload", "drain", "complete", "return"}
        /\ tpc[t] \in {"load", "reload", "switch", "unload"} => call[t].kind = tpc[t]

Typed == TypeOK /\ CallInv

LEMMA NoVersionIsNone == NoVersion \notin Versions /\ MaxCalls \in Nat /\ MayThrow \in BOOLEAN
BY VersionAssumption, CallsAssumption DEF NoVersion

LEMMA HandleTypes ==
    ASSUME NEW state \in States, NEW k \in Schedulers \cup {NoScheduler},
           NEW v \in Versions \cup {NoVersion}, NEW c \in Versions \cup {NoVersion}
    PROVE  Handle(state, k, v, c) \in Handles
BY DEF Handle, Handles

LEMMA NoHandleType == NoHandle \in Handles /\ LoadingHandle \in Handles
BY DEF NoHandle, LoadingHandle, Handle, Handles, States

LEMMA StateChange ==
    ASSUME NEW h \in Handles, NEW state \in States
    PROVE  /\ [h EXCEPT !.state = state] \in Handles
           /\ [h EXCEPT !.state = state].state = state
           /\ [h EXCEPT !.state = state].sched = h.sched
           /\ [h EXCEPT !.state = state].version = h.version
BY DEF Handles

\* What a slot is.
LEMMA SlotFields ==
    ASSUME TypeOK, NEW n \in Names, Exists(n)
    PROVE  /\ slots[n] \in Slots /\ slots[n].handle \in Handles /\ slots[n].active \in Handles
           /\ slots[n].pending \in BOOLEAN /\ slots[n].config \in Versions
<1>1. slots[n] \in Slots \cup {NoSlot}
  BY DEF TypeOK
<1>2. slots[n] # NoSlot
  BY DEF Exists, NoSlot
<1>3. slots[n] \in Slots
  BY <1>1, <1>2
<1> QED  BY <1>3 DEF Slots

LEMMA PlaceholderType ==
    ASSUME NEW v \in Versions
    PROVE  Placeholder(v) \in Slots
BY NoHandleType DEF Placeholder, Slots

LEMMA ReloadHandles ==
    ASSUME NEW h \in Handles, NEW g \in Handles
    PROVE  BeginReload(h) \in Handles /\ FinishReload(h, g) \in Handles
<1>1. BeginReload(h) \in {NoHandle, [h EXCEPT !.state = "Unloaded"], h}
  BY DEF BeginReload
<1>2. FinishReload(h, g) \in {g, [h EXCEPT !.state = "Failed"], h}
  BY DEF FinishReload
<1>3. "Unloaded" \in States /\ "Failed" \in States
  BY DEF States
<1> QED  BY <1>1, <1>2, <1>3, NoHandleType, StateChange

LEMMA RememberType ==
    ASSUME NEW snaps \in [Versions -> Handles], NEW h \in Handles, NEW g \in Handles
    PROVE  Remember(snaps, h, g) \in [Versions -> Handles]
<1>1. \A v \in Versions : Remember(snaps, h, g)[v] \in {g, h, snaps[v]}
  BY DEF Remember
<1>2. Remember(snaps, h, g) = [v \in Versions |-> Remember(snaps, h, g)[v]]
  BY DEF Remember
<1> QED  BY <1>1, <1>2

\* The slot after the end of a reload, field by field.
LEMMA SwappedFields ==
    ASSUME Typed, NEW t \in Threads, NEW n \in Names, Exists(n), NEW success \in BOOLEAN,
           call[t].version \in Versions
    PROVE  /\ Swapped(t, n, success) \in Slots
           /\ Swapped(t, n, success).exists
           /\ Swapped(t, n, success).handle = FinishReload(slots[n].handle, built[t])
           /\ Swapped(t, n, success).active = FinishReload(slots[n].handle, built[t])
           /\ Swapped(t, n, success).pending = FALSE
           /\ success => Swapped(t, n, success).config = call[t].version
           /\ ~success => Swapped(t, n, success).config = slots[n].config
<1> DEFINE h == FinishReload(slots[n].handle, built[t])
           snaps == IF success /\ call[t].kind = "switch" THEN Remember(slots[n].snaps, slots[n].active, h)
                    ELSE slots[n].snaps
           config == IF success THEN call[t].version ELSE slots[n].config
<1>1. /\ slots[n] \in Slots /\ slots[n].handle \in Handles /\ slots[n].active \in Handles
      /\ slots[n].config \in Versions /\ slots[n].snaps \in [Versions -> Handles]
      /\ built[t] \in Handles
  BY SlotFields DEF Typed, TypeOK, Slots
<1>2. h \in Handles
  BY <1>1, ReloadHandles
<1>3. snaps \in [Versions -> Handles] /\ config \in Versions
  BY <1>1, <1>2, RememberType
<1>4. Swapped(t, n, success) =
        [slots[n] EXCEPT !.pending = FALSE, !.handle = h, !.active = h, !.config = config, !.snaps = snaps]
  BY <1>1 DEF Swapped, Stored
<1> HIDE DEF h, snaps, config
<1>5. /\ Swapped(t, n, success) \in Slots /\ Swapped(t, n, success).exists
      /\ Swapped(t, n, success).handle = h /\ Swapped(t, n, success).active = h
      /\ Swapped(t, n, success).pending = FALSE /\ Swapped(t, n, success).config = config
  BY <1>1, <1>2, <1>3, <1>4 DEF Slots
<1> QED  BY <1>5 DEF h, config

LEMMA StopAcceptingType ==
    ASSUME TypeOK, NEW k, StopAccepting(k)
    PROVE  /\ sched' \in [Schedulers -> {"unbuilt", "accepting", "stopped", "drained"}]
           /\ \A s \in Schedulers : sched'[s] = sched[s] \/ (s = k /\ sched[s] = "accepting" /\ sched'[s] = "stopped")
           /\ k \in Schedulers => sched'[k] # "accepting"
BY DEF StopAccepting, TypeOK

LEMMA TypedInit == Init => Typed
<1> SUFFICES ASSUME Init PROVE Typed
  OBVIOUS
<1>1. NoHandle \in Handles /\ 0 \in 0 .. MaxCalls
  BY NoHandleType, NoVersionIsNone
<1>2. TypeOK
  BY <1>1 DEF Init, TypeOK, Places, NoScheduler
<1> QED  BY <1>2 DEF Init, Typed, CallInv

\* The end of the calls: what every step of a thread does to its own place and to others'.
LEMMA WokenPlaces ==
    ASSUME NEW p \in Places
    PROVE  /\ Woken(p) \in Places
           /\ \/ Woken(p) = p /\ p \notin {"joinSleep", "retrySleep"}
              \/ p = "joinSleep" /\ Woken(p) = "joinWoken"
              \/ p = "retrySleep" /\ Woken(p) = "retryWoken"
<1>1. CASE p = "joinSleep"
  BY <1>1 DEF Woken, Places
<1>2. CASE p = "retrySleep"
  BY <1>2 DEF Woken, Places
<1>3. CASE p # "joinSleep" /\ p # "retrySleep"
  BY <1>3 DEF Woken
<1> QED  BY <1>1, <1>2, <1>3

\* Where a step takes the thread that makes it.
LEMMA ThreadMoves ==
    ASSUME Typed, NEW t \in Threads, ThreadStep(t)
    PROVE  /\ tpc'[t] \in Places /\ tpc[t] # "returned"
           /\ tpc' \in [Threads -> Places]
           /\ \A u \in Threads : u # t => /\ \/ tpc'[u] = tpc[u]
                                             \/ tpc[u] = "joinSleep" /\ tpc'[u] = "joinWoken"
                                             \/ tpc[u] = "retrySleep" /\ tpc'[u] = "retryWoken"
                                          /\ call'[u] = call[u] /\ built'[u] = built[u] /\ old'[u] = old[u]
           /\ call'[t] = call[t] \/ (tpc[t] = "return" /\ tpc'[t] = "returned")
           /\ calls' = calls
<1> USE DEF Typed
<1>1. CASE Notify(t)
  <2>1. \A u \in Threads : u # t => tpc'[u] = Woken(tpc[u])
    BY <1>1 DEF Notify
  <2>2. tpc'[t] \in {"return", "retire"} /\ tpc[t] \in {"notify", "notifyRetire"}
    BY <1>1 DEF Notify
  <2>3. \A u \in Threads : tpc'[u] \in Places
    BY <2>1, <2>2, WokenPlaces DEF TypeOK, Places
  <2>4. tpc' = [u \in Threads |-> tpc'[u]]
    BY <1>1 DEF Notify
  <2>5. UNCHANGED <<call, built, old, calls>>
    BY <1>1 DEF Notify, threadVars
  <2>6. tpc' \in [Threads -> Places]
    BY <2>3, <2>4
  <2>7. \A u \in Threads : u # t => /\ \/ tpc'[u] = tpc[u]
                                       \/ tpc[u] = "joinSleep" /\ tpc'[u] = "joinWoken"
                                       \/ tpc[u] = "retrySleep" /\ tpc'[u] = "retryWoken"
    BY <2>1, WokenPlaces DEF TypeOK
  <2> QED  BY <2>2, <2>3, <2>5, <2>6, <2>7
<1>2. CASE ~Notify(t)
  <2>1. \E p \in Places : Goto(t, p)
    <3>1. call[t] \in Calls \cup {NoCall} /\ (tpc[t] # "returned" => call[t] \in Calls)
      BY DEF TypeOK, CallInv
    <3>2. CASE RetryWoken(t)
      BY <3>1, <3>2 DEF RetryWoken, Calls, Places
    <3>3. CASE ~RetryWoken(t)
      BY <1>2, <3>3 DEF ThreadStep, JoinWoken, RetireOld, Leave, LoadModel, Build, PendingLoadGuard,
         LoadSwap, ReloadStart, ReloadSwap, UnloadModel, BeginDrain, CompleteUnload, Return,
         ReturnNotify, Places
    <3> QED  BY <3>2, <3>3
  <2>2. tpc[t] # "returned"
    BY <1>2 DEF ThreadStep, JoinWoken, RetryWoken, RetireOld, Leave, LoadModel, Build, PendingLoadGuard,
       LoadSwap, ReloadStart, ReloadSwap, UnloadModel, BeginDrain, CompleteUnload
  <2>3. calls' = calls /\ (call' = call \/ Leave(t))
    BY <1>2 DEF ThreadStep, JoinWoken, RetryWoken, RetireOld, Leave, LoadModel, Build, PendingLoadGuard,
       LoadSwap, ReloadStart, ReloadSwap, UnloadModel, BeginDrain, CompleteUnload
  <2>4. /\ built' = built \/ \E x : built' = [built EXCEPT ![t] = x]
        /\ old' = old \/ \E x : old' = [old EXCEPT ![t] = x]
    BY <1>2 DEF ThreadStep, JoinWoken, RetryWoken, RetireOld, Leave, LoadModel, Build, PendingLoadGuard,
       LoadSwap, ReloadStart, ReloadSwap, UnloadModel, BeginDrain, CompleteUnload, threadVars
  <2>5. \A u \in Threads : u # t => built'[u] = built[u] /\ old'[u] = old[u]
    BY <2>4 DEF TypeOK
  <2>6. \A u \in Threads : u # t => call'[u] = call[u]
    BY <2>3 DEF Leave, TypeOK
  <2>7. call'[t] = call[t] \/ (tpc[t] = "return" /\ tpc'[t] = "returned")
    BY <2>3 DEF Leave, Goto, TypeOK
  <2>8. tpc' \in [Threads -> Places] /\ \A u \in Threads : u # t => tpc'[u] = tpc[u]
    BY <2>1 DEF Goto, TypeOK
  <2> QED  BY <2>2, <2>3, <2>5, <2>6, <2>7, <2>8
<1> QED  BY <1>1, <1>2

LEMMA CallStep ==
    ASSUME Typed, NEW t \in Threads, ThreadStep(t)
    PROVE  CallInv' /\ call' \in [Threads -> Calls \cup {NoCall}]
<1> USE DEF Typed
<1>1. call' \in [Threads -> Calls \cup {NoCall}]
  <2>1. call' = call \/ call' = [call EXCEPT ![t] = NoCall]
    BY DEF ThreadStep, JoinWoken, RetryWoken, Notify, RetireOld, Leave, LoadModel, Build, PendingLoadGuard,
       LoadSwap, ReloadStart, ReloadSwap, UnloadModel, BeginDrain, CompleteUnload
  <2> QED  BY <2>1 DEF TypeOK
<1>2. ASSUME NEW u \in Threads, u # t, tpc'[u] # "returned"
      PROVE  /\ call'[u] \in Calls
             /\ call'[u].kind # "unload" => call'[u].version \in Versions
             /\ call'[u].kind = "unload" => tpc'[u] \in {"unload", "drain", "complete", "return"}
             /\ tpc'[u] \in {"load", "reload", "switch", "unload"} => call'[u].kind = tpc'[u]
  BY <1>2, ThreadMoves DEF CallInv
<1>3. ASSUME tpc'[t] # "returned"
      PROVE  /\ call[t].kind = "unload" => tpc'[t] \in {"unload", "drain", "complete", "return"}
             /\ tpc'[t] \in {"load", "reload", "switch", "unload"} => call[t].kind = tpc'[t]
  <2>0. CASE UnloadModel(t) \/ BeginDrain(t) \/ CompleteUnload(t)
    <3>1. tpc'[t] \in {"return", "drain", "complete"}
      BY <2>0 DEF UnloadModel, BeginDrain, CompleteUnload, Goto, Return, TypeOK
    <3> QED  BY <3>1
  <2>1. CASE RetryWoken(t)
    <3>1. tpc'[t] \in {"retrySleep", call[t].kind} /\ tpc[t] = "retryWoken"
      BY <2>1 DEF RetryWoken, Goto, TypeOK
    <3> QED  BY <3>1 DEF CallInv
  <2>2. CASE JoinWoken(t) \/ Build(t) \/ PendingLoadGuard(t) \/ LoadSwap(t) \/ ReloadSwap(t)
    <3>1. /\ tpc[t] \in {"joinWoken", "build", "guard", "swap"}
          /\ tpc'[t] \in {"joinSleep", "return", "swap", "guard", "notify", "notifyRetire"}
      BY <2>2 DEF JoinWoken, Build, PendingLoadGuard, LoadSwap, ReloadSwap, Goto, Return, ReturnNotify, TypeOK
    <3> QED  BY <3>1 DEF CallInv
  <2>3. CASE LoadModel(t) \/ ReloadStart(t)
    <3>1. /\ tpc[t] \in {"load", "reload", "switch"}
          /\ tpc'[t] \in {"joinSleep", "return", "retrySleep", "build"}
      BY <2>3 DEF LoadModel, ReloadStart, Goto, Return, TypeOK
    <3> QED  BY <3>1 DEF CallInv
  <2>4. CASE Notify(t) \/ RetireOld(t) \/ Leave(t)
    <3>1. /\ tpc[t] \in {"notify", "notifyRetire", "retire", "return"}
          /\ tpc'[t] = "return" \/ (tpc'[t] = "retire" /\ tpc[t] = "notifyRetire") \/ tpc'[t] = "returned"
      BY <2>4 DEF Notify, RetireOld, Leave, Goto, TypeOK
    <3> QED  BY <1>3, <3>1 DEF CallInv
  <2> QED  BY <2>0, <2>1, <2>2, <2>3, <2>4 DEF ThreadStep
<1>4. ASSUME tpc'[t] # "returned"
      PROVE  /\ call'[t] \in Calls
             /\ call'[t].kind # "unload" => call'[t].version \in Versions
             /\ call'[t].kind = "unload" => tpc'[t] \in {"unload", "drain", "complete", "return"}
             /\ tpc'[t] \in {"load", "reload", "switch", "unload"} => call'[t].kind = tpc'[t]
  BY <1>3, <1>4, ThreadMoves DEF CallInv
<1> QED  BY <1>1, <1>2, <1>4 DEF CallInv

\* Each step of a thread changes one slot, its own call's, into a slot or into none.
LEMMA SlotStep ==
    ASSUME Typed, NEW t \in Threads, ThreadStep(t)
    PROVE  \/ slots' = slots
           \/ /\ call[t].name \in Names
              /\ \E s \in Slots \cup {NoSlot} : slots' = [slots EXCEPT ![call[t].name] = s]
<1> DEFINE n == call[t].name
<1> USE DEF Typed
<1>1. /\ n \in Names /\ call[t] \in Calls
      /\ call[t].kind # "unload" => call[t].version \in Versions
      /\ call[t].kind = "unload" => tpc[t] \in {"unload", "drain", "complete", "return"}
      /\ tpc[t] \in {"load", "reload", "switch", "unload"} => call[t].kind = tpc[t]
  BY ThreadMoves DEF CallInv, Calls
<1>2. built[t] \in Handles
  BY DEF TypeOK
<1>3. CASE LoadModel(t)
  <2>1. Placeholder(call[t].version) \in Slots
    BY <1>1, <1>3, PlaceholderType DEF LoadModel
  <2> QED  BY <1>1, <1>3, <2>1 DEF LoadModel
<1>4. CASE PendingLoadGuard(t)
  <2> DEFINE h == slots[n].handle
  <2>1. \/ slots' = slots
        \/ Pending(n) /\ slots' = [slots EXCEPT ![n].pending = FALSE, ![n].active = h]
        \/ /\ Loading(n)
           /\ slots' = [slots EXCEPT ![n].handle.state = "Failed", ![n].active = [h EXCEPT !.state = "Failed"]]
    BY <1>4 DEF PendingLoadGuard
  <2>2. CASE slots' = slots
    BY <2>2
  <2>3. CASE Pending(n) /\ slots' = [slots EXCEPT ![n].pending = FALSE, ![n].active = h]
    <3>1. slots[n] \in Slots /\ h \in Handles
      BY <1>1, <2>3, SlotFields DEF Pending
    <3>2. [slots[n] EXCEPT !.pending = FALSE, !.active = h] \in Slots
      BY <3>1 DEF Slots
    <3>3. slots' = [slots EXCEPT ![n] = [slots[n] EXCEPT !.pending = FALSE, !.active = h]]
      BY <1>1, <2>3 DEF TypeOK
    <3> QED  BY <1>1, <3>2, <3>3
  <2>4. CASE /\ Loading(n)
             /\ slots' = [slots EXCEPT ![n].handle.state = "Failed", ![n].active = [h EXCEPT !.state = "Failed"]]
    <3> DEFINE g == [h EXCEPT !.state = "Failed"]
    <3>1. slots[n] \in Slots /\ h \in Handles
      BY <1>1, <2>4, SlotFields DEF Loading
    <3>2. g \in Handles
      BY <3>1, StateChange DEF States
    <3>3. slots' = [slots EXCEPT ![n] = [slots[n] EXCEPT !.handle = g, !.active = g]]
      BY <1>1, <2>4, <3>1 DEF TypeOK, Slots
    <3> HIDE DEF g
    <3>4. [slots[n] EXCEPT !.handle = g, !.active = g] \in Slots
      BY <3>1, <3>2 DEF Slots
    <3> QED  BY <1>1, <3>3, <3>4
  <2> QED  BY <2>1, <2>2, <2>3, <2>4
<1>5. CASE LoadSwap(t)
  <2>1. CASE ~Exists(n)
    BY <1>5, <2>1 DEF LoadSwap
  <2>2. CASE Exists(n)
    <3>1. slots[n] \in Slots /\ call[t].version \in Versions
      BY <1>1, <1>5, <2>2, SlotFields DEF LoadSwap
    <3>2. [slots[n] EXCEPT !.config = call[t].version, !.handle = built[t], !.active = built[t]] \in Slots
      BY <1>2, <3>1 DEF Slots
    <3>3. slots' = [slots EXCEPT ![n] = [slots[n] EXCEPT !.config = call[t].version, !.handle = built[t],
                                                        !.active = built[t]]]
      BY <1>1, <1>5, <2>2 DEF LoadSwap, TypeOK
    <3> QED  BY <1>1, <3>2, <3>3
  <2> QED  BY <2>1, <2>2
<1>6. CASE ReloadStart(t)
  <2>1. CASE slots' = slots
    BY <2>1
  <2>2. CASE Exists(n) /\ slots' = [slots EXCEPT ![n].pending = TRUE, ![n].handle = BeginReload(@)]
    <3> DEFINE g == BeginReload(slots[n].handle)
    <3>1. slots[n] \in Slots /\ slots[n].handle \in Handles /\ g \in Handles
      BY <1>1, <2>2, SlotFields, ReloadHandles, NoHandleType
    <3>2. slots' = [slots EXCEPT ![n] = [slots[n] EXCEPT !.pending = TRUE, !.handle = g]]
      BY <1>1, <2>2, <3>1 DEF TypeOK, Slots
    <3> HIDE DEF g
    <3>3. [slots[n] EXCEPT !.pending = TRUE, !.handle = g] \in Slots
      BY <3>1 DEF Slots
    <3> QED  BY <1>1, <3>2, <3>3
  <2> QED  BY <1>6, <2>1, <2>2 DEF ReloadStart
<1>7. CASE ReloadSwap(t)
  <2>1. CASE slots' = slots
    BY <2>1
  <2>2. CASE Exists(n) /\ \E success \in BOOLEAN : slots' = [slots EXCEPT ![n] = Swapped(t, n, success)]
    <3>1. call[t].version \in Versions
      BY <1>1, <1>7 DEF ReloadSwap
    <3> QED  BY <1>1, <2>2, <3>1, SwappedFields
  <2> QED  BY <1>7, <2>1, <2>2 DEF ReloadSwap
<1>8. CASE UnloadModel(t) \/ CompleteUnload(t)
  BY <1>1, <1>8 DEF UnloadModel, CompleteUnload, slotVars
<1>9. CASE BeginDrain(t)
  <2> DEFINE h == slots[n].handle
             g == IF h.state = "Ready" THEN [h EXCEPT !.state = "Unloading"] ELSE h
  <2>1. CASE slots' = slots
    BY <2>1
  <2>2. CASE Drainable(n) /\ slots' = [slots EXCEPT ![n].handle = g, ![n].active = g]
    <3>1. slots[n] \in Slots /\ h \in Handles
      BY <1>1, <2>2, SlotFields DEF Drainable
    <3>2. g \in Handles
      BY <3>1, StateChange DEF States
    <3>3. slots' = [slots EXCEPT ![n] = [slots[n] EXCEPT !.handle = g, !.active = g]]
      BY <1>1, <2>2 DEF TypeOK
    <3> HIDE DEF g
    <3>4. [slots[n] EXCEPT !.handle = g, !.active = g] \in Slots
      BY <3>1, <3>2 DEF Slots
    <3> QED  BY <1>1, <3>3, <3>4
  <2> QED  BY <1>9, <2>1, <2>2 DEF BeginDrain, Publish
<1>10. CASE JoinWoken(t) \/ RetryWoken(t) \/ Notify(t) \/ RetireOld(t) \/ Leave(t) \/ Build(t)
  BY <1>10 DEF JoinWoken, RetryWoken, Notify, RetireOld, Leave, Build, slotVars
<1> QED  BY <1>3, <1>4, <1>5, <1>6, <1>7, <1>8, <1>9, <1>10 DEF ThreadStep

LEMMA TypedThread ==
    ASSUME Typed, NEW t \in Threads, ThreadStep(t)
    PROVE  Typed'
<1> USE DEF Typed
<1>1. slots' \in [Names -> Slots \cup {NoSlot}]
  BY SlotStep DEF TypeOK
<1>2. call[t] \in Calls /\ call[t].id \in Schedulers /\ call[t].name \in Names
  BY ThreadMoves DEF CallInv, Calls
<1>3. sched' \in [Schedulers -> {"unbuilt", "accepting", "stopped", "drained"}]
  <2>1. \/ sched' = sched
        \/ sched' = [sched EXCEPT ![call[t].id] = "accepting"]
        \/ \E k : StopAccepting(k)
    BY DEF ThreadStep, JoinWoken, RetryWoken, Notify, RetireOld, Leave, LoadModel, Build, PendingLoadGuard,
       LoadSwap, ReloadStart, ReloadSwap, UnloadModel, BeginDrain, CompleteUnload, slotVars
  <2> QED  BY <1>2, <2>1, StopAcceptingType DEF TypeOK
<1>4. retired' \subseteq Schedulers
  <2>1. CASE CompleteUnload(t)
    <3>1. Exists(call[t].name) => slots[call[t].name].handle \in Handles
      BY <1>2, SlotFields
    <3> QED  BY <2>1, <3>1 DEF CompleteUnload, slotVars, TypeOK, Handles
  <2>2. CASE ~CompleteUnload(t)
    <3>1. retired' = retired \/ (old[t] # NoScheduler /\ retired' = retired \cup {old[t]})
      BY <2>2 DEF ThreadStep, JoinWoken, RetryWoken, Notify, RetireOld, Leave, LoadModel, Build,
         PendingLoadGuard, LoadSwap, ReloadStart, ReloadSwap, UnloadModel, BeginDrain, slotVars
    <3> QED  BY <3>1 DEF TypeOK
  <2> QED  BY <2>1, <2>2
<1>5. built' \in [Threads -> Handles]
  <2>1. CASE Build(t)
    <3>1. call[t].version \in Versions \cup {NoVersion}
      BY <1>2 DEF Calls
    <3>2. \A v \in Reported(t) : v \in Versions \cup {NoVersion}
      BY <3>1 DEF Reported
    <3>3. \A v \in Reported(t) : /\ Handle("Ready", call[t].id, v, call[t].version) \in Handles
                                 /\ Handle("Failed", NoScheduler, v, NoVersion) \in Handles
      BY <1>2, <3>1, <3>2, HandleTypes DEF States
    <3>4. \/ built' = built
          \/ \E v \in Reported(t) :
               \/ built' = [built EXCEPT ![t] = Handle("Ready", call[t].id, v, call[t].version)]
               \/ built' = [built EXCEPT ![t] = Handle("Failed", NoScheduler, v, NoVersion)]
      BY <2>1 DEF Build
    <3> QED  BY <3>3, <3>4 DEF TypeOK
  <2>2. CASE ~Build(t)
    <3>1. built' = built \/ built' = [built EXCEPT ![t] = NoHandle]
      BY <2>2 DEF ThreadStep, JoinWoken, RetryWoken, Notify, RetireOld, Leave, LoadModel, PendingLoadGuard,
         LoadSwap, ReloadStart, ReloadSwap, UnloadModel, BeginDrain, CompleteUnload, threadVars
    <3> QED  BY <3>1, NoHandleType DEF TypeOK
  <2> QED  BY <2>1, <2>2
<1>6. old' \in [Threads -> Schedulers \cup {NoScheduler}]
  <2>1. CASE ReloadSwap(t)
    <3>1. Exists(call[t].name) => slots[call[t].name].active \in Handles
      BY <1>2, SlotFields
    <3>2. Exists(call[t].name) => OldScheduler(t, call[t].name) \in Schedulers \cup {NoScheduler}
      BY <3>1 DEF OldScheduler, Handles
    <3> QED  BY <2>1, <3>2 DEF ReloadSwap, TypeOK
  <2>2. CASE ~ReloadSwap(t)
    <3>1. old' = old \/ old' = [old EXCEPT ![t] = NoScheduler]
      BY <2>2 DEF ThreadStep, JoinWoken, RetryWoken, Notify, RetireOld, Leave, LoadModel, Build, PendingLoadGuard,
         LoadSwap, ReloadStart, UnloadModel, BeginDrain, CompleteUnload, threadVars
    <3> QED  BY <3>1 DEF TypeOK
  <2> QED  BY <2>1, <2>2
<1>7. ret' \in [Threads -> {"none", "true", "false", "exception"}]
  <2>1. ret' = ret \/ \E x \in {"none", "true", "false", "exception"} : ret' = [ret EXCEPT ![t] = x]
    BY DEF ThreadStep, JoinWoken, RetryWoken, Notify, RetireOld, Leave, LoadModel, Build, PendingLoadGuard,
       LoadSwap, ReloadStart, ReloadSwap, UnloadModel, BeginDrain, CompleteUnload, threadVars, Return,
       ReturnNotify, Truth
  <2> QED  BY <2>1 DEF TypeOK
<1>8. calls' \in 0 .. MaxCalls
  BY ThreadMoves DEF TypeOK
<1> QED  BY <1>1, <1>3, <1>4, <1>5, <1>6, <1>7, <1>8, ThreadMoves, CallStep DEF TypeOK

LEMMA TypedCall ==
    ASSUME Typed, NEW t \in Threads, Call(t)
    PROVE  /\ Typed'
           /\ \E c \in Calls : /\ c.id = calls + 1 /\ call' = [call EXCEPT ![t] = c]
                               /\ tpc' = [tpc EXCEPT ![t] = c.kind]
           /\ calls' = calls + 1 /\ calls + 1 \in Schedulers
<1> USE DEF Typed
<1>1. calls \in Nat /\ calls + 1 \in Schedulers /\ calls' = calls + 1 /\ calls' \in 0 .. MaxCalls
  BY NoVersionIsNone DEF Call, TypeOK, Schedulers
<1>2. PICK c \in Calls : /\ c.id = calls + 1 /\ call' = [call EXCEPT ![t] = c]
                         /\ tpc' = [tpc EXCEPT ![t] = c.kind]
                         /\ c.kind # "unload" => c.version \in Versions
  <2>1. PICK c \in [kind : {"load", "reload", "switch"}, name : Names, version : Versions]
                    \cup [kind : {"unload"}, name : Names, version : {NoVersion}] :
           /\ call' = [call EXCEPT ![t] = [kind |-> c.kind, name |-> c.name,
                                           version |-> c.version, id |-> calls + 1]]
           /\ Goto(t, c.kind)
    BY DEF Call
  <2>2. [kind |-> c.kind, name |-> c.name, version |-> c.version, id |-> calls + 1] \in Calls
    BY <1>1, <2>1 DEF Calls
  <2>3. c.kind # "unload" => c.version \in Versions
    BY <2>1
  <2> QED  BY <2>1, <2>2, <2>3 DEF Goto
<1>3. c.kind \in {"load", "unload", "reload", "switch"}
  BY <1>2 DEF Calls
<1>4. tpc' \in [Threads -> Places] /\ call' \in [Threads -> Calls \cup {NoCall}]
  BY <1>2, <1>3 DEF TypeOK, Places
<1>5. UNCHANGED <<slots, sched, retired, built, old, ret>>
  BY DEF Call, slotVars, threadVars
<1>6. TypeOK'
  BY <1>1, <1>4, <1>5 DEF TypeOK
<1>7. CallInv'
  <2> SUFFICES ASSUME NEW u \in Threads, tpc'[u] # "returned"
               PROVE  /\ call'[u] \in Calls
                      /\ call'[u].kind # "unload" => call'[u].version \in Versions
                      /\ call'[u].kind = "unload" => tpc'[u] \in {"unload", "drain", "complete", "return"}
                      /\ tpc'[u] \in {"load", "reload", "switch", "unload"} => call'[u].kind = tpc'[u]
    BY DEF CallInv
  <2>1. CASE u = t
    BY <1>2, <2>1 DEF TypeOK
  <2>2. CASE u # t
    BY <1>2, <2>2 DEF TypeOK, CallInv
  <2> QED  BY <2>1, <2>2
<1> QED  BY <1>1, <1>2, <1>6, <1>7

\* The tasks of retire_queue_ only move schedulers on.
LEMMA DrainMoves ==
    ASSUME Typed, NEW k \in Schedulers, DrainBegins(k) \/ DrainEnds(k)
    PROVE  /\ UNCHANGED <<slots, retired, tpc, call, built, old, ret, calls>>
           /\ k \in retired /\ sched' \in [Schedulers -> {"unbuilt", "accepting", "stopped", "drained"}]
           /\ \A s \in Schedulers : s # k => sched'[s] = sched[s]
           /\ sched[k] \in {"accepting", "stopped"} /\ sched'[k] \in {"stopped", "drained"}
           /\ Typed'
<1> USE DEF Typed
<1>1. UNCHANGED <<slots, retired, tpc, call, built, old, ret, calls>> /\ k \in retired
  BY DEF DrainBegins, DrainEnds, threadVars
<1>2. /\ sched' \in [Schedulers -> {"unbuilt", "accepting", "stopped", "drained"}]
      /\ \A s \in Schedulers : s # k => sched'[s] = sched[s]
      /\ sched[k] \in {"accepting", "stopped"} /\ sched'[k] \in {"stopped", "drained"}
  BY DEF DrainBegins, DrainEnds, StopAccepting, TypeOK
<1>3. TypeOK' /\ CallInv'
  BY <1>1, <1>2 DEF TypeOK, CallInv
<1> QED  BY <1>1, <1>2, <1>3

LEMMA StepCases ==
    ASSUME [Next]_vars
    PROVE  \/ \E t \in Threads : Call(t)
           \/ \E t \in Threads : ThreadStep(t)
           \/ \E k \in Schedulers : DrainBegins(k) \/ DrainEnds(k)
           \/ UNCHANGED <<slots, sched, retired, tpc, call, built, old, ret, calls>>
BY DEF Next, vars, slotVars, threadVars

LEMMA TypedStep == Typed /\ [Next]_vars => Typed'
<1> SUFFICES ASSUME Typed, [Next]_vars PROVE Typed'
  OBVIOUS
<1>1. CASE UNCHANGED <<slots, sched, retired, tpc, call, built, old, ret, calls>>
  BY <1>1 DEF Typed, TypeOK, CallInv
<1> QED  BY <1>1, StepCases, TypedCall, TypedThread, DrainMoves

LEMMA TypedInvariant == Spec => []Typed
BY TypedInit, TypedStep, PTL DEF Spec

-----------------------------------------------------------------------------
(* Who may build, serve and retire.                                        *)

\* The places of a call that has not built its scheduler, of one that builds, and of one
\* that is going to retire what it replaced.
Waiting  == {"load", "reload", "switch", "joinSleep", "joinWoken", "retrySleep", "retryWoken", "build"}
AtBuild  == {"build", "guard", "swap"}
Retiring == {"notifyRetire", "retire"}

Known(k) == k = NoScheduler \/ sched[k] # "unbuilt"

\* Calls have numbers of their own; a scheduler is unbuilt until its call builds it, and
\* what anybody refers to is built.
IdInv ==
    /\ \A t \in Threads : tpc[t] # "returned" => call[t].id <= calls
    /\ \A t, u \in Threads : t # u /\ tpc[t] # "returned" /\ tpc[u] # "returned" => call[t].id # call[u].id
    /\ \A k \in Schedulers : k > calls => sched[k] = "unbuilt"
    /\ \A t \in Threads : tpc[t] \in Waiting => sched[call[t].id] = "unbuilt"
    /\ \A k \in retired : sched[k] # "unbuilt"
    /\ \A n \in Names : Exists(n) => Known(slots[n].handle.sched) /\ Known(slots[n].active.sched)
    /\ \A t \in Threads : Known(old[t])

\* A thread at the swap has built nothing, or a scheduler nobody else knows of.
BuiltInv ==
    \A t \in Threads : tpc[t] = "swap" =>
        LET k == call[t].id
        IN  \/ built[t] = Handle("Failed", NoScheduler, built[t].version, NoVersion)
            \/ /\ built[t] = Handle("Ready", k, built[t].version, call[t].version)
               /\ sched[k] = "accepting" /\ k \notin retired
               /\ \A u \in Threads : old[u] # k
               /\ \A n \in Names : Exists(n) => slots[n].handle.sched # k /\ slots[n].active.sched # k

\* What the state of a slot says: which handles have a scheduler, what a reload in
\* progress and what readers see, and that nobody is about to retire what serves.
SlotInv ==
    \A n \in Names : Exists(n) =>
        LET h == slots[n].handle
            a == slots[n].active
        IN  /\ h.sched # NoScheduler <=> h.state \in {"Ready", "Unloading"}
            /\ slots[n].pending => h.state \in {"Ready", "Unloaded"}
            /\ h.state = "Unloaded" => slots[n].pending \/ MayThrow
            /\ a # h => /\ slots[n].pending /\ h.state = "Unloaded" /\ a.state \in {"Unloading", "Failed"}
                        /\ a.sched # NoScheduler => sched[a.sched] # "accepting"
            /\ h.state = "Ready" =>
                 /\ slots[n].config = h.config
                 /\ sched[h.sched] = "accepting" /\ h.sched \notin retired
                 /\ \A t \in Threads : tpc[t] \in Retiring => old[t] # h.sched

\* No two slots have a scheduler in common.
OwnInv ==
    \A m, n \in Names :
        m # n /\ Exists(m) /\ Exists(n) /\ slots[m].handle.sched # NoScheduler =>
            slots[m].handle.sched # slots[n].handle.sched /\ slots[m].handle.sched # slots[n].active.sched

\* One thread builds a slot; what marks it as being built is that thread's call.
BuildInv ==
    /\ BuildOwned
    /\ \A t \in Threads : tpc[t] \in AtBuild =>
         IF call[t].kind = "load" THEN Loading(call[t].name) ELSE Pending(call[t].name)
    /\ \A t \in Threads : tpc[t] = "guard" => MayThrow

\* A scheduler that accepts serves a slot, or is about to, or is retired, or is about to be.
AcceptInv ==
    \A k \in Schedulers : sched[k] = "accepting" =>
        \/ k \in retired
        \/ \E n \in Names : Exists(n) /\ slots[n].handle.sched = k
        \/ \E t \in Threads : tpc[t] = "swap" /\ built[t].sched = k
        \/ \E t \in Threads : tpc[t] \in Retiring /\ old[t] = k

RegistryInv == Typed /\ IdInv /\ BuiltInv /\ SlotInv /\ OwnInv /\ BuildInv

-----------------------------------------------------------------------------
(* The steps of a thread by what they do to its slot, when the invariant   *)
(* holds.  The checks for a slot that is gone then never fail.             *)

Relabel(h, s) == [h EXCEPT !.state = s]

Becomes(n, h, a, p, c) ==
    /\ slots'[n].exists /\ slots'[n].handle = h /\ slots'[n].active = a
    /\ slots'[n].pending = p /\ slots'[n].config = c

Idles(t) ==
    /\ UNCHANGED <<slots, sched, retired>>
    /\ tpc[t] \notin AtBuild /\ tpc'[t] \notin AtBuild
    /\ tpc[t] \in Retiring <=> tpc'[t] \in Retiring
    /\ tpc'[t] \in Waiting => tpc[t] \in Waiting
    /\ old'[t] = old[t] \/ (old'[t] = NoScheduler /\ tpc'[t] \notin Retiring)

RetiresOld(t) ==
    /\ UNCHANGED <<slots, sched, old>>
    /\ tpc[t] = "retire" /\ tpc'[t] = "return"
    /\ retired' = IF old[t] = NoScheduler THEN retired ELSE retired \cup {old[t]}

Builds(t) ==
    /\ UNCHANGED <<slots, retired, old>>
    /\ tpc[t] = "build"
    /\ \/ /\ tpc'[t] = "swap" /\ built'[t] = Handle("Ready", call[t].id, built'[t].version, call[t].version)
          /\ sched' = [sched EXCEPT ![call[t].id] = "accepting"]
       \/ /\ tpc'[t] = "swap" /\ built'[t] = Handle("Failed", NoScheduler, built'[t].version, NoVersion)
          /\ sched' = sched
       \/ tpc'[t] = "guard" /\ sched' = sched /\ MayThrow

Reserves(t) ==
    /\ UNCHANGED <<sched, retired, old>>
    /\ tpc[t] = "load" /\ tpc'[t] = "build" /\ ~Exists(call[t].name)
    /\ Becomes(call[t].name, LoadingHandle, LoadingHandle, FALSE, call[t].version)

Settles(t) ==
    LET n == call[t].name
    IN
    /\ UNCHANGED <<sched, retired, old>> /\ MayThrow
    /\ tpc[t] = "guard" /\ tpc'[t] = "notify"
    /\ Exists(n) /\ IF slots[n].pending
                    THEN Becomes(n, slots[n].handle, slots[n].handle, FALSE, slots[n].config)
                    ELSE /\ slots[n].handle.state = "Loading"
                         /\ Becomes(n, Relabel(slots[n].handle, "Failed"),
                                    Relabel(slots[n].handle, "Failed"), FALSE, slots[n].config)

Loads(t) ==
    LET n == call[t].name
    IN
    /\ UNCHANGED <<sched, retired, old>>
    /\ tpc[t] = "swap" /\ tpc'[t] = "notify"
    /\ Exists(n) /\ slots[n].handle.state = "Loading" /\ ~slots[n].pending
    /\ Becomes(n, built[t], built[t], FALSE, call[t].version)

Begins(t) ==
    LET n == call[t].name
        h == slots[n].handle
    IN
    /\ UNCHANGED <<retired, old>>
    /\ tpc[t] \in {"reload", "switch"} /\ tpc'[t] = "build"
    /\ Exists(n) /\ h.state # "Loading" /\ ~slots[n].pending
    /\ Becomes(n, BeginReload(h), slots[n].active, TRUE, slots[n].config)
    /\ IF h.state = "Unloading" THEN StopAccepting(h.sched) ELSE sched' = sched

Swaps(t) ==
    LET n == call[t].name
        h == FinishReload(slots[n].handle, built[t])
    IN
    /\ UNCHANGED <<sched, retired>>
    /\ tpc[t] = "swap" /\ Exists(n) /\ slots[n].pending
    /\ old'[t] = slots[n].active.sched
    /\ \/ /\ built[t].state = "Ready" /\ tpc'[t] = "notifyRetire"
          /\ Becomes(n, h, h, FALSE, call[t].version)
       \/ /\ built[t].state # "Ready" /\ tpc'[t] = "notify"
          /\ Becomes(n, h, h, FALSE, slots[n].config)

Drops(t) ==
    LET n == call[t].name
        h == slots[n].handle
    IN
    /\ old' = old /\ tpc[t] \in {"unload", "complete"} /\ tpc'[t] = "return"
    /\ Exists(n) /\ ~slots'[n].exists
    /\ \/ ~slots[n].pending /\ h.state = "Failed" /\ h.sched = NoScheduler /\ UNCHANGED <<sched, retired>>
       \/ /\ h.state = "Unloading" /\ StopAccepting(h.sched)
          /\ retired' = IF h.sched = NoScheduler THEN retired ELSE retired \cup {h.sched}

Drains(t) ==
    LET n == call[t].name
        h == slots[n].handle
        g == IF h.state = "Ready" THEN Relabel(h, "Unloading") ELSE h
    IN
    /\ UNCHANGED <<retired, old>>
    /\ tpc[t] = "drain" /\ tpc'[t] = "complete"
    /\ Exists(n) /\ ~slots[n].pending /\ h.sched # NoScheduler
    /\ Becomes(n, g, g, FALSE, slots[n].config)
    /\ StopAccepting(h.sched)

\* The change of one slot in place.
LEMMA SlotUpdate ==
    ASSUME TypeOK, NEW n \in Names, NEW s \in Slots, slots' = [slots EXCEPT ![n] = s]
    PROVE  Becomes(n, s.handle, s.active, s.pending, s.config)
BY DEF TypeOK, Becomes, Exists, Slots

LEMMA StepEffects ==
    ASSUME RegistryInv, NEW t \in Threads, ThreadStep(t)
    PROVE  \/ Idles(t) \/ RetiresOld(t) \/ Builds(t) \/ Reserves(t) \/ Settles(t) \/ Loads(t)
           \/ Begins(t) \/ Swaps(t) \/ Drops(t) \/ Drains(t)
<1> DEFINE n == call[t].name
<1> USE DEF RegistryInv, Typed
<1>1. /\ n \in Names /\ call[t] \in Calls
      /\ call[t].kind # "unload" => call[t].version \in Versions
      /\ call[t].kind = "unload" => tpc[t] \in {"unload", "drain", "complete", "return"}
      /\ tpc[t] \in {"load", "reload", "switch", "unload"} => call[t].kind = tpc[t]
  BY ThreadMoves DEF CallInv, Calls
<1>2. built[t] \in Handles
  BY DEF TypeOK
<1>3. Exists(n) => /\ slots[n] \in Slots /\ slots[n].handle \in Handles
                   /\ slots[n].pending \in BOOLEAN
  BY <1>1, SlotFields
<1>4. tpc[t] \in AtBuild => /\ call[t].version \in Versions
                            /\ Exists(n)
                            /\ call[t].kind = "load" => slots[n].handle.state = "Loading" /\ ~slots[n].pending
                            /\ call[t].kind # "load" => slots[n].pending
  <2>1. tpc[t] \in AtBuild => call[t].version \in Versions
    BY <1>1 DEF AtBuild
  <2>2. tpc[t] \in AtBuild /\ call[t].kind = "load" => Loading(n)
    BY DEF BuildInv
  <2>3. tpc[t] \in AtBuild /\ call[t].kind # "load" => Pending(n)
    BY DEF BuildInv
  <2>4. Loading(n) => ~slots[n].pending
    BY <1>1 DEF SlotInv, Loading
  <2> QED  BY <2>1, <2>2, <2>3, <2>4 DEF Loading, Pending
<1>5. CASE JoinWoken(t) \/ RetryWoken(t)
  <2>1. tpc'[t] \in {"joinSleep", "return", "retrySleep", call[t].kind} /\ tpc[t] \in {"joinWoken", "retryWoken"}
    BY <1>5 DEF JoinWoken, RetryWoken, Return, Goto, TypeOK
  <2>2. call[t].kind \in {"load", "unload", "reload", "switch"} /\ call[t].kind # "unload"
    BY <1>1, <2>1 DEF Calls
  <2>3. UNCHANGED <<slots, sched, retired, old>>
    BY <1>5 DEF JoinWoken, RetryWoken, slotVars, threadVars
  <2> QED  BY <2>1, <2>2, <2>3 DEF Idles, AtBuild, Retiring, Waiting
<1>6. CASE Notify(t) \/ Leave(t)
  <2>1. \/ tpc[t] = "notify" /\ tpc'[t] = "return" /\ old' = old
        \/ tpc[t] = "notifyRetire" /\ tpc'[t] = "retire" /\ old' = old
        \/ tpc[t] = "return" /\ tpc'[t] = "returned" /\ old'[t] = NoScheduler
    BY <1>6 DEF Notify, Leave, Goto, threadVars, TypeOK
  <2>2. UNCHANGED <<slots, sched, retired>>
    BY <1>6 DEF Notify, Leave, slotVars
  <2> QED  BY <2>1, <2>2 DEF Idles, AtBuild, Retiring, Waiting
<1>7. CASE RetireOld(t)
  BY <1>7 DEF RetireOld, RetiresOld, Goto, threadVars, TypeOK
<1>8. CASE LoadModel(t)
  <2>1. CASE tpc'[t] \in {"return", "joinSleep"} /\ slots' = slots
    BY <1>8, <2>1 DEF LoadModel, Idles, AtBuild, Retiring, Waiting
  <2>2. CASE ~Exists(n) /\ slots' = [slots EXCEPT ![n] = Placeholder(call[t].version)] /\ tpc'[t] = "build"
    <3>1. Placeholder(call[t].version) \in Slots
      BY <1>1, <1>8, PlaceholderType DEF LoadModel
    <3>2. Becomes(n, LoadingHandle, LoadingHandle, FALSE, call[t].version)
      BY <1>1, <2>2, <3>1, SlotUpdate DEF Placeholder
    <3> QED  BY <1>8, <2>2, <3>2 DEF LoadModel, Reserves
  <2> QED  BY <1>8, <2>1, <2>2 DEF LoadModel, Return, Goto, TypeOK
<1>9. CASE Build(t)
  <2>1. tpc[t] = "build" /\ UNCHANGED <<slots, retired, old>>
    BY <1>9 DEF Build
  <2>2. CASE \E v \in Reported(t) :
               /\ built' = [built EXCEPT ![t] = Handle("Ready", call[t].id, v, call[t].version)]
               /\ sched' = [sched EXCEPT ![call[t].id] = "accepting"] /\ Goto(t, "swap")
    <3>1. PICK v : built' = [built EXCEPT ![t] = Handle("Ready", call[t].id, v, call[t].version)]
      BY <2>2
    <3>2. built'[t] = Handle("Ready", call[t].id, v, call[t].version)
      BY <3>1 DEF TypeOK
    <3>3. built'[t] = Handle("Ready", call[t].id, built'[t].version, call[t].version)
      BY <3>2 DEF Handle
    <3>4. tpc'[t] = "swap"
      BY <2>2 DEF Goto, TypeOK
    <3> QED  BY <2>1, <2>2, <3>3, <3>4 DEF Builds
  <2>3. CASE \E v \in Reported(t) :
               /\ built' = [built EXCEPT ![t] = Handle("Failed", NoScheduler, v, NoVersion)]
               /\ sched' = sched /\ Goto(t, "swap")
    <3>1. PICK v : built' = [built EXCEPT ![t] = Handle("Failed", NoScheduler, v, NoVersion)]
      BY <2>3
    <3>2. built'[t] = Handle("Failed", NoScheduler, v, NoVersion)
      BY <3>1 DEF TypeOK
    <3>3. built'[t] = Handle("Failed", NoScheduler, built'[t].version, NoVersion)
      BY <3>2 DEF Handle
    <3>4. tpc'[t] = "swap"
      BY <2>3 DEF Goto, TypeOK
    <3> QED  BY <2>1, <2>3, <3>3, <3>4 DEF Builds
  <2>4. CASE MayThrow /\ Goto(t, "guard") /\ sched' = sched
    BY <2>1, <2>4 DEF Builds, Goto, TypeOK
  <2> QED  BY <1>9, <2>2, <2>3, <2>4 DEF Build
<1>10. CASE PendingLoadGuard(t)
  <2> DEFINE h == slots[n].handle
             g == [h EXCEPT !.state = "Failed"]
  <2>0. MayThrow
    BY <1>10 DEF PendingLoadGuard, BuildInv
  <2>1. tpc[t] = "guard" /\ tpc'[t] = "notify" /\ UNCHANGED <<sched, retired, old>>
    BY <1>10 DEF PendingLoadGuard, ReturnNotify, Goto, TypeOK
  <2>2. Exists(n) /\ (slots[n].pending \/ (h.state = "Loading" /\ ~slots[n].pending))
    BY <1>4, <2>1 DEF AtBuild
  <2>3. CASE slots[n].pending
    <3>1. slots' = [slots EXCEPT ![n].pending = FALSE, ![n].active = h]
      BY <1>10, <2>2, <2>3 DEF PendingLoadGuard, Pending
    <3>2. slots' = [slots EXCEPT ![n] = [slots[n] EXCEPT !.pending = FALSE, !.active = h]]
      BY <1>1, <3>1 DEF TypeOK
    <3>3. [slots[n] EXCEPT !.pending = FALSE, !.active = h] \in Slots
      BY <1>3, <2>2 DEF Slots
    <3>4. Becomes(n, h, h, FALSE, slots[n].config)
      BY <1>1, <1>3, <2>2, <3>2, <3>3, SlotUpdate DEF Slots
    <3> QED  BY <2>0, <2>1, <2>2, <2>3, <3>4 DEF Settles
  <2>4. CASE h.state = "Loading" /\ ~slots[n].pending
    <3>1. slots' = [slots EXCEPT ![n].handle.state = "Failed", ![n].active = g]
      BY <1>10, <2>2, <2>4 DEF PendingLoadGuard, Pending, Loading
    <3>2. slots' = [slots EXCEPT ![n] = [slots[n] EXCEPT !.handle = g, !.active = g]]
      BY <1>1, <1>3, <2>2, <3>1 DEF TypeOK, Slots
    <3>3. g \in Handles
      BY <1>3, <2>2, StateChange DEF States
    <3> HIDE DEF g
    <3>4. [slots[n] EXCEPT !.handle = g, !.active = g] \in Slots
      BY <1>3, <2>2, <3>3 DEF Slots
    <3>5. Becomes(n, g, g, FALSE, slots[n].config)
      BY <1>1, <1>3, <2>2, <2>4, <3>2, <3>4, SlotUpdate DEF Slots
    <3> QED  BY <2>0, <2>1, <2>2, <2>4, <3>5 DEF Settles, g, Relabel
  <2> QED  BY <2>2, <2>3, <2>4
<1>11. CASE LoadSwap(t)
  <2>1. /\ tpc[t] = "swap" /\ tpc'[t] = "notify" /\ UNCHANGED <<sched, retired, old>>
        /\ call[t].kind = "load"
    BY <1>11 DEF LoadSwap, ReturnNotify, Goto, TypeOK
  <2>2. Exists(n) /\ slots[n].handle.state = "Loading" /\ ~slots[n].pending /\ call[t].version \in Versions
    BY <1>4, <2>1 DEF AtBuild
  <2> DEFINE s == [slots[n] EXCEPT !.config = call[t].version, !.handle = built[t], !.active = built[t]]
  <2>3. s \in Slots
    BY <1>2, <1>3, <2>2 DEF Slots
  <2>4. slots' = [slots EXCEPT ![n] = s]
    BY <1>1, <1>11, <2>2 DEF LoadSwap, TypeOK
  <2>5. /\ s.handle = built[t] /\ s.active = built[t] /\ s.config = call[t].version
        /\ s.pending = FALSE
    BY <1>3, <2>2 DEF Slots
  <2> HIDE DEF s
  <2>6. Becomes(n, built[t], built[t], FALSE, call[t].version)
    BY <1>1, <2>3, <2>4, <2>5, SlotUpdate
  <2> QED  BY <2>1, <2>2, <2>6 DEF Loads
<1>12. CASE ReloadStart(t)
  <2>0. tpc[t] \in {"reload", "switch"} /\ UNCHANGED <<retired, old>>
    BY <1>12 DEF ReloadStart
  <2>1. CASE tpc'[t] \in {"return", "joinSleep", "retrySleep"} /\ UNCHANGED <<slots, sched>>
    BY <2>0, <2>1 DEF Idles, AtBuild, Retiring, Waiting
  <2>2. CASE /\ Exists(n) /\ ~Loading(n) /\ ~Pending(n) /\ tpc'[t] = "build"
             /\ slots' = [slots EXCEPT ![n].pending = TRUE, ![n].handle = BeginReload(@)]
             /\ IF slots[n].handle.state = "Unloading" THEN StopAccepting(slots[n].handle.sched)
                ELSE UNCHANGED sched
    <3> DEFINE g == BeginReload(slots[n].handle)
    <3>1. g \in Handles
      BY <1>3, <2>2, ReloadHandles
    <3>2. slots' = [slots EXCEPT ![n] = [slots[n] EXCEPT !.pending = TRUE, !.handle = g]]
      BY <1>1, <1>3, <2>2 DEF TypeOK, Slots
    <3> HIDE DEF g
    <3>3. [slots[n] EXCEPT !.pending = TRUE, !.handle = g] \in Slots
      BY <1>3, <2>2, <3>1 DEF Slots
    <3>4. Becomes(n, g, slots[n].active, TRUE, slots[n].config)
      BY <1>1, <1>3, <2>2, <3>2, <3>3, SlotUpdate DEF Slots
    <3>5. slots[n].handle.state # "Loading" /\ ~slots[n].pending
      BY <2>2 DEF Loading, Pending
    <3> QED  BY <2>0, <2>2, <3>4, <3>5 DEF Begins, g
  <2> QED  BY <1>12, <2>1, <2>2 DEF ReloadStart, Return, Goto, TypeOK
<1>13. CASE ReloadSwap(t)
  <2> DEFINE h == FinishReload(slots[n].handle, built[t])
             success == built[t].state = "Ready"
  <2>1. /\ tpc[t] = "swap" /\ UNCHANGED <<sched, retired>> /\ call[t].kind # "load"
    BY <1>13 DEF ReloadSwap
  <2>2. Exists(n) /\ slots[n].pending /\ call[t].version \in Versions
    BY <1>4, <2>1 DEF AtBuild
  <2>3. /\ slots' = [slots EXCEPT ![n] = Swapped(t, n, success)]
        /\ old'[t] = slots[n].active.sched
        /\ tpc'[t] = IF success THEN "notifyRetire" ELSE "notify"
    BY <1>13, <2>2 DEF ReloadSwap, OldScheduler, Goto, TypeOK
  <2> HIDE DEF success
  <2>4. success \in BOOLEAN
    BY DEF success
  <2>5. /\ Swapped(t, n, success) \in Slots
        /\ Swapped(t, n, success).handle = h /\ Swapped(t, n, success).active = h
        /\ Swapped(t, n, success).pending = FALSE
        /\ success => Swapped(t, n, success).config = call[t].version
        /\ ~success => Swapped(t, n, success).config = slots[n].config
    BY <1>1, <2>2, <2>4, SwappedFields
  <2>6. Becomes(n, h, h, FALSE, Swapped(t, n, success).config)
    BY <1>1, <2>3, <2>5, SlotUpdate
  <2> QED  BY <2>1, <2>2, <2>3, <2>5, <2>6 DEF Swaps, success
<1>14. CASE UnloadModel(t)
  <2>1. CASE tpc'[t] \in {"return", "drain"} /\ slots' = slots
    BY <1>14, <2>1 DEF UnloadModel, Idles, AtBuild, Retiring, Waiting
  <2>2. CASE /\ Exists(n) /\ ~Pending(n) /\ slots[n].handle.state = "Failed"
             /\ slots[n].handle.sched = NoScheduler /\ slots' = [slots EXCEPT ![n] = NoSlot]
             /\ tpc'[t] = "return"
    <3>0. slots'[n] = NoSlot
      BY <1>1, <2>2 DEF TypeOK
    <3>1. ~slots'[n].exists
      BY <3>0 DEF NoSlot
    <3> QED  BY <1>14, <2>2, <3>1 DEF UnloadModel, Drops, Pending
  <2> QED  BY <1>14, <2>1, <2>2 DEF UnloadModel, Return, Goto, TypeOK
<1>15. CASE BeginDrain(t)
  <2> DEFINE h == slots[n].handle
             g == IF h.state = "Ready" THEN [h EXCEPT !.state = "Unloading"] ELSE h
  <2>0. tpc[t] = "drain" /\ UNCHANGED <<retired, old>>
    BY <1>15 DEF BeginDrain
  <2>1. CASE tpc'[t] = "return" /\ UNCHANGED <<slots, sched>>
    BY <2>0, <2>1 DEF Idles, AtBuild, Retiring, Waiting
  <2>2. CASE /\ Drainable(n) /\ slots' = [slots EXCEPT ![n].handle = g, ![n].active = g]
             /\ StopAccepting(h.sched) /\ tpc'[t] = "complete"
    <3>1. Exists(n) /\ ~slots[n].pending /\ h.sched # NoScheduler
      BY <2>2 DEF Drainable, Pending
    <3>2. g \in Handles
      BY <1>3, <3>1, StateChange DEF States
    <3>3. slots' = [slots EXCEPT ![n] = [slots[n] EXCEPT !.handle = g, !.active = g]]
      BY <1>1, <2>2 DEF TypeOK
    <3> HIDE DEF g
    <3>4. [slots[n] EXCEPT !.handle = g, !.active = g] \in Slots
      BY <1>3, <3>1, <3>2 DEF Slots
    <3>5. Becomes(n, g, g, FALSE, slots[n].config)
      BY <1>1, <1>3, <3>1, <3>3, <3>4, SlotUpdate DEF Slots
    <3> QED  BY <2>0, <2>2, <3>1, <3>5 DEF Drains, g, Relabel
  <2> QED  BY <1>15, <2>1, <2>2 DEF BeginDrain, Publish, Return, Goto, TypeOK
<1>16. CASE CompleteUnload(t)
  <2>0. tpc[t] = "complete" /\ tpc'[t] = "return" /\ old' = old
    BY <1>16 DEF CompleteUnload, Return, Goto, TypeOK
  <2>1. CASE UNCHANGED slotVars
    BY <2>0, <2>1 DEF Idles, AtBuild, Retiring, Waiting, slotVars
  <2>2. CASE ~UNCHANGED slotVars
    <3>0. slots'[n] = NoSlot
      BY <1>1, <1>16, <2>2 DEF CompleteUnload, slotVars, TypeOK
    <3>1. ~slots'[n].exists
      BY <3>0 DEF NoSlot
    <3> QED  BY <1>16, <2>0, <2>2, <3>1 DEF CompleteUnload, Drops
  <2> QED  BY <2>1, <2>2
<1> QED
  BY <1>5, <1>6, <1>7, <1>8, <1>9, <1>10, <1>11, <1>12, <1>13, <1>14, <1>15, <1>16 DEF ThreadStep

LEMMA ReloadCases ==
    ASSUME NEW h \in Handles, NEW g \in Handles
    PROVE  /\ h.state = "Unloading" => BeginReload(h) = NoHandle
           /\ h.state = "Failed" => BeginReload(h) = Relabel(h, "Unloaded")
           /\ h.state \notin {"Unloading", "Failed"} => BeginReload(h) = h
           /\ g.state = "Ready" => FinishReload(h, g) = g
           /\ g.state # "Ready" /\ h.state = "Unloaded" => FinishReload(h, g) = Relabel(h, "Failed")
           /\ g.state # "Ready" /\ h.state # "Unloaded" => FinishReload(h, g) = h
<1>1. /\ h.state = "Unloading" => BeginReload(h) = NoHandle
      /\ h.state \notin {"Unloading", "Failed"} => BeginReload(h) = h
  BY DEF BeginReload, Relabel
<1>2. h.state = "Failed" => BeginReload(h) = Relabel(h, "Unloaded")
  BY DEF BeginReload, Relabel
<1>3. g.state = "Ready" => FinishReload(h, g) = g
  BY DEF FinishReload
<1>5. g.state # "Ready" /\ h.state # "Unloaded" => FinishReload(h, g) = h
  BY DEF FinishReload
<1>4. g.state # "Ready" /\ h.state = "Unloaded" => FinishReload(h, g) = Relabel(h, "Failed")
  BY DEF FinishReload, Relabel
<1> QED  BY <1>1, <1>2, <1>3, <1>4, <1>5

\* Only the state of the handle changes.
LEMMA Relabelled ==
    ASSUME NEW h \in Handles
    PROVE  /\ \A state \in {"Failed", "Unloading", "Unloaded"} :
                /\ Relabel(h, state).state = state
                /\ Relabel(h, state).sched = h.sched
                /\ Relabel(h, state).version = h.version
           /\ h.state \in States /\ h.sched \in Schedulers \cup {NoScheduler}
BY DEF Handles, States, Relabel

\* What a thread has built when it comes to the swap.
LEMMA BuiltFields ==
    ASSUME RegistryInv, NEW t \in Threads, tpc[t] = "swap"
    PROVE  /\ built[t] \in Handles
           /\ built[t].state = "Ready" => built[t].config = call[t].version
           /\ \/ built[t].state = "Failed" /\ built[t].sched = NoScheduler
              \/ /\ built[t].state = "Ready" /\ built[t].sched = call[t].id
                 /\ call[t].id \in Schedulers /\ sched[call[t].id] = "accepting"
                 /\ call[t].id \notin retired /\ \A u \in Threads : old[u] # call[t].id
                 /\ \A n \in Names : Exists(n) => /\ slots[n].handle.sched # call[t].id
                                                  /\ slots[n].active.sched # call[t].id
<1>1. call[t].id \in Schedulers /\ built[t] \in Handles
  BY DEF RegistryInv, Typed, CallInv, Calls, TypeOK
<1>2. CASE built[t] = Handle("Failed", NoScheduler, built[t].version, NoVersion)
  BY <1>1, <1>2 DEF Handle
<1>3. CASE built[t] # Handle("Failed", NoScheduler, built[t].version, NoVersion)
  <2>1. /\ built[t] = Handle("Ready", call[t].id, built[t].version, call[t].version)
        /\ sched[call[t].id] = "accepting" /\ call[t].id \notin retired
        /\ \A u \in Threads : old[u] # call[t].id
        /\ \A n \in Names : Exists(n) => /\ slots[n].handle.sched # call[t].id
                                         /\ slots[n].active.sched # call[t].id
    BY <1>3 DEF RegistryInv, BuiltInv
  <2> QED  BY <1>1, <2>1 DEF Handle
<1> QED  BY <1>2, <1>3

\* A step gives a slot no scheduler but the one just built.
LEMMA NewScheds ==
    ASSUME RegistryInv, NEW t \in Threads, ThreadStep(t), NEW n \in Names, n = call[t].name,
           slots'[n].exists
    PROVE  /\ \/ slots'[n].handle.sched = NoScheduler
              \/ Exists(n) /\ slots'[n].handle.sched = slots[n].handle.sched
              \/ /\ tpc[t] = "swap" /\ built[t].state = "Ready"
                 /\ slots'[n].handle.sched = call[t].id
           /\ \/ slots'[n].active.sched = slots'[n].handle.sched
              \/ Exists(n) /\ slots'[n].active.sched = slots[n].active.sched
<1> USE DEF RegistryInv, Typed
<1>1. Exists(n) => slots[n].handle \in Handles /\ slots[n].active \in Handles
  BY SlotFields
<1>2. tpc[t] = "swap" => /\ built[t] \in Handles
                         /\ \/ built[t].state = "Failed" /\ built[t].sched = NoScheduler
                            \/ built[t].state = "Ready" /\ built[t].sched = call[t].id
  BY BuiltFields
<1>3. CASE slots' = slots
  BY <1>3 DEF Exists
<1>4. CASE Reserves(t)
  BY <1>4 DEF Reserves, Becomes, LoadingHandle, NoHandle, Handle, NoScheduler
<1>5. CASE Settles(t)
  BY <1>1, <1>5, Relabelled DEF Settles, Becomes
<1>6. CASE Loads(t)
  BY <1>2, <1>6 DEF Loads, Becomes
<1>7. CASE Begins(t)
  <2>1. BeginReload(slots[n].handle).sched \in {NoScheduler, slots[n].handle.sched}
    <3>1. slots[n].handle \in Handles
      BY <1>1, <1>7 DEF Begins
    <3> QED  BY <3>1, ReloadCases, Relabelled DEF NoHandle, Handle
  <2> QED  BY <1>7, <2>1 DEF Begins, Becomes
<1>8. CASE Swaps(t)
  <2>1. Exists(n) /\ slots[n].handle \in Handles /\ tpc[t] = "swap"
    BY <1>1, <1>8 DEF Swaps
  <2>2. LET f == FinishReload(slots[n].handle, built[t])
        IN  f.sched = slots[n].handle.sched \/ (built[t].state = "Ready" /\ f.sched = call[t].id)
    BY <1>2, <2>1, ReloadCases, Relabelled
  <2>3. /\ slots'[n].handle = FinishReload(slots[n].handle, built[t])
        /\ slots'[n].active = FinishReload(slots[n].handle, built[t])
    BY <1>8 DEF Swaps, Becomes
  <2> QED  BY <2>1, <2>2, <2>3
<1>9. CASE Drains(t)
  <2>1. Exists(n) /\ slots[n].handle \in Handles
    BY <1>1, <1>9 DEF Drains
  <2>2. \/ slots'[n].handle = Relabel(slots[n].handle, "Unloading")
        \/ slots'[n].handle = slots[n].handle
    BY <1>9 DEF Drains, Becomes
  <2>3. slots'[n].active = slots'[n].handle
    BY <1>9 DEF Drains, Becomes
  <2> QED  BY <2>1, <2>2, <2>3, Relabelled
<1>10. CASE Drops(t)
  BY <1>10 DEF Drops
<1> QED
  BY <1>3, <1>4, <1>5, <1>6, <1>7, <1>8, <1>9, <1>10, StepEffects DEF Idles, RetiresOld, Builds

\* A step starts the scheduler just built, or stops the one of its slot.
LEMMA SchedMoves ==
    ASSUME RegistryInv, NEW t \in Threads, ThreadStep(t), NEW n \in Names, n = call[t].name,
           NEW k \in Schedulers
    PROVE  \/ sched'[k] = sched[k]
           \/ /\ tpc[t] = "build" /\ tpc'[t] = "swap" /\ k = call[t].id
              /\ sched[k] = "unbuilt" /\ sched'[k] = "accepting"
              /\ built'[t] = Handle("Ready", call[t].id, built'[t].version, call[t].version)
           \/ /\ Exists(n) /\ k = slots[n].handle.sched /\ tpc[t] # "build" /\ tpc[t] # "swap"
              /\ sched[k] = "accepting" /\ sched'[k] = "stopped"
<1> USE DEF RegistryInv, Typed
<1>1. CASE Builds(t)
  <2>1. tpc[t] = "build" /\ sched[call[t].id] = "unbuilt"
    BY <1>1 DEF Builds, IdInv, Waiting
  <2> QED  BY <1>1, <2>1 DEF Builds, TypeOK
<1>2. CASE Begins(t) \/ Drops(t) \/ Drains(t)
  <2>1. Exists(n) /\ tpc[t] # "build" /\ tpc[t] # "swap"
    BY <1>2 DEF Begins, Drops, Drains
  <2>2. sched' = sched \/ StopAccepting(slots[n].handle.sched)
    BY <1>2 DEF Begins, Drops, Drains
  <2> QED  BY <2>1, <2>2, StopAcceptingType
<1>3. CASE sched' = sched
  BY <1>3
<1> QED
  BY <1>1, <1>2, <1>3, StepEffects DEF Idles, RetiresOld, Reserves, Settles, Loads, Swaps

\* What a step gives to retire_queue_, and what it is going to give.
LEMMA RetireMoves ==
    ASSUME RegistryInv, NEW t \in Threads, ThreadStep(t), NEW n \in Names, n = call[t].name
    PROVE  /\ \/ retired' = retired
              \/ tpc[t] = "retire" /\ old[t] # NoScheduler /\ retired' = retired \cup {old[t]}
              \/ /\ Exists(n) /\ slots[n].handle.sched # NoScheduler
                 /\ slots[n].handle.state = "Unloading" /\ retired' = retired \cup {slots[n].handle.sched}
           /\ \/ old'[t] = old[t] \/ old'[t] = NoScheduler
              \/ Exists(n) /\ tpc[t] = "swap" /\ old'[t] = slots[n].active.sched
           /\ tpc'[t] \in Retiring =>
                \/ tpc[t] \in Retiring /\ old'[t] = old[t]
                \/ /\ Exists(n) /\ tpc[t] = "swap" /\ old'[t] = slots[n].active.sched
                   /\ built[t].state = "Ready"
<1> USE DEF RegistryInv, Typed
<1>1. CASE Idles(t)
  BY <1>1 DEF Idles
<1>2. CASE RetiresOld(t)
  BY <1>2 DEF RetiresOld, Retiring
<1>3. CASE Swaps(t)
  BY <1>3 DEF Swaps, Retiring
<1>4. CASE Drops(t)
  <2>1. /\ old' = old /\ tpc'[t] = "return" /\ Exists(n)
        /\ \/ retired' = retired
           \/ /\ slots[n].handle.state = "Unloading" /\ slots[n].handle.sched # NoScheduler
              /\ retired' = retired \cup {slots[n].handle.sched}
    BY <1>4 DEF Drops
  <2> QED  BY <2>1 DEF Retiring
<1>5. CASE Builds(t) \/ Reserves(t) \/ Settles(t) \/ Loads(t) \/ Begins(t) \/ Drains(t)
  BY <1>5 DEF Builds, Reserves, Settles, Loads, Begins, Drains, Retiring
<1> QED  BY <1>1, <1>2, <1>3, <1>4, <1>5, StepEffects

-----------------------------------------------------------------------------
(* Every step keeps the invariant.                                         *)

\* What all the following lemmas use of the thread that makes a step and of its slot.
LEMMA StepFrame ==
    ASSUME RegistryInv, NEW t \in Threads, ThreadStep(t)
    PROVE  /\ call[t].name \in Names /\ call[t].id \in Schedulers /\ tpc[t] # "returned"
           /\ \A m \in Names : m # call[t].name => slots'[m] = slots[m]
           /\ \A u \in Threads : u # t => /\ \/ tpc'[u] = tpc[u]
                                             \/ tpc[u] = "joinSleep" /\ tpc'[u] = "joinWoken"
                                             \/ tpc[u] = "retrySleep" /\ tpc'[u] = "retryWoken"
                                          /\ call'[u] = call[u] /\ built'[u] = built[u] /\ old'[u] = old[u]
           /\ tpc'[t] # "returned" => call'[t] = call[t]
           /\ calls' = calls
<1> USE DEF RegistryInv, Typed
<1>1. call[t] \in Calls /\ tpc[t] # "returned"
  BY ThreadMoves DEF CallInv
<1>2. call[t].name \in Names /\ call[t].id \in Schedulers
  BY <1>1 DEF Calls
<1>3. \A m \in Names : m # call[t].name => slots'[m] = slots[m]
  BY <1>2, SlotStep DEF TypeOK
<1>4. tpc'[t] # "returned" => call'[t] = call[t]
  BY ThreadMoves
<1> QED  BY <1>1, <1>2, <1>3, <1>4, ThreadMoves

\* What is built stays built, and what anybody refers to is built.
LEMMA IdThread ==
    ASSUME RegistryInv, NEW t \in Threads, ThreadStep(t), NEW n \in Names, n = call[t].name,
           NEW i \in Schedulers, i = call[t].id
    PROVE  IdInv'
<1> USE DEF RegistryInv, Typed
<1>1. \A s \in Schedulers : sched[s] # "unbuilt" => sched'[s] # "unbuilt"
  BY SchedMoves
<1>2. \A s \in Schedulers \cup {NoScheduler} :
        Known(s) => s = NoScheduler \/ sched'[s] # "unbuilt"
  BY <1>1 DEF Known
<1>3. tpc[t] = "swap" /\ built[t].state = "Ready" => Known(i)
  <2> SUFFICES ASSUME tpc[t] = "swap", built[t].state = "Ready" PROVE Known(i)
    OBVIOUS
  <2>1. sched[i] = "accepting"
    BY BuiltFields
  <2> QED  BY <2>1 DEF Known
<1>4. /\ \A u \in Threads : old[u] \in Schedulers \cup {NoScheduler} /\ Known(old[u])
      /\ \A p \in Names : Exists(p) =>
           /\ slots[p].handle.sched \in Schedulers \cup {NoScheduler} /\ Known(slots[p].handle.sched)
           /\ slots[p].active.sched \in Schedulers \cup {NoScheduler} /\ Known(slots[p].active.sched)
  BY SlotFields, Relabelled DEF IdInv, TypeOK
<1>5. Known(NoScheduler)
  BY DEF Known
<1>6. ASSUME NEW p \in Names, slots'[p].exists
      PROVE  /\ Known(slots'[p].handle.sched) /\ slots'[p].handle.sched \in Schedulers \cup {NoScheduler}
             /\ Known(slots'[p].active.sched) /\ slots'[p].active.sched \in Schedulers \cup {NoScheduler}
  <2>1. CASE p = n
    BY <1>3, <1>4, <1>5, <1>6, <2>1, NewScheds
  <2>2. CASE p # n
    BY <1>4, <1>6, <2>2, StepFrame DEF Exists
  <2> QED  BY <2>1, <2>2
<1>7. \A p \in Names : Exists(p)' => /\ slots'[p].handle.sched = NoScheduler \/ sched'[slots'[p].handle.sched] # "unbuilt"
                                     /\ slots'[p].active.sched = NoScheduler \/ sched'[slots'[p].active.sched] # "unbuilt"
  BY <1>2, <1>6 DEF Exists
<1>8. \A u \in Threads : Known(old'[u]) /\ old'[u] \in Schedulers \cup {NoScheduler}
  <2>1. Known(old'[t]) /\ old'[t] \in Schedulers \cup {NoScheduler}
    BY <1>4, <1>5, RetireMoves
  <2> QED  BY <1>4, <2>1, StepFrame
<1>9. \A u \in Threads : old'[u] = NoScheduler \/ sched'[old'[u]] # "unbuilt"
  BY <1>2, <1>8
<1>10. \A s \in retired' : sched'[s] # "unbuilt"
  <2>1. \A s \in retired' : s \in Schedulers /\ sched[s] # "unbuilt"
    <3>1. \A s \in retired : s \in Schedulers /\ sched[s] # "unbuilt"
      BY DEF IdInv, TypeOK
    <3> QED  BY <1>4, <3>1, RetireMoves DEF Known
  <2> QED  BY <1>1, <2>1
<1>11. \A u \in Threads : tpc'[u] # "returned" => tpc[u] # "returned" /\ call'[u] = call[u]
  BY StepFrame
<1>12. \A s \in Schedulers : s > calls' => sched'[s] = "unbuilt"
  <2>1. \A s \in Schedulers : s > calls => sched[s] = "unbuilt" /\ s # i
    <3>1. i <= calls /\ calls \in Nat
      BY StepFrame, NoVersionIsNone DEF IdInv, TypeOK
    <3> QED  BY <3>1 DEF IdInv, Schedulers
  <2> QED  BY <2>1, SchedMoves, StepFrame
<1>13. \A u \in Threads : tpc'[u] \in Waiting => sched'[call'[u].id] = "unbuilt"
  <2> SUFFICES ASSUME NEW u \in Threads, tpc'[u] \in Waiting PROVE sched'[call'[u].id] = "unbuilt"
    OBVIOUS
  <2>1. tpc[u] # "returned" /\ call'[u] = call[u] /\ call[u].id \in Schedulers
    <3>1. tpc'[u] # "returned"
      BY DEF Waiting
    <3> QED  BY <1>11, <3>1 DEF CallInv, Calls
  <2>2. tpc[u] \in Waiting /\ (u = t => tpc[t] # "build")
    <3>1. CASE u = t
      <4>1. CASE Idles(t)
        BY <3>1, <4>1 DEF Idles, AtBuild
      <4>2. CASE RetiresOld(t) \/ Builds(t) \/ Settles(t) \/ Loads(t) \/ Swaps(t) \/ Drops(t) \/ Drains(t)
        BY <3>1, <4>2 DEF RetiresOld, Builds, Settles, Loads, Swaps, Drops, Drains, Waiting
      <4>3. CASE Reserves(t) \/ Begins(t)
        BY <3>1, <4>3 DEF Reserves, Begins, Waiting
      <4> QED  BY <4>1, <4>2, <4>3, StepEffects
    <3>2. CASE u # t
      BY <3>2, StepFrame DEF Waiting
    <3> QED  BY <3>1, <3>2
  <2>3. sched[call[u].id] = "unbuilt"
    BY <2>2 DEF IdInv
  <2>4. u # t => call[u].id # i
    BY <2>1, StepFrame DEF IdInv
  <2> QED  BY <2>1, <2>2, <2>3, <2>4, SchedMoves
<1>14. /\ \A u \in Threads : tpc'[u] # "returned" => call'[u].id <= calls'
       /\ \A u, v \in Threads : u # v /\ tpc'[u] # "returned" /\ tpc'[v] # "returned" => call'[u].id # call'[v].id
  BY <1>11, StepFrame DEF IdInv
<1> QED  BY <1>7, <1>9, <1>10, <1>12, <1>13, <1>14 DEF IdInv, Known

LEMMA BuiltThread ==
    ASSUME RegistryInv, NEW t \in Threads, ThreadStep(t), NEW n \in Names, n = call[t].name,
           NEW i \in Schedulers, i = call[t].id
    PROVE  BuiltInv'
<1> USE DEF RegistryInv, Typed
<1> SUFFICES ASSUME NEW u \in Threads, tpc'[u] = "swap", NEW k, k = call'[u].id
             PROVE  \/ built'[u] = Handle("Failed", NoScheduler, built'[u].version, NoVersion)
                    \/ /\ built'[u] = Handle("Ready", k, built'[u].version, call'[u].version)
                       /\ sched'[k] = "accepting" /\ k \notin retired'
                       /\ \A v \in Threads : old'[v] # k
                       /\ \A m \in Names : slots'[m].exists => slots'[m].handle.sched # k /\ slots'[m].active.sched # k
  BY DEF BuiltInv, Exists
<1>1. NoScheduler \notin Schedulers
  BY DEF NoScheduler, Schedulers
<1>2. CASE u = t
  <2>1. Builds(t)
    BY <1>2, StepEffects DEF Idles, RetiresOld, Reserves, Settles, Loads, Begins, Swaps, Drops, Drains, AtBuild
  <2>2. call'[t] = call[t] /\ k = i
    BY <1>2, StepFrame
  <2>3. sched[i] = "unbuilt"
    BY <2>1 DEF Builds, IdInv, Waiting
  <2>4. /\ i \notin retired /\ \A v \in Threads : old[v] # i
        /\ \A m \in Names : Exists(m) => slots[m].handle.sched # i /\ slots[m].active.sched # i
    BY <1>1, <2>3 DEF IdInv, Known
  <2>5. UNCHANGED <<slots, retired, old>>
    BY <2>1 DEF Builds
  <2>6. \/ built'[t] = Handle("Failed", NoScheduler, built'[t].version, NoVersion)
        \/ built'[t] = Handle("Ready", i, built'[t].version, call[t].version) /\ sched'[i] = "accepting"
    BY <1>2, <2>1 DEF Builds, TypeOK
  <2> QED  BY <1>2, <2>2, <2>4, <2>5, <2>6 DEF Exists
<1>3. CASE u # t
  <2>1. tpc[u] = "swap" /\ call'[u] = call[u] /\ built'[u] = built[u] /\ k # i
    <3>1. tpc[u] = "swap" /\ call'[u] = call[u] /\ built'[u] = built[u]
      BY <1>3, StepFrame
    <3> QED  BY <1>3, <3>1, StepFrame DEF IdInv
  <2>2. CASE built[u] = Handle("Failed", NoScheduler, built[u].version, NoVersion)
    BY <2>1, <2>2
  <2>3. CASE built[u] # Handle("Failed", NoScheduler, built[u].version, NoVersion)
    <3>1. /\ built[u] = Handle("Ready", k, built[u].version, call[u].version)
          /\ sched[k] = "accepting" /\ k \notin retired /\ k \in Schedulers
          /\ \A v \in Threads : old[v] # k
          /\ \A m \in Names : Exists(m) => slots[m].handle.sched # k /\ slots[m].active.sched # k
      BY <2>1, <2>3 DEF BuiltInv, CallInv, Calls
    <3>2. sched'[k] = "accepting"
      BY <2>1, <3>1, SchedMoves
    <3>3. k \notin retired'
      BY <3>1, RetireMoves
    <3>4. \A v \in Threads : old'[v] # k
      <4>1. old'[t] # k
        BY <1>1, <3>1, RetireMoves
      <4> QED  BY <3>1, <4>1, StepFrame
    <3>5. \A m \in Names : slots'[m].exists => slots'[m].handle.sched # k /\ slots'[m].active.sched # k
      <4>1. slots'[n].exists => slots'[n].handle.sched # k /\ slots'[n].active.sched # k
        BY <1>1, <2>1, <3>1, NewScheds
      <4> QED  BY <3>1, <4>1, StepFrame DEF Exists
    <3> QED  BY <2>1, <3>1, <3>2, <3>3, <3>4, <3>5
  <2> QED  BY <2>2, <2>3
<1> QED  BY <1>2, <1>3

LEMMA OwnThread ==
    ASSUME RegistryInv, NEW t \in Threads, ThreadStep(t), NEW n \in Names, n = call[t].name,
           NEW i \in Schedulers, i = call[t].id
    PROVE  OwnInv'
<1> USE DEF RegistryInv, Typed
<1> SUFFICES ASSUME NEW p \in Names, NEW q \in Names, p # q, slots'[p].exists, slots'[q].exists,
                    slots'[p].handle.sched # NoScheduler
             PROVE  /\ slots'[p].handle.sched # slots'[q].handle.sched
                    /\ slots'[p].handle.sched # slots'[q].active.sched
  BY DEF OwnInv, Exists
<1>1. NoScheduler \notin Schedulers
  BY DEF NoScheduler, Schedulers
<1>2. tpc[t] = "swap" /\ built[t].state = "Ready" =>
        \A m \in Names : Exists(m) => slots[m].handle.sched # i /\ slots[m].active.sched # i
  BY BuiltFields
<1>3. CASE p = n
  <2>1. slots'[q] = slots[q] /\ Exists(q)
    BY <1>3, StepFrame DEF Exists
  <2> QED  BY <1>2, <1>3, <2>1, NewScheds DEF OwnInv
<1>4. CASE p # n
  <2>1. slots'[p] = slots[p] /\ Exists(p)
    BY <1>4, StepFrame DEF Exists
  <2>2. CASE q = n
    BY <1>2, <2>1, <2>2, NewScheds DEF OwnInv
  <2>3. CASE q # n
    <3>1. slots'[q] = slots[q] /\ Exists(q)
      BY <2>3, StepFrame DEF Exists
    <3> QED  BY <2>1, <3>1 DEF OwnInv
  <2> QED  BY <2>2, <2>3
<1> QED  BY <1>3, <1>4

\* SlotInv of a slot with handle h, snapshot a, reload_pending p and config c.
SlotShape(h, a, p, c) ==
    /\ h.sched # NoScheduler <=> h.state \in {"Ready", "Unloading"}
    /\ p => h.state \in {"Ready", "Unloaded"}
    /\ h.state = "Unloaded" => p \/ MayThrow
    /\ a # h => p /\ h.state = "Unloaded" /\ a.state \in {"Unloading", "Failed"}
    /\ h.state = "Ready" => c = h.config

SlotLive(h, a) ==
    /\ a # h /\ a.sched # NoScheduler => sched[a.sched] # "accepting"
    /\ h.state = "Ready" => /\ sched[h.sched] = "accepting" /\ h.sched \notin retired
                            /\ \A t \in Threads : tpc[t] \in Retiring => old[t] # h.sched

LEMMA SlotParts ==
    SlotInv <=> \A n \in Names : slots[n].exists =>
                  /\ SlotShape(slots[n].handle, slots[n].active, slots[n].pending, slots[n].config)
                  /\ SlotLive(slots[n].handle, slots[n].active)
BY DEF SlotInv, Exists, SlotShape, SlotLive

LEMMA SlotsOfOthers ==
    ASSUME RegistryInv, NEW t \in Threads, ThreadStep(t), NEW n \in Names, n = call[t].name,
           NEW m \in Names, m # n, slots[m].exists
    PROVE  SlotLive(slots[m].handle, slots[m].active)'
<1> USE DEF RegistryInv, Typed
<1> DEFINE h == slots[m].handle
           a == slots[m].active
<1>1. slots'[m] = slots[m] /\ Exists(m) /\ SlotLive(h, a) /\ SlotShape(h, a, slots[m].pending, slots[m].config)
  BY StepFrame, SlotParts DEF Exists
<1>2. h.sched \in Schedulers \cup {NoScheduler} /\ a.sched \in Schedulers \cup {NoScheduler}
  BY <1>1, SlotFields, Relabelled
<1>3. Known(a.sched) /\ Known(h.sched)
  BY <1>1 DEF IdInv
<1>4. a # h /\ a.sched # NoScheduler => sched'[a.sched] # "accepting"
  <2> SUFFICES ASSUME a # h, a.sched # NoScheduler PROVE sched'[a.sched] # "accepting"
    OBVIOUS
  <2>1. sched[a.sched] # "accepting" /\ sched[a.sched] # "unbuilt" /\ a.sched \in Schedulers
    BY <1>1, <1>2, <1>3 DEF SlotLive, Known
  <2> QED  BY <2>1, SchedMoves
<1>5. ASSUME h.state = "Ready"
      PROVE  /\ sched'[h.sched] = "accepting" /\ h.sched \notin retired'
             /\ \A u \in Threads : tpc'[u] \in Retiring => old'[u] # h.sched
  <2>1. /\ h.sched \in Schedulers /\ h.sched # NoScheduler
        /\ sched[h.sched] = "accepting" /\ h.sched \notin retired
        /\ \A u \in Threads : tpc[u] \in Retiring => old[u] # h.sched
    BY <1>1, <1>2, <1>5 DEF SlotShape, SlotLive
  <2>2. Exists(n) => slots[n].handle.sched # h.sched /\ slots[n].active.sched # h.sched
    BY <1>1, <2>1 DEF OwnInv
  <2>3. sched'[h.sched] = "accepting"
    BY <2>1, <2>2, SchedMoves
  <2>4. h.sched \notin retired'
    BY <2>1, <2>2, RetireMoves DEF Retiring
  <2>5. tpc'[t] \in Retiring => old'[t] # h.sched
    BY <2>1, <2>2, RetireMoves
  <2>6. \A u \in Threads : u # t /\ tpc'[u] \in Retiring => old'[u] # h.sched
    BY <2>1, StepFrame DEF Retiring
  <2> QED  BY <2>3, <2>4, <2>5, <2>6
<1> QED  BY <1>1, <1>4, <1>5 DEF SlotLive

\* A slot that serves goes on if the step neither stops nor retires its scheduler.
LEMMA StaysLive ==
    ASSUME RegistryInv, NEW t \in Threads, ThreadStep(t), NEW n \in Names, n = call[t].name,
           Exists(n), slots[n].handle.state = "Ready",
           \A k \in Schedulers : sched[k] = "accepting" => sched'[k] = "accepting",
           retired' = retired \/ RetiresOld(t), tpc'[t] \in Retiring => tpc[t] \in Retiring /\ old'[t] = old[t]
    PROVE  LET k == slots[n].handle.sched
           IN  /\ sched'[k] = "accepting" /\ k \notin retired'
               /\ \A u \in Threads : tpc'[u] \in Retiring => old'[u] # k
<1> USE DEF RegistryInv, Typed
<1> DEFINE k == slots[n].handle.sched
<1>1. /\ k \in Schedulers \cup {NoScheduler} /\ k # NoScheduler
      /\ sched[k] = "accepting" /\ k \notin retired
      /\ \A u \in Threads : tpc[u] \in Retiring => old[u] # k
  BY SlotFields, Relabelled, SlotParts DEF Exists, SlotShape, SlotLive
<1>2. sched'[k] = "accepting"
  BY <1>1
<1>3. k \notin retired'
  BY <1>1 DEF RetiresOld, Retiring
<1>4. \A u \in Threads : u # t /\ tpc'[u] \in Retiring => old'[u] # k
  BY <1>1, StepFrame DEF Retiring
<1>5. tpc'[t] \in Retiring => old'[t] # k
  BY <1>1
<1> QED  BY <1>2, <1>3, <1>4, <1>5

\* What a build leaves in the slot serves.
LEMMA BuiltServes ==
    ASSUME RegistryInv, NEW t \in Threads, ThreadStep(t), NEW n \in Names, n = call[t].name, Exists(n),
           tpc[t] = "swap", built[t].state = "Ready", UNCHANGED <<sched, retired>>,
           tpc'[t] \in Retiring => old'[t] = slots[n].active.sched
    PROVE  LET k == built[t].sched
           IN  /\ k \in Schedulers /\ sched'[k] = "accepting" /\ k \notin retired'
               /\ \A u \in Threads : tpc'[u] \in Retiring => old'[u] # k
<1> USE DEF RegistryInv, Typed
<1> DEFINE k == built[t].sched
<1>1. /\ k \in Schedulers /\ sched[k] = "accepting" /\ k \notin retired
      /\ \A u \in Threads : old[u] # k
      /\ slots[n].active.sched # k
  BY BuiltFields
<1>2. \A u \in Threads : tpc'[u] \in Retiring => old'[u] # k
  BY <1>1, StepFrame
<1> QED  BY <1>1, <1>2

LEMMA SlotOfStep ==
    ASSUME RegistryInv, NEW t \in Threads, ThreadStep(t), NEW n \in Names, n = call[t].name,
           slots'[n].exists
    PROVE  /\ SlotShape(slots'[n].handle, slots'[n].active, slots'[n].pending, slots'[n].config)
           /\ SlotLive(slots[n].handle, slots[n].active)'
<1> USE DEF RegistryInv, Typed
<1> DEFINE h == slots[n].handle
           a == slots[n].active
           p == slots[n].pending
           c == slots[n].config
<1>1. Exists(n) => SlotLive(h, a) /\ SlotShape(h, a, p, c) /\ h \in Handles /\ a \in Handles /\ p \in BOOLEAN
  BY SlotParts, SlotFields DEF Exists
<1>2. NoScheduler \notin Schedulers
  BY DEF NoScheduler, Schedulers
<1>3. CASE Idles(t) \/ RetiresOld(t) \/ Builds(t)
  <2>1. slots' = slots /\ Exists(n)
    BY <1>3 DEF Idles, RetiresOld, Builds, Exists
  <2>2. \A k \in Schedulers : sched[k] = "accepting" => sched'[k] = "accepting"
    BY <1>3, SchedMoves DEF Idles, RetiresOld, Builds
  <2>3. h.state = "Ready" => /\ sched'[h.sched] = "accepting" /\ h.sched \notin retired'
                             /\ \A u \in Threads : tpc'[u] \in Retiring => old'[u] # h.sched
    <3>1. retired' = retired \/ RetiresOld(t)
      BY <1>3 DEF Idles, Builds
    <3>2. tpc'[t] \in Retiring => tpc[t] \in Retiring /\ old'[t] = old[t]
      BY <1>3 DEF Idles, RetiresOld, Builds, Retiring
    <3> QED  BY <2>1, <2>2, <3>1, <3>2, StaysLive
  <2>4. a # h /\ a.sched # NoScheduler => sched'[a.sched] # "accepting"
    <3> SUFFICES ASSUME a # h, a.sched # NoScheduler PROVE sched'[a.sched] # "accepting"
      OBVIOUS
    <3>1. sched[a.sched] # "accepting" /\ sched[a.sched] # "unbuilt" /\ a.sched \in Schedulers
      <4>1. sched[a.sched] # "unbuilt" /\ a.sched \in Schedulers
        BY <1>1, <2>1, Relabelled DEF IdInv, Known
      <4> QED  BY <1>1, <2>1, <4>1 DEF SlotLive
    <3> QED  BY <3>1, SchedMoves
  <2> QED  BY <1>1, <2>1, <2>3, <2>4 DEF SlotLive
<1>4. CASE Reserves(t)
  <2>1. /\ slots'[n].handle = LoadingHandle /\ slots'[n].active = LoadingHandle
        /\ slots'[n].pending = FALSE
    BY <1>4 DEF Reserves, Becomes
  <2>2. LoadingHandle.state = "Loading" /\ LoadingHandle.sched = NoScheduler
    BY DEF LoadingHandle, NoHandle, Handle
  <2> QED  BY <2>1, <2>2 DEF SlotShape, SlotLive
<1>5. CASE Settles(t)
  <2>1. Exists(n) /\ MayThrow /\ UNCHANGED <<sched, retired>> /\ tpc'[t] = "notify"
    BY <1>5 DEF Settles
  <2>2. CASE p
    <3>1. /\ slots'[n].handle = h /\ slots'[n].active = h
          /\ slots'[n].pending = FALSE /\ slots'[n].config = c
      BY <1>5, <2>2 DEF Settles, Becomes
    <3>2. SlotShape(h, h, FALSE, c)
      BY <1>1, <2>1 DEF SlotShape
    <3>3. h.state = "Ready" => /\ sched'[h.sched] = "accepting" /\ h.sched \notin retired'
                               /\ \A u \in Threads : tpc'[u] \in Retiring => old'[u] # h.sched
      BY <2>1, StaysLive DEF Retiring
    <3> QED  BY <3>1, <3>2, <3>3 DEF SlotLive
  <2>3. CASE ~p
    <3> DEFINE g == Relabel(h, "Failed")
    <3>1. /\ slots'[n].handle = g /\ slots'[n].active = g
          /\ slots'[n].pending = FALSE /\ h.state = "Loading"
      BY <1>5, <2>3 DEF Settles, Becomes
    <3>2. g.state = "Failed" /\ g.sched = NoScheduler
      BY <1>1, <2>1, <3>1, Relabelled DEF SlotShape
    <3> QED  BY <3>1, <3>2 DEF SlotShape, SlotLive
  <2> QED  BY <2>2, <2>3
<1>6. CASE Loads(t)
  <2>1. /\ Exists(n) /\ UNCHANGED <<sched, retired>> /\ tpc[t] = "swap" /\ tpc'[t] = "notify"
        /\ slots'[n].handle = built[t] /\ slots'[n].active = built[t]
        /\ slots'[n].pending = FALSE /\ slots'[n].config = call[t].version
    BY <1>6 DEF Loads, Becomes
  <2>2. /\ built[t].state = "Ready" => built[t].config = call[t].version
        /\ \/ built[t].state = "Failed" /\ built[t].sched = NoScheduler
           \/ built[t].state = "Ready" /\ built[t].sched \in Schedulers
    BY <2>1, BuiltFields
  <2>3. SlotShape(built[t], built[t], FALSE, call[t].version)
    BY <1>2, <2>2 DEF SlotShape
  <2>4. built[t].state = "Ready" =>
          /\ sched'[built[t].sched] = "accepting" /\ built[t].sched \notin retired'
          /\ \A u \in Threads : tpc'[u] \in Retiring => old'[u] # built[t].sched
    BY <2>1, BuiltServes DEF Retiring
  <2> QED  BY <2>1, <2>3, <2>4 DEF SlotLive
<1>7. CASE Begins(t)
  <2>1. /\ Exists(n) /\ h.state # "Loading" /\ p = FALSE /\ retired' = retired /\ tpc'[t] = "build"
        /\ slots'[n].handle = BeginReload(h) /\ slots'[n].active = a
        /\ slots'[n].pending = TRUE /\ slots'[n].config = c
    BY <1>1, <1>7 DEF Begins, Becomes
  <2>2. a = h
    BY <1>1, <2>1 DEF SlotShape
  <2>3. h.state \in {"Unloaded", "Ready", "Unloading", "Failed"}
    BY <1>1, <2>1, Relabelled DEF States
  <2>4. CASE h.state = "Unloading"
    <3>1. BeginReload(h) = NoHandle /\ NoHandle.state = "Unloaded" /\ NoHandle.sched = NoScheduler
      BY <1>1, <2>1, <2>4, ReloadCases DEF NoHandle, Handle
    <3>2. StopAccepting(h.sched) /\ h.sched \in Schedulers
      BY <1>1, <1>7, <2>1, <2>4, Relabelled DEF Begins, SlotShape
    <3>3. sched'[a.sched] # "accepting"
      BY <2>2, <3>2, StopAcceptingType
    <3> QED  BY <2>1, <2>2, <2>4, <3>1, <3>3 DEF SlotShape, SlotLive
  <2>5. CASE h.state = "Failed"
    <3> DEFINE g == Relabel(h, "Unloaded")
    <3>1. BeginReload(h) = g /\ h.sched = NoScheduler
      BY <1>1, <2>1, <2>5, ReloadCases DEF SlotShape
    <3>2. g.state = "Unloaded" /\ g.sched = NoScheduler
      BY <1>1, <2>1, <3>1, Relabelled
    <3> QED  BY <2>1, <2>2, <2>5, <3>1, <3>2 DEF SlotShape, SlotLive
  <2>6. CASE h.state \in {"Unloaded", "Ready"}
    <3>1. BeginReload(h) = h /\ sched' = sched
      BY <1>1, <1>7, <2>1, <2>6, ReloadCases DEF Begins
    <3>2. SlotShape(h, h, TRUE, c)
      BY <1>1, <2>1, <2>6 DEF SlotShape
    <3>3. h.state = "Ready" => /\ sched'[h.sched] = "accepting" /\ h.sched \notin retired'
                               /\ \A u \in Threads : tpc'[u] \in Retiring => old'[u] # h.sched
      BY <2>1, <3>1, StaysLive DEF Retiring
    <3> QED  BY <2>1, <2>2, <3>1, <3>2, <3>3 DEF SlotLive
  <2> QED  BY <2>3, <2>4, <2>5, <2>6
<1>8. CASE Swaps(t)
  <2> DEFINE f == FinishReload(h, built[t])
  <2>1. /\ Exists(n) /\ p /\ UNCHANGED <<sched, retired>> /\ tpc[t] = "swap"
        /\ old'[t] = a.sched /\ slots'[n].handle = f /\ slots'[n].active = f
        /\ slots'[n].pending = FALSE
        /\ built[t].state = "Ready" => slots'[n].config = call[t].version
        /\ built[t].state # "Ready" => slots'[n].config = c /\ tpc'[t] = "notify"
    BY <1>8 DEF Swaps, Becomes
  <2>2. /\ built[t] \in Handles
        /\ built[t].state = "Ready" => built[t].config = call[t].version /\ built[t].sched \in Schedulers
    BY <2>1, BuiltFields
  <2>3. CASE built[t].state = "Ready"
    <3>1. f = built[t]
      BY <1>1, <2>1, <2>2, <2>3, ReloadCases
    <3>2. SlotShape(built[t], built[t], FALSE, call[t].version)
      BY <1>2, <2>2, <2>3 DEF SlotShape
    <3>3. /\ sched'[built[t].sched] = "accepting" /\ built[t].sched \notin retired'
          /\ \A u \in Threads : tpc'[u] \in Retiring => old'[u] # built[t].sched
      BY <2>1, <2>3, BuiltServes
    <3> QED  BY <2>1, <2>3, <3>1, <3>2, <3>3 DEF SlotLive
  <2>4. CASE built[t].state # "Ready" /\ h.state = "Unloaded"
    <3> DEFINE g == Relabel(h, "Failed")
    <3>1. f = g /\ h.sched = NoScheduler
      BY <1>1, <2>1, <2>2, <2>4, ReloadCases DEF SlotShape
    <3>2. g.state = "Failed" /\ g.sched = NoScheduler
      BY <1>1, <2>1, <3>1, Relabelled
    <3> QED  BY <2>1, <3>1, <3>2 DEF SlotShape, SlotLive
  <2>5. CASE built[t].state # "Ready" /\ h.state # "Unloaded"
    <3>1. f = h /\ h.state = "Ready"
      BY <1>1, <2>1, <2>2, <2>5, ReloadCases DEF SlotShape
    <3>2. SlotShape(h, h, FALSE, c)
      BY <1>1, <2>1, <3>1 DEF SlotShape
    <3>3. /\ sched'[h.sched] = "accepting" /\ h.sched \notin retired'
          /\ \A u \in Threads : tpc'[u] \in Retiring => old'[u] # h.sched
      BY <2>1, <2>5, <3>1, StaysLive DEF Retiring
    <3> QED  BY <2>1, <2>5, <3>1, <3>2, <3>3 DEF SlotLive
  <2> QED  BY <2>3, <2>4, <2>5
<1>9. CASE Drains(t)
  <2>1. Exists(n) /\ h.sched # NoScheduler
    BY <1>9 DEF Drains
  <2>2. h.state \in {"Ready", "Unloading"}
    BY <1>1, <2>1 DEF SlotShape
  <2> DEFINE g == IF h.state = "Ready" THEN Relabel(h, "Unloading") ELSE h
  <2>3. slots'[n].handle = g /\ slots'[n].active = g /\ slots'[n].pending = FALSE
    BY <1>9 DEF Drains, Becomes
  <2>4. g.state = "Unloading" /\ g.sched = h.sched
    BY <1>1, <2>1, <2>2, Relabelled
  <2> HIDE DEF g
  <2> QED  BY <2>1, <2>3, <2>4 DEF SlotShape, SlotLive
<1>10. CASE Drops(t)
  BY <1>10 DEF Drops
<1> QED
  BY <1>3, <1>4, <1>5, <1>6, <1>7, <1>8, <1>9, <1>10, StepEffects

LEMMA SlotThread ==
    ASSUME RegistryInv, NEW t \in Threads, ThreadStep(t), NEW n \in Names, n = call[t].name
    PROVE  SlotInv'
<1>1. ASSUME NEW m \in Names, slots'[m].exists
      PROVE  /\ SlotShape(slots'[m].handle, slots'[m].active, slots'[m].pending, slots'[m].config)
             /\ SlotLive(slots[m].handle, slots[m].active)'
  <2>1. CASE m = n
    BY <1>1, <2>1, SlotOfStep
  <2>2. CASE m # n
    <3>1. slots'[m] = slots[m]
      BY <2>2, StepFrame
    <3>2. SlotShape(slots[m].handle, slots[m].active, slots[m].pending, slots[m].config)
      BY <1>1, <3>1, SlotParts DEF RegistryInv
    <3> QED  BY <1>1, <2>2, <3>1, <3>2, SlotsOfOthers
  <2> QED  BY <2>1, <2>2
<1> QED  BY <1>1 DEF SlotInv, Exists, SlotShape, SlotLive

\* How a step begins, carries on and ends the build of its slot.
LEMMA BuildMoves ==
    ASSUME RegistryInv, NEW t \in Threads, ThreadStep(t), NEW n \in Names, n = call[t].name
    PROVE  LET marked    == Loading(n) \/ Pending(n)
               loading   == slots'[n].exists /\ slots'[n].handle.state = "Loading"
               reloading == slots'[n].exists /\ slots'[n].pending
           IN  \/ /\ (tpc[t] \in AtBuild <=> tpc'[t] \in AtBuild)
                  /\ slots' = slots
               \/ /\ tpc[t] \notin AtBuild /\ tpc'[t] \notin AtBuild
                  /\ ~marked /\ ~loading /\ ~reloading
               \/ /\ tpc[t] \notin AtBuild /\ tpc'[t] = "build" /\ ~marked
                  /\ IF call[t].kind = "load" THEN loading ELSE reloading
               \/ /\ tpc[t] \in AtBuild /\ tpc'[t] \notin AtBuild
                  /\ ~loading /\ ~reloading
<1> USE DEF RegistryInv, Typed
<1> DEFINE h == slots[n].handle
           p == slots[n].pending
<1>1. Exists(n) => SlotShape(h, slots[n].active, p, slots[n].config) /\ h \in Handles
  BY SlotParts, SlotFields DEF Exists
<1>2. tpc[t] \in {"load", "reload", "switch"} => call[t].kind = tpc[t]
  BY DEF CallInv
<1>3. CASE Idles(t) \/ RetiresOld(t) \/ Builds(t)
  BY <1>3 DEF Idles, RetiresOld, Builds, AtBuild
<1>4. CASE Reserves(t)
  <2>1. /\ tpc[t] = "load" /\ tpc'[t] = "build" /\ ~Exists(n)
        /\ slots'[n].exists /\ slots'[n].handle = LoadingHandle
    BY <1>4 DEF Reserves, Becomes
  <2>2. LoadingHandle.state = "Loading"
    BY DEF LoadingHandle, NoHandle, Handle
  <2> QED  BY <1>2, <2>1, <2>2 DEF AtBuild, Loading, Pending
<1>5. CASE Begins(t)
  BY <1>2, <1>5 DEF Begins, Becomes, AtBuild, Loading, Pending
<1>6. CASE Settles(t)
  <2>1. Exists(n) /\ tpc[t] = "guard" /\ tpc'[t] = "notify" /\ slots'[n].pending = FALSE
    BY <1>6 DEF Settles, Becomes
  <2>2. CASE p
    <3>1. slots'[n].handle = h
      BY <1>6, <2>2 DEF Settles, Becomes
    <3> QED  BY <1>1, <2>1, <2>2, <3>1 DEF SlotShape, AtBuild
  <2>3. CASE ~p
    <3>1. slots'[n].handle = Relabel(h, "Failed")
      BY <1>6, <2>3 DEF Settles, Becomes
    <3> QED  BY <1>1, <2>1, <3>1, Relabelled DEF AtBuild
  <2> QED  BY <2>2, <2>3
<1>7. CASE Loads(t)
  <2>1. /\ tpc[t] = "swap" /\ tpc'[t] = "notify" /\ slots'[n].handle = built[t] /\ slots'[n].pending = FALSE
    BY <1>7 DEF Loads, Becomes
  <2>2. built[t].state \in {"Ready", "Failed"}
    BY <2>1, BuiltFields
  <2> QED  BY <2>1, <2>2 DEF AtBuild
<1>8. CASE Swaps(t)
  <2>1. /\ Exists(n) /\ p /\ tpc[t] = "swap" /\ tpc'[t] \in {"notify", "notifyRetire"}
        /\ slots'[n].handle = FinishReload(h, built[t]) /\ slots'[n].pending = FALSE
    BY <1>8 DEF Swaps, Becomes
  <2>2. built[t].state \in {"Ready", "Failed"} /\ built[t] \in Handles
    BY <2>1, BuiltFields
  <2>3. FinishReload(h, built[t]).state # "Loading"
    <3>1. h \in Handles /\ h.state \in {"Ready", "Unloaded"}
      BY <1>1, <2>1 DEF SlotShape
    <3> QED  BY <2>2, <3>1, ReloadCases, Relabelled
  <2> QED  BY <2>1, <2>3 DEF AtBuild
<1>9. CASE Drops(t)
  <2>1. /\ tpc[t] \in {"unload", "complete"} /\ tpc'[t] = "return" /\ ~slots'[n].exists /\ Exists(n)
        /\ (h.state = "Failed" /\ ~p) \/ h.state = "Unloading"
    BY <1>9 DEF Drops
  <2> QED  BY <1>1, <2>1 DEF SlotShape, AtBuild, Loading, Pending
<1>10. CASE Drains(t)
  <2> DEFINE g == IF h.state = "Ready" THEN Relabel(h, "Unloading") ELSE h
  <2>1. /\ tpc[t] = "drain" /\ tpc'[t] = "complete" /\ Exists(n) /\ ~p /\ h.sched # NoScheduler
        /\ slots'[n].handle = g /\ slots'[n].pending = FALSE
    BY <1>10 DEF Drains, Becomes
  <2>2. h.state \in {"Ready", "Unloading"}
    BY <1>1, <2>1 DEF SlotShape
  <2>3. g.state = "Unloading"
    BY <1>1, <2>1, <2>2, Relabelled
  <2> HIDE DEF g
  <2> QED  BY <2>1, <2>2, <2>3 DEF AtBuild, Loading, Pending
<1> QED
  BY <1>3, <1>4, <1>5, <1>6, <1>7, <1>8, <1>9, <1>10, StepEffects

LEMMA BuildThread ==
    ASSUME RegistryInv, NEW t \in Threads, ThreadStep(t), NEW n \in Names, n = call[t].name
    PROVE  BuildInv'
<1> USE DEF RegistryInv, Typed
<1> DEFINE Marks(m) == slots'[m].exists /\ (slots'[m].handle.state = "Loading" \/ slots'[m].pending)
           Works(u, m) == tpc'[u] \in AtBuild /\ call'[u].name = m
<1>1. \A u \in Threads : u # t => /\ tpc'[u] \in AtBuild <=> tpc[u] \in AtBuild
                                  /\ call'[u] = call[u] /\ (tpc'[u] = "guard" => tpc[u] = "guard")
  BY StepFrame DEF AtBuild
<1>2. tpc'[t] \in AtBuild => call'[t] = call[t]
  BY StepFrame DEF AtBuild
<1>3. \A m \in Names : m # n => slots'[m] = slots[m]
  BY StepFrame
<1>4. \A u \in Threads, m \in Names : Building(u, m) <=> tpc[u] \in AtBuild /\ call[u].name = m
  BY DEF Building, AtBuild
<1>5. \A m \in Names : /\ Loading(m) \/ Pending(m) <=> \E u \in Threads : Building(u, m)
                       /\ \A u, v \in Threads : Building(u, m) /\ Building(v, m) => u = v
  BY DEF BuildInv, BuildOwned
<1>6. ASSUME NEW m \in Names
      PROVE  /\ Marks(m) <=> \E u \in Threads : Works(u, m)
             /\ \A u, v \in Threads : Works(u, m) /\ Works(v, m) => u = v
  <2>1. CASE m # n
    <3>1. \A u \in Threads : Works(u, m) <=> Building(u, m)
      BY <1>1, <1>2, <1>4, <2>1
    <3>2. Marks(m) <=> Loading(m) \/ Pending(m)
      BY <1>3, <2>1 DEF Loading, Pending, Exists
    <3> QED  BY <1>5, <3>1, <3>2
  <2>2. CASE m = n
    <3>1. \A u \in Threads : u # t => (Works(u, n) <=> Building(u, n))
      BY <1>1, <1>4
    <3>2. Building(t, n) <=> tpc[t] \in AtBuild
      BY <1>4
    <3>3. Works(t, n) <=> tpc'[t] \in AtBuild
      BY <1>2
    <3>4. CASE (tpc[t] \in AtBuild <=> tpc'[t] \in AtBuild) /\ slots' = slots
      <4>1. Marks(n) <=> Loading(n) \/ Pending(n)
        BY <3>4 DEF Loading, Pending, Exists
      <4> QED  BY <1>5, <2>2, <3>1, <3>2, <3>3, <3>4, <4>1
    <3>5. CASE tpc[t] \notin AtBuild /\ tpc'[t] \notin AtBuild /\ ~(Loading(n) \/ Pending(n)) /\ ~Marks(n)
      BY <1>5, <2>2, <3>1, <3>2, <3>3, <3>5
    <3>6. CASE tpc[t] \notin AtBuild /\ tpc'[t] \in AtBuild /\ ~(Loading(n) \/ Pending(n)) /\ Marks(n)
      BY <1>5, <2>2, <3>1, <3>2, <3>3, <3>6
    <3>7. CASE tpc[t] \in AtBuild /\ tpc'[t] \notin AtBuild /\ ~Marks(n)
      BY <1>5, <2>2, <3>1, <3>2, <3>3, <3>7
    <3> HIDE DEF Works
    <3> QED  BY <3>4, <3>5, <3>6, <3>7, BuildMoves DEF AtBuild
  <2> QED  BY <2>1, <2>2
<1>7. BuildOwned'
  BY <1>6 DEF BuildOwned, Building, Loading, Pending, Exists, AtBuild
<1>8. ASSUME NEW u \in Threads, tpc'[u] \in AtBuild
      PROVE  IF call'[u].kind = "load" THEN slots'[call'[u].name].exists /\ slots'[call'[u].name].handle.state = "Loading"
             ELSE slots'[call'[u].name].exists /\ slots'[call'[u].name].pending
  <2>1. CASE u = t
    <3>1. call'[t] = call[t]
      BY <1>2, <1>8, <2>1
    <3>2. tpc[t] \in AtBuild => IF call[t].kind = "load" THEN Loading(n) ELSE Pending(n)
      BY DEF BuildInv
    <3> QED  BY <1>8, <2>1, <3>1, <3>2, BuildMoves DEF Loading, Pending, Exists
  <2>2. CASE u # t
    <3>1. tpc[u] \in AtBuild /\ call'[u] = call[u] /\ call[u].name \in Names
      BY <1>1, <1>8, <2>2 DEF CallInv, Calls, AtBuild
    <3>2. IF call[u].kind = "load" THEN Loading(call[u].name) ELSE Pending(call[u].name)
      BY <3>1 DEF BuildInv
    <3>3. CASE call[u].name # n
      BY <1>3, <3>1, <3>2, <3>3 DEF Loading, Pending, Exists
    <3>4. CASE call[u].name = n
      <4>1. Building(u, n) /\ (Loading(n) \/ Pending(n)) /\ tpc[t] \notin AtBuild
        BY <1>4, <1>5, <2>2, <3>1, <3>4
      <4>2. slots' = slots
        BY <4>1, BuildMoves
      <4> QED  BY <3>1, <3>2, <4>2 DEF Loading, Pending, Exists
    <3> QED  BY <3>3, <3>4
  <2> QED  BY <2>1, <2>2
<1>9. \A u \in Threads : tpc'[u] = "guard" => MayThrow
  <2>1. tpc'[t] = "guard" => MayThrow
    BY StepEffects DEF Idles, RetiresOld, Builds, Reserves, Settles, Loads, Begins, Swaps, Drops, Drains, AtBuild
  <2> QED  BY <1>1, <2>1 DEF BuildInv
<1> QED  BY <1>7, <1>8, <1>9 DEF BuildInv, Loading, Pending, Exists

\* What accepts goes on serving, or is given to retire_queue_.
LEMMA AcceptThread ==
    ASSUME RegistryInv, AcceptInv, NEW t \in Threads, ThreadStep(t), NEW n \in Names, n = call[t].name
    PROVE  AcceptInv'
<1> USE DEF RegistryInv, Typed
<1> SUFFICES ASSUME NEW k \in Schedulers, sched'[k] = "accepting"
             PROVE  \/ k \in retired'
                    \/ \E m \in Names : slots'[m].exists /\ slots'[m].handle.sched = k
                    \/ \E u \in Threads : tpc'[u] = "swap" /\ built'[u].sched = k
                    \/ \E u \in Threads : tpc'[u] \in Retiring /\ old'[u] = k
  BY DEF AcceptInv, Exists
<1>1. NoScheduler \notin Schedulers
  BY DEF NoScheduler, Schedulers
<1>2. CASE sched[k] # "accepting"
  <2>1. tpc'[t] = "swap" /\ built'[t] = Handle("Ready", k, built'[t].version, call[t].version)
    BY <1>2, SchedMoves
  <2> QED  BY <2>1 DEF Handle
<1>3. CASE sched[k] = "accepting"
  <2>1. \A u \in Threads : u # t => /\ tpc[u] = "swap" => tpc'[u] = "swap"
                                    /\ tpc[u] \in Retiring => tpc'[u] = tpc[u]
                                    /\ built'[u] = built[u] /\ old'[u] = old[u]
    BY StepFrame DEF Retiring
  <2>2. retired \subseteq retired'
    BY RetireMoves
  <2>3. CASE k \in retired
    BY <2>2, <2>3
  <2>4. ASSUME NEW m \in Names, Exists(m), slots[m].handle.sched = k
        PROVE  \/ k \in retired'
               \/ \E q \in Names : slots'[q].exists /\ slots'[q].handle.sched = k
               \/ \E u \in Threads : tpc'[u] \in Retiring /\ old'[u] = k
    <3>1. CASE m # n
      BY <2>4, <3>1, StepFrame DEF Exists
    <3>2. CASE m = n
      <4> DEFINE h == slots[n].handle
      <4>1. h.sched = k /\ Exists(n) /\ h \in Handles
        BY <2>4, <3>2, SlotFields
      <4>2. h.state \in {"Ready", "Unloading"} /\ SlotShape(h, slots[n].active, slots[n].pending, slots[n].config)
        BY <1>1, <4>1, SlotParts DEF Exists, SlotShape
      <4>3. CASE slots' = slots
        BY <4>1, <4>3 DEF Exists
      <4>4. CASE Reserves(t) \/ Loads(t)
        BY <4>1, <4>2, <4>4 DEF Reserves, Loads
      <4>5. CASE Settles(t)
        BY <4>1, <4>2, <4>5 DEF Settles, Becomes
      <4>6. CASE Begins(t)
        <5>1. h.state = "Unloading" => sched'[k] # "accepting"
          BY <4>1, <4>6, StopAcceptingType DEF Begins
        <5>2. slots'[n].exists /\ slots'[n].handle = h
          BY <4>1, <4>2, <4>6, <5>1, ReloadCases DEF Begins, Becomes
        <5> QED  BY <4>1, <5>2
      <4>7. CASE Swaps(t)
        <5>1. /\ slots'[n].exists /\ slots'[n].handle = FinishReload(h, built[t]) /\ tpc[t] = "swap"
              /\ old'[t] = slots[n].active.sched /\ slots[n].pending
              /\ built[t].state = "Ready" => tpc'[t] = "notifyRetire"
          BY <4>7 DEF Swaps, Becomes
        <5>2. CASE built[t].state = "Ready"
          <6>1. slots[n].active = h
            BY <4>2 DEF SlotShape
          <6> QED  BY <4>1, <5>1, <5>2, <6>1 DEF Retiring
        <5>3. CASE built[t].state # "Ready"
          <6>1. FinishReload(h, built[t]) = h
            BY <4>1, <4>2, <5>1, <5>3, ReloadCases, BuiltFields
          <6> QED  BY <4>1, <5>1, <6>1
        <5> QED  BY <5>2, <5>3
      <4>8. CASE Drops(t) \/ Drains(t)
        <5>1. StopAccepting(k)
          BY <4>1, <4>2, <4>8 DEF Drops, Drains
        <5> QED  BY <5>1, StopAcceptingType
      <4> QED
        BY <4>3, <4>4, <4>5, <4>6, <4>7, <4>8, StepEffects DEF Idles, RetiresOld, Builds
    <3> QED  BY <3>1, <3>2
  <2>5. ASSUME NEW u \in Threads, tpc[u] = "swap", built[u].sched = k
        PROVE  \/ \E q \in Names : slots'[q].exists /\ slots'[q].handle.sched = k
               \/ \E v \in Threads : tpc'[v] = "swap" /\ built'[v].sched = k
    <3>1. CASE u # t
      BY <2>1, <2>5, <3>1
    <3>2. CASE u = t
      <4>1. built[t].state = "Ready" /\ built[t] \in Handles
        BY <1>1, <2>5, <3>2, BuiltFields
      <4>2. Loads(t) \/ Swaps(t)
        BY <2>5, <3>2, StepEffects
           DEF Idles, AtBuild, RetiresOld, Builds, Reserves, Settles, Begins, Drops, Drains
      <4>3. slots'[n].exists /\ slots'[n].handle = built[t]
        <5>1. CASE Loads(t)
          BY <5>1 DEF Loads, Becomes
        <5>2. CASE Swaps(t)
          <6>1. slots[n].handle \in Handles
            BY <5>2, SlotFields DEF Swaps
          <6> QED  BY <4>1, <5>2, <6>1, ReloadCases DEF Swaps, Becomes
        <5> QED  BY <4>2, <5>1, <5>2
      <4> QED  BY <2>5, <3>2, <4>3
    <3> QED  BY <3>1, <3>2
  <2>6. ASSUME NEW u \in Threads, tpc[u] \in Retiring, old[u] = k
        PROVE  \/ k \in retired'
               \/ \E v \in Threads : tpc'[v] \in Retiring /\ old'[v] = k
    <3>1. CASE u # t
      BY <2>1, <2>6, <3>1
    <3>2. CASE u = t
      <4>1. Idles(t) \/ RetiresOld(t)
        BY <2>6, <3>2, StepEffects
           DEF Retiring, Builds, Reserves, Settles, Loads, Begins, Swaps, Drops, Drains
      <4>2. CASE Idles(t)
        BY <2>6, <3>2, <4>2 DEF Idles
      <4>3. CASE RetiresOld(t)
        BY <1>1, <2>6, <3>2, <4>3 DEF RetiresOld
      <4> QED  BY <4>1, <4>2, <4>3
    <3> QED  BY <3>1, <3>2
  <2> QED  BY <1>3, <2>3, <2>4, <2>5, <2>6 DEF AcceptInv
<1> QED  BY <1>2, <1>3

\* A new call disturbs nothing: its number is fresh and it is not building yet.
LEMMA InvCall ==
    ASSUME RegistryInv, AcceptInv, NEW t \in Threads, Call(t)
    PROVE  RegistryInv' /\ AcceptInv'
<1> USE DEF RegistryInv, Typed
<1>1. PICK c \in Calls : /\ c.id = calls + 1 /\ call' = [call EXCEPT ![t] = c]
                         /\ tpc' = [tpc EXCEPT ![t] = c.kind]
  BY TypedCall
<1>2. c.kind \in {"load", "unload", "reload", "switch"}
  BY DEF Calls
<1>3. /\ tpc'[t] = c.kind /\ call'[t] = c /\ tpc[t] = "returned"
      /\ \A u \in Threads : u # t => tpc'[u] = tpc[u] /\ call'[u] = call[u]
      /\ UNCHANGED <<slots, sched, retired, built, old>>
  BY <1>1 DEF Call, TypeOK, slotVars, threadVars
<1>4. calls' = calls + 1 /\ calls + 1 \in Schedulers /\ calls \in Nat /\ Typed'
  BY TypedCall, NoVersionIsNone DEF TypeOK
<1>5. \A u \in Threads : tpc'[u] \in AtBuild \cup Retiring =>
         tpc'[u] = tpc[u] /\ call'[u] = call[u] /\ u # t
  BY <1>2, <1>3 DEF AtBuild, Retiring
<1>6. \A u \in Threads : tpc[u] \in AtBuild \cup Retiring => u # t
  BY <1>3 DEF AtBuild, Retiring
<1>7. IdInv'
  <2>1. \A u \in Threads : tpc[u] # "returned" => call[u].id \in Nat /\ call[u].id <= calls
    BY DEF IdInv, CallInv, Calls, Schedulers
  <2>2. \A u \in Threads : tpc'[u] # "returned" => call'[u].id <= calls'
    BY <1>1, <1>3, <1>4, <2>1
  <2>3. \A u, v \in Threads : u # v /\ tpc'[u] # "returned" /\ tpc'[v] # "returned" => call'[u].id # call'[v].id
    <3> SUFFICES ASSUME NEW u \in Threads, NEW v \in Threads, u # v, tpc'[u] # "returned", tpc'[v] # "returned"
                 PROVE  call'[u].id # call'[v].id
      OBVIOUS
    <3>1. CASE u # t /\ v # t
      BY <1>3, <3>1 DEF IdInv
    <3>2. CASE u = t \/ v = t
      BY <1>1, <1>3, <1>4, <2>1, <3>2
    <3> QED  BY <3>1, <3>2
  <2>4. \A k \in Schedulers : k > calls' => sched'[k] = "unbuilt"
    BY <1>3, <1>4 DEF IdInv, Schedulers
  <2>5. \A u \in Threads : tpc'[u] \in Waiting => sched'[call'[u].id] = "unbuilt"
    <3>1. sched[calls + 1] = "unbuilt"
      BY <1>4 DEF IdInv
    <3> QED  BY <1>1, <1>3, <3>1 DEF IdInv
  <2> QED  BY <1>3, <2>2, <2>3, <2>4, <2>5 DEF IdInv, Known, Exists
<1>8. BuiltInv'
  <2> SUFFICES ASSUME NEW u \in Threads, tpc'[u] = "swap", NEW k, k = call'[u].id
               PROVE  \/ built'[u] = Handle("Failed", NoScheduler, built'[u].version, NoVersion)
                      \/ /\ built'[u] = Handle("Ready", k, built'[u].version, call'[u].version)
                         /\ sched'[k] = "accepting" /\ k \notin retired'
                         /\ \A v \in Threads : old'[v] # k
                         /\ \A m \in Names : slots'[m].exists => slots'[m].handle.sched # k /\ slots'[m].active.sched # k
    BY DEF BuiltInv, Exists
  <2>1. tpc[u] = "swap" /\ call'[u] = call[u]
    BY <1>5 DEF AtBuild
  <2> QED  BY <1>3, <2>1 DEF BuiltInv, Exists
<1>9. SlotInv' /\ OwnInv'
  BY <1>3, <1>5 DEF SlotInv, OwnInv, Exists
<1>10. BuildInv'
  <2>1. \A u \in Threads : \A m : Building(u, m)' <=> Building(u, m)
    BY <1>3, <1>5, <1>6 DEF Building, AtBuild
  <2>2. BuildOwned'
    BY <1>3, <2>1 DEF BuildInv, BuildOwned, Loading, Pending, Exists
  <2>3. \A u \in Threads : tpc'[u] \in AtBuild =>
           IF call'[u].kind = "load" THEN Loading(call[u].name)' ELSE Pending(call[u].name)'
    BY <1>3, <1>5 DEF BuildInv, Loading, Pending, Exists
  <2>4. \A u \in Threads : tpc'[u] = "guard" => MayThrow
    BY <1>5 DEF BuildInv, AtBuild
  <2> QED  BY <1>3, <2>2, <2>3, <2>4 DEF BuildInv, Loading, Pending, Exists
<1>11. AcceptInv'
  BY <1>3, <1>6 DEF AcceptInv, Exists, AtBuild
<1> QED  BY <1>4, <1>7, <1>8, <1>9, <1>10, <1>11

\* A retired scheduler is nobody's who serves: its drain disturbs nothing.
LEMMA InvDrain ==
    ASSUME RegistryInv, AcceptInv, NEW k \in Schedulers, DrainBegins(k) \/ DrainEnds(k)
    PROVE  RegistryInv' /\ AcceptInv'
<1> USE DEF RegistryInv, Typed
<1>1. /\ UNCHANGED <<slots, retired, tpc, call, built, old, ret, calls>>
      /\ k \in retired /\ \A s \in Schedulers : s # k => sched'[s] = sched[s]
      /\ sched[k] \in {"accepting", "stopped"} /\ sched'[k] \in {"stopped", "drained"}
      /\ Typed'
  BY DrainMoves
<1>2. \A s \in Schedulers : /\ sched'[s] = "unbuilt" <=> sched[s] = "unbuilt"
                            /\ sched'[s] = "accepting" => sched[s] = "accepting"
                            /\ sched[s] = "accepting" /\ s \notin retired => sched'[s] = "accepting"
  BY <1>1
<1>3. \A m \in Names : Exists(m) => /\ slots[m].handle.sched \in Schedulers \cup {NoScheduler}
                                    /\ slots[m].active.sched \in Schedulers \cup {NoScheduler}
  BY SlotFields, Relabelled
<1>4. \A s \in Schedulers \cup {NoScheduler} : Known(s) => s = NoScheduler \/ sched'[s] # "unbuilt"
  BY <1>2 DEF Known
<1>5. IdInv'
  <2>1. \A u \in Threads : tpc'[u] \in Waiting => sched'[call'[u].id] = "unbuilt"
    <3>1. \A u \in Threads : tpc[u] \in Waiting => call[u].id \in Schedulers
      BY DEF CallInv, Calls, Waiting
    <3> QED  BY <1>1, <1>2, <3>1 DEF IdInv
  <2>2. \A s \in retired' : sched'[s] # "unbuilt"
    BY <1>1, <1>2 DEF IdInv, TypeOK
  <2>3. \A m \in Names : Exists(m)' => /\ slots'[m].handle.sched = NoScheduler \/ sched'[slots'[m].handle.sched] # "unbuilt"
                                       /\ slots'[m].active.sched = NoScheduler \/ sched'[slots'[m].active.sched] # "unbuilt"
    BY <1>1, <1>3, <1>4 DEF IdInv, Exists
  <2>4. \A u \in Threads : old'[u] = NoScheduler \/ sched'[old'[u]] # "unbuilt"
    BY <1>1, <1>4 DEF IdInv, TypeOK
  <2> QED  BY <1>1, <1>2, <2>1, <2>2, <2>3, <2>4 DEF IdInv, Known
<1>6. BuiltInv'
  <2>1. \A u \in Threads : tpc[u] = "swap" => call[u].id \in Schedulers
    BY DEF CallInv, Calls
  <2> QED  BY <1>1, <1>2, <2>1 DEF BuiltInv, Exists
<1>7. SlotInv'
  <2>1. ASSUME NEW m \in Names, slots'[m].exists
        PROVE  /\ SlotShape(slots[m].handle, slots[m].active, slots[m].pending, slots[m].config)
               /\ SlotLive(slots[m].handle, slots[m].active)'
    <3>1. /\ SlotShape(slots[m].handle, slots[m].active, slots[m].pending, slots[m].config)
          /\ SlotLive(slots[m].handle, slots[m].active) /\ Exists(m)
      BY <1>1, <2>1, SlotParts DEF Exists
    <3>2. slots[m].handle.state = "Ready" => slots[m].handle.sched \in Schedulers
      BY <1>3, <3>1 DEF SlotShape
    <3>3. slots[m].active.sched # NoScheduler => slots[m].active.sched \in Schedulers
      BY <1>3, <3>1
    <3> QED  BY <1>1, <1>2, <3>1, <3>2, <3>3 DEF SlotLive
  <2> QED  BY <1>1, <2>1 DEF SlotInv, Exists, SlotShape, SlotLive
<1>8. OwnInv' /\ BuildInv'
  BY <1>1 DEF OwnInv, BuildInv, BuildOwned, Building, Loading, Pending, Exists
<1>9. AcceptInv'
  BY <1>1, <1>2 DEF AcceptInv, Exists
<1> QED  BY <1>1, <1>5, <1>6, <1>7, <1>8, <1>9

LEMMA InvInit == Init => RegistryInv /\ AcceptInv
<1> SUFFICES ASSUME Init PROVE RegistryInv /\ AcceptInv
  OBVIOUS
<1>1. \A n \in Names : ~Exists(n)
  BY DEF Init, Exists, NoSlot
<1>2. \A t \in Threads : tpc[t] = "returned" /\ old[t] = NoScheduler
  BY DEF Init
<1>3. \A k \in Schedulers : sched[k] = "unbuilt"
  BY DEF Init
<1>4. IdInv
  BY <1>1, <1>2, <1>3 DEF Init, IdInv, Known, Waiting
<1>5. BuiltInv /\ SlotInv /\ OwnInv
  BY <1>1, <1>2 DEF BuiltInv, SlotInv, OwnInv
<1>6. BuildInv
  BY <1>1, <1>2 DEF BuildInv, BuildOwned, Building, Loading, Pending, AtBuild
<1>7. AcceptInv
  BY <1>3 DEF AcceptInv
<1> QED  BY <1>4, <1>5, <1>6, <1>7, TypedInit DEF RegistryInv

LEMMA InvThread ==
    ASSUME RegistryInv, AcceptInv, NEW t \in Threads, ThreadStep(t)
    PROVE  RegistryInv' /\ AcceptInv'
<1>1. PICK n \in Names : n = call[t].name
  BY StepFrame
<1>2. PICK i \in Schedulers : i = call[t].id
  BY StepFrame
<1>3. Typed'
  BY TypedThread DEF RegistryInv
<1>4. IdInv' /\ BuiltInv' /\ OwnInv'
  BY <1>1, <1>2, IdThread, BuiltThread, OwnThread
<1>5. SlotInv' /\ BuildInv' /\ AcceptInv'
  BY <1>1, SlotThread, BuildThread, AcceptThread
<1> QED  BY <1>3, <1>4, <1>5 DEF RegistryInv

LEMMA InvStep == RegistryInv /\ AcceptInv /\ [Next]_vars => RegistryInv' /\ AcceptInv'
<1> SUFFICES ASSUME RegistryInv, AcceptInv, [Next]_vars PROVE RegistryInv' /\ AcceptInv'
  OBVIOUS
<1>1. CASE UNCHANGED <<slots, sched, retired, tpc, call, built, old, ret, calls>>
  <2>1. Typed' /\ IdInv' /\ BuiltInv' /\ SlotInv'
    BY <1>1 DEF RegistryInv, Typed, TypeOK, CallInv, IdInv, Known, BuiltInv, SlotInv, Exists
  <2>2. OwnInv' /\ BuildInv' /\ AcceptInv'
    BY <1>1 DEF RegistryInv, OwnInv, BuildInv, BuildOwned, Building, Loading, Pending, Exists, AcceptInv
  <2> QED  BY <2>1, <2>2 DEF RegistryInv
<1> QED  BY <1>1, StepCases, InvCall, InvThread, InvDrain

LEMMA RegistryInvariant == Spec => [](RegistryInv /\ AcceptInv)
BY InvInit, InvStep, PTL DEF Spec

-----------------------------------------------------------------------------
(* What follows from the invariant.                                        *)

\* What readers are served with is the handle, and it is Ready.
LEMMA ServingHandle ==
    ASSUME RegistryInv, NEW n \in Names, Exists(n)
    PROVE  /\ Serving(n) => slots[n].handle.state = "Ready"
           /\ slots[n].active.state = "Ready" => Serving(n) /\ slots[n].active = slots[n].handle
<1> USE DEF RegistryInv, Typed
<1> DEFINE h == slots[n].handle
           a == slots[n].active
<1>1. SlotShape(h, a, slots[n].pending, slots[n].config) /\ SlotLive(h, a)
  BY SlotParts DEF Exists
<1>2. a.state = "Ready" => a = h /\ h.sched # NoScheduler /\ sched[h.sched] = "accepting"
  BY <1>1 DEF SlotShape, SlotLive
<1> QED  BY <1>2 DEF Serving, IsReady

\* A step of a thread leaves a serving slot serving, unless it is beginDrain.
LEMMA ServingThread ==
    ASSUME RegistryInv, RegistryInv', NEW t \in Threads, ThreadStep(t), NEW n \in Names, Serving(n),
           ~(EndsService(t) /\ call[t].name = n)
    PROVE  Serving(n)'
<1> USE DEF RegistryInv, Typed
<1> DEFINE h == slots[n].handle
<1>1. Exists(n) /\ h.state = "Ready" /\ slots[n].active = h /\ h \in Handles
  BY ServingHandle, SlotFields DEF Serving, IsReady
<1>2. slots'[n].exists /\ slots'[n].active.state = "Ready"
  <2>1. CASE n # call[t].name
    BY <1>1, <2>1, StepFrame DEF Exists
  <2>2. CASE n = call[t].name
    <3>1. CASE slots' = slots
      BY <1>1, <3>1 DEF Exists
    <3>2. CASE Reserves(t) \/ Loads(t) \/ Drops(t)
      BY <1>1, <2>2, <3>2 DEF Reserves, Loads, Drops
    <3>3. CASE Settles(t) \/ Begins(t)
      BY <1>1, <2>2, <3>3 DEF Settles, Begins, Becomes
    <3>4. CASE Swaps(t)
      <4>1. /\ slots'[n].exists /\ slots'[n].active = FinishReload(h, built[t]) /\ tpc[t] = "swap"
        BY <2>2, <3>4 DEF Swaps, Becomes
      <4>2. FinishReload(h, built[t]).state = "Ready"
        BY <1>1, <4>1, BuiltFields, ReloadCases
      <4> QED  BY <4>1, <4>2
    <3>5. ~Drains(t)
      BY <2>2 DEF Drains, EndsService
    <3> QED  BY <3>1, <3>2, <3>3, <3>4, <3>5, StepEffects DEF Idles, RetiresOld, Builds
  <2> QED  BY <2>1, <2>2
<1>3. SlotShape(slots[n].handle, slots[n].active, slots[n].pending, slots[n].config)'
      /\ SlotLive(slots[n].handle, slots[n].active)'
  BY <1>2 DEF SlotInv, SlotShape, SlotLive, Exists
<1> QED  BY <1>2, <1>3 DEF Serving, IsReady, Exists, SlotShape, SlotLive

LEMMA ServingStep ==
    ASSUME RegistryInv, RegistryInv', [Next]_vars, NEW n \in Names, Serving(n), ~Serving(n)'
    PROVE  \E t \in Threads : EndsService(t) /\ call[t].name = n
<1> USE DEF RegistryInv, Typed
<1>1. CASE UNCHANGED <<slots, sched>>
  BY <1>1 DEF Serving, IsReady, Exists
<1>2. CASE \E t \in Threads : Call(t)
  BY <1>1, <1>2 DEF Call, slotVars
<1>3. CASE \E t \in Threads : ThreadStep(t)
  BY <1>3, ServingThread
<1>4. CASE \E k \in Schedulers : DrainBegins(k) \/ DrainEnds(k)
  <2>1. PICK k \in Schedulers : DrainBegins(k) \/ DrainEnds(k)
    BY <1>4
  <2>2. slots' = slots /\ k \in retired /\ \A s \in Schedulers : s # k => sched'[s] = sched[s]
    BY <2>1, DrainMoves
  <2>3. Exists(n) /\ slots[n].handle.state = "Ready" /\ slots[n].active = slots[n].handle
    BY ServingHandle DEF Serving, IsReady
  <2>4. slots[n].active.sched \in Schedulers /\ slots[n].active.sched \notin retired
    BY <2>3, SlotParts, SlotFields, Relabelled DEF Exists, SlotShape, SlotLive
  <2>5. sched'[slots[n].active.sched] = sched[slots[n].active.sched]
    BY <2>2, <2>4
  <2> QED  BY <2>2, <2>5 DEF Serving, IsReady, Exists
<1> QED  BY <1>1, <1>2, <1>3, <1>4, StepCases

-----------------------------------------------------------------------------
(* What versioned routes and readiness read.                               *)

\* switchVersion remembers a snapshot under its own version.
SnapsInv ==
    \A n \in Names : Exists(n) =>
        \A v \in Versions : slots[n].snaps[v] # NoHandle => slots[n].snaps[v].version = v

LEMMA SwappedSnaps ==
    ASSUME Typed, NEW t \in Threads, NEW n \in Names, Exists(n), NEW success
    PROVE  Swapped(t, n, success).snaps \in
             {slots[n].snaps, Remember(slots[n].snaps, slots[n].active, FinishReload(slots[n].handle, built[t]))}
<1>1. slots[n] \in Slots
  BY SlotFields DEF Typed
<1> QED  BY <1>1 DEF Swapped, Slots

LEMMA SnapsThread ==
    ASSUME Typed, SnapsInv, NEW t \in Threads, ThreadStep(t), NEW n \in Names, n = call[t].name
    PROVE  SnapsInv'
<1> USE DEF Typed
<1>1. ASSUME slots'[n].exists, NEW v \in Versions, slots'[n].snaps[v] # NoHandle
      PROVE  slots'[n].snaps[v].version = v
  <2>1. Exists(n) => slots[n] \in Slots
    BY SlotFields
  <2>2. CASE Exists(n) /\ slots'[n].snaps = slots[n].snaps
    BY <1>1, <2>2 DEF SnapsInv
  <2>3. CASE LoadModel(t)
    <3>1. slots' = slots \/ slots' = [slots EXCEPT ![n] = Placeholder(call[t].version)]
      BY <2>3 DEF LoadModel
    <3>2. CASE slots' = slots
      BY <1>1, <2>2, <3>2 DEF Exists
    <3>3. CASE slots' = [slots EXCEPT ![n] = Placeholder(call[t].version)]
      BY <1>1, <3>3 DEF Placeholder, TypeOK
    <3> QED  BY <3>1, <3>2, <3>3
  <2>4. CASE PendingLoadGuard(t) \/ LoadSwap(t) \/ ReloadStart(t) \/ BeginDrain(t)
    <3>1. \/ slots' = slots
          \/ Exists(n) /\ slots'[n].snaps = slots[n].snaps
      <4>1. CASE PendingLoadGuard(t)
        BY <2>1, <4>1 DEF PendingLoadGuard, Pending, Loading, TypeOK, Slots
      <4>2. CASE LoadSwap(t)
        BY <2>1, <4>2 DEF LoadSwap, TypeOK, Slots
      <4>3. CASE ReloadStart(t)
        <5> DEFINE g == BeginReload(slots[n].handle)
        <5>1. \/ slots' = slots
              \/ Exists(n) /\ slots' = [slots EXCEPT ![n].pending = TRUE, ![n].handle = BeginReload(@)]
          BY <4>3 DEF ReloadStart
        <5>2. CASE Exists(n) /\ slots' = [slots EXCEPT ![n].pending = TRUE, ![n].handle = BeginReload(@)]
          <6>1. slots'[n] = [slots[n] EXCEPT !.pending = TRUE, !.handle = g]
            BY <2>1, <5>2 DEF TypeOK, Slots
          <6> HIDE DEF g
          <6>2. slots[n] \in Slots
            BY <2>1, <5>2
          <6>3. slots'[n].snaps = slots[n].snaps
            BY <6>1, <6>2 DEF Slots
          <6> QED  BY <5>2, <6>3
        <5> QED  BY <5>1, <5>2
      <4>4. CASE BeginDrain(t)
        <5>1. slots' = slots \/ (Exists(n) /\ \E g : Publish(n, g))
          BY <4>4 DEF BeginDrain, Drainable
        <5>2. ASSUME NEW g, Exists(n), Publish(n, g) PROVE slots'[n].snaps = slots[n].snaps
          BY <2>1, <5>2 DEF Publish, TypeOK, Slots
        <5> QED  BY <5>1, <5>2
      <4> QED  BY <2>4, <4>1, <4>2, <4>3, <4>4
    <3> QED  BY <1>1, <2>2, <3>1 DEF Exists
  <2>5. CASE ReloadSwap(t)
    <3> DEFINE h == FinishReload(slots[n].handle, built[t])
    <3>1. CASE slots' = slots
      BY <1>1, <2>2, <3>1 DEF Exists
    <3>2. CASE Exists(n) /\ \E success : slots' = [slots EXCEPT ![n] = Swapped(t, n, success)]
      <4>1. PICK success : slots' = [slots EXCEPT ![n] = Swapped(t, n, success)]
        BY <3>2
      <4>2. slots'[n] = Swapped(t, n, success)
        BY <4>1 DEF TypeOK
      <4>3. CASE slots'[n].snaps = Remember(slots[n].snaps, slots[n].active, h)
        <5>1. \/ slots'[n].snaps[v] = h /\ v = h.version
              \/ slots'[n].snaps[v] = slots[n].active /\ v = slots[n].active.version
              \/ slots'[n].snaps[v] = slots[n].snaps[v]
          BY <4>3 DEF Remember
        <5> QED  BY <1>1, <3>2, <5>1 DEF SnapsInv
      <4> QED  BY <2>2, <3>2, <4>2, <4>3, SwappedSnaps
    <3> QED  BY <2>5, <3>1, <3>2 DEF ReloadSwap
  <2>6. CASE UnloadModel(t) \/ CompleteUnload(t)
    <3>1. slots' = slots \/ slots' = [slots EXCEPT ![n] = NoSlot]
      BY <2>6 DEF UnloadModel, CompleteUnload, slotVars
    <3>2. slots' = slots
      BY <1>1, <3>1 DEF NoSlot, TypeOK
    <3> QED  BY <1>1, <2>2, <3>2 DEF Exists
  <2>7. CASE JoinWoken(t) \/ RetryWoken(t) \/ Notify(t) \/ RetireOld(t) \/ Leave(t) \/ Build(t)
    <3>1. slots' = slots
      BY <2>7 DEF JoinWoken, RetryWoken, Notify, RetireOld, Leave, Build, slotVars
    <3> QED  BY <1>1, <2>2, <3>1 DEF Exists
  <2> QED  BY <2>3, <2>4, <2>5, <2>6, <2>7 DEF ThreadStep
<1>2. \A m \in Names : m # n => slots'[m] = slots[m]
  BY SlotStep DEF TypeOK
<1> QED  BY <1>1, <1>2 DEF SnapsInv, Exists

LEMMA SnapsInvariant == Spec => []SnapsInv
<1>1. Init => SnapsInv
  BY DEF Init, SnapsInv, Exists, NoSlot
<1>2. Typed /\ SnapsInv /\ [Next]_vars => SnapsInv'
  <2> SUFFICES ASSUME Typed, SnapsInv, [Next]_vars PROVE SnapsInv'
    OBVIOUS
  <2>1. CASE slots' = slots
    BY <2>1 DEF SnapsInv, Exists
  <2>2. ASSUME NEW t \in Threads, ThreadStep(t) PROVE SnapsInv'
    <3>1. call[t].name \in Names
      BY <2>2, ThreadMoves DEF Typed, CallInv, Calls
    <3> QED  BY <2>2, <3>1, SnapsThread
  <2>3. CASE \E t \in Threads : Call(t)
    BY <2>1, <2>3 DEF Call, slotVars
  <2>4. CASE \E k \in Schedulers : DrainBegins(k) \/ DrainEnds(k)
    BY <2>1, <2>4, DrainMoves
  <2> QED  BY <2>1, <2>2, <2>3, <2>4, StepCases
<1> QED  BY <1>1, <1>2, TypedInvariant, PTL DEF Spec

\* How a step changes what readers see: to a settled outcome, or to Unloading by beginDrain,
\* or not at all.
LEMMA ActiveMoves ==
    ASSUME RegistryInv, NEW t \in Threads, ThreadStep(t), NEW m \in Names, slots'[m].exists
    PROVE  \/ Exists(m) /\ slots'[m].active = slots[m].active
           \/ slots'[m].active.state \in {"Loading", "Ready", "Failed"}
           \/ MayThrow
           \/ EndsService(t)
<1> USE DEF RegistryInv, Typed
<1>1. CASE m # call[t].name
  BY <1>1, StepFrame DEF Exists
<1>2. CASE m = call[t].name
  <2>1. CASE slots' = slots
    BY <2>1 DEF Exists
  <2>2. CASE Reserves(t)
    BY <1>2, <2>2 DEF Reserves, Becomes, LoadingHandle, NoHandle, Handle
  <2>3. CASE Settles(t) \/ Drains(t) \/ Drops(t)
    BY <1>2, <2>3 DEF Settles, Drains, Drops, EndsService
  <2>4. CASE Loads(t)
    BY <1>2, <2>4, BuiltFields DEF Loads, Becomes
  <2>5. CASE Begins(t)
    BY <1>2, <2>5 DEF Begins, Becomes
  <2>6. CASE Swaps(t)
    <3> DEFINE h == slots[m].handle
    <3>1. /\ Exists(m) /\ slots[m].pending /\ tpc[t] = "swap"
          /\ slots'[m].active = FinishReload(h, built[t])
      BY <1>2, <2>6 DEF Swaps, Becomes
    <3>2. h \in Handles /\ h.state \in {"Ready", "Unloaded"}
      BY <3>1, SlotFields, SlotParts DEF Exists, SlotShape
    <3>3. built[t] \in Handles /\ built[t].state \in {"Ready", "Failed"}
      BY <3>1, BuiltFields
    <3>4. FinishReload(h, built[t]).state \in {"Ready", "Failed"}
      BY <3>2, <3>3, ReloadCases, Relabelled
    <3> QED  BY <3>1, <3>4
  <2> QED
    BY <2>1, <2>2, <2>3, <2>4, <2>5, <2>6, StepEffects DEF Idles, RetiresOld, Builds
<1> QED  BY <1>1, <1>2

\* Without exceptions, readers never see a handle that is Unloaded.
ActiveInv == MayThrow \/ \A n \in Names : Exists(n) => slots[n].active.state # "Unloaded"

LEMMA ActiveStep == RegistryInv /\ RegistryInv' /\ ActiveInv /\ [Next]_vars => ActiveInv'
<1> SUFFICES ASSUME RegistryInv, RegistryInv', ActiveInv, [Next]_vars, ~MayThrow,
                    NEW n \in Names, slots'[n].exists
             PROVE  slots'[n].active.state # "Unloaded"
  BY DEF ActiveInv, Exists
<1> USE DEF RegistryInv, Typed
<1>1. CASE slots' = slots
  BY <1>1 DEF ActiveInv, Exists
<1>2. ASSUME NEW t \in Threads, ThreadStep(t) PROVE slots'[n].active.state # "Unloaded"
  <2>1. CASE ~EndsService(t)
    BY <1>2, <2>1, ActiveMoves DEF ActiveInv, Exists
  <2>2. CASE EndsService(t)
    <3>1. CASE slots' = slots
      BY <1>1, <3>1
    <3>2. CASE slots' # slots
      <4>1. Drains(t)
        BY <1>2, <2>2, <3>2, StepEffects
           DEF EndsService, Idles, RetiresOld, Builds, Reserves, Settles, Loads, Begins, Swaps, Drops, AtBuild
      <4>2. CASE n # call[t].name
        BY <1>2, <4>2, StepFrame DEF ActiveInv, Exists
      <4>3. CASE n = call[t].name
        <5>1. ~slots'[n].pending /\ slots'[n].handle = slots'[n].active
          BY <4>1, <4>3 DEF Drains, Becomes
        <5>2. slots'[n].handle.state = "Unloaded" => slots'[n].pending \/ MayThrow
          BY DEF SlotInv, Exists
        <5> QED  BY <5>1, <5>2
      <4> QED  BY <4>2, <4>3
    <3> QED  BY <3>1, <3>2
  <2> QED  BY <2>1, <2>2
<1>3. CASE \E t \in Threads : Call(t)
  BY <1>1, <1>3 DEF Call, slotVars
<1>4. CASE \E k \in Schedulers : DrainBegins(k) \/ DrainEnds(k)
  BY <1>1, <1>4, DrainMoves
<1> QED  BY <1>1, <1>2, <1>3, <1>4, StepCases

LEMMA ActiveInvariant == Spec => []ActiveInv
<1>1. Init => ActiveInv
  BY DEF Init, ActiveInv, Exists, NoSlot
<1> QED  BY <1>1, ActiveStep, RegistryInvariant, PTL DEF Spec

-----------------------------------------------------------------------------
(* The theorems.                                                           *)

\* Every variable has its type in every reachable state.
THEOREM TypeCorrect == Spec => []TypeOK
BY TypedInvariant, PTL DEF Typed

\* models_ is built by one thread at a time: loadModel, reload and switchVersion mark the
\* slot under the mutex, build without it, and find it as they left it.
THEOREM BuildsAreOwned == Spec => []BuildOwned
<1>1. RegistryInv => BuildOwned
  BY DEF RegistryInv, BuildInv
<1> QED  BY <1>1, RegistryInvariant, PTL

\* retireSnapshot, which runs after the mutex is released, never retires a scheduler that
\* a Ready handle serves with.
THEOREM RetirementSparesServing == Spec => []ServingAccepts
<1>1. RegistryInv => ServingAccepts
  <2> SUFFICES ASSUME RegistryInv, NEW n \in Names, Exists(n), slots[n].handle.state = "Ready"
               PROVE  /\ slots[n].handle.sched \in Schedulers \ retired
                      /\ sched[slots[n].handle.sched] = "accepting"
    BY DEF ServingAccepts
  <2> QED  BY SlotParts, SlotFields, Relabelled DEF RegistryInv, Typed, Exists, SlotShape, SlotLive
<1> QED  BY <1>1, RegistryInvariant, PTL

\* publishSnapshot is never forgotten: readers see the handle, except during a reload of a
\* handle that served nobody.
THEOREM ReadersSeeTheHandle == Spec => []PublishedIsCurrent
<1>1. RegistryInv => PublishedIsCurrent
  BY DEF RegistryInv, SlotInv, PublishedIsCurrent, Pending
<1> QED  BY <1>1, RegistryInvariant, PTL

\* If lifecycle_.load does not throw past its own handlers, finishReload leaves no handle
\* Unloaded that beginReload had reset.
THEOREM NoReloadLeavesUnloaded ==
    ASSUME ~MayThrow
    PROVE  Spec => []SettledNotUnloaded
<1>1. RegistryInv => SettledNotUnloaded
  BY DEF RegistryInv, SlotInv, SettledNotUnloaded, Pending
<1> QED  BY <1>1, RegistryInvariant, PTL

\* The config that an empty reload falls back to is the one the serving scheduler was
\* built from, whatever version that scheduler's executors report: the slot's config and
\* its handle are assigned apart by loadModel, reload and switchVersion.
THEOREM ConfigFollowsScheduler == Spec => []ConfigOfServing
<1>1. RegistryInv => ConfigOfServing
  BY DEF RegistryInv, SlotInv, ConfigOfServing
<1> QED  BY <1>1, RegistryInvariant, PTL

\* Every scheduler that still accepts is held by a slot, by the thread that built or
\* replaced it, or by retire_queue_.
THEOREM NoAcceptingIsDropped == Spec => []AcceptingIsReferenced
<1>1. AcceptInv => AcceptingIsReferenced
  BY DEF AcceptInv, AcceptingIsReferenced, Referenced
<1> QED  BY <1>1, RegistryInvariant, PTL

\* No reload, version switch, failed build or retirement takes a serving model's readiness
\* away; only beginDrain of an unload does.
THEOREM ReadinessEndsByUnload == Spec => OnlyUnloadEndsServing
<1>1. RegistryInv /\ AcceptInv /\ [Next]_vars =>
        [\A n \in Names : Serving(n) /\ ~Serving(n)' =>
           \E t \in Threads : EndsService(t) /\ call[t].name = n]_vars
  BY InvStep, ServingStep
<1> QED  BY <1>1, RegistryInvariant, PTL DEF Spec, OnlyUnloadEndsServing
-----------------------------------------------------------------------------
(* Handlers.                                                               *)

AdminPlaces  == {"idle", "config", "parse", "called", "registered", "dropping", "refused"}
ClientPlaces == {"idle", "default", "lookup", "stream", "submit", "undefined"}
InRegistry   == {"called", "dropping"}
Views == [known : BOOLEAN, config : Versions \cup {NoVersion},
          label : Versions \cup {NoVersion}, snapshot : Handles]

\* A thread is in the registry only while its handler waits for the call; a handler
\* serves a request of its own kind, and the config it has read is one.
HandlerInv ==
    /\ \A t \in Threads :
         /\ hpc[t] \in AdminPlaces
         /\ hpc[t] \notin InRegistry => tpc[t] = "returned"
         /\ hpc[t] # "idle" => req[t] \in AdminRequests
         /\ view[t].known => view[t].config \in Versions
    /\ \A c \in Clients :
         /\ hpc[c] \in ClientPlaces
         /\ hpc[c] # "idle" => req[c] \in ClientRequests

\* The handlers that have their first, or their second, registry call still in front of them.
First  == {t \in Threads : hpc[t] \in {"config", "parse"}}
Second == {t \in Threads : hpc[t] \in {"config", "parse", "called", "registered"}}

\* Each request makes two registry calls at most.
BudgetInv ==
    /\ IsFiniteSet(First) /\ IsFiniteSet(Second)
    /\ Cardinality(First) + Cardinality(Second) + calls <= 2 * taken

RuntimeInv == RuntimeTypeOK /\ CallInv /\ HandlerInv /\ BudgetInv

LEMMA RuntimeConstants ==
    /\ \A c \in Clients : c \notin Threads
    /\ \A n \in Names : Catalog[n] \in Versions \cup {NoVersion}
    /\ DefaultVersion \in Versions /\ MaxRequests \in Nat /\ MaxCalls \in Nat
    /\ MaxCalls >= 2 * MaxRequests
BY RuntimeAssumption, CallsAssumption DEF NoVersion

LEMMA AdminFields ==
    ASSUME NEW r \in AdminRequests
    PROVE  /\ r.kind \in {"adminLoad", "repositoryLoad", "reload", "unload", "activate"}
           /\ r.name \in Names /\ r.version \in Versions \cup {NoVersion}
           /\ r.kind \in {"adminLoad", "activate"} => r.version \in Versions
           /\ Route(r) \in {"config", "parse"}
<1>1. /\ r.kind \in {"adminLoad", "repositoryLoad", "reload", "unload", "activate"}
      /\ r.name \in Names /\ r.version \in Versions \cup {NoVersion}
      /\ r.kind \in {"adminLoad", "activate"} => r.version \in Versions
  BY DEF AdminRequests, LoadKinds
<1>2. CASE r.kind \in {"repositoryLoad", "reload", "activate"}
  BY <1>1, <1>2 DEF Route
<1>3. CASE r.kind \in {"adminLoad", "unload"}
  BY <1>1, <1>3 DEF Route
<1> QED  BY <1>1, <1>2, <1>3

LEMMA ClientFields ==
    ASSUME NEW r \in ClientRequests
    PROVE  /\ r.kind \in {"infer", "modelReady", "completions", "stream"}
           /\ r.name \in Names /\ r.version \in Versions \cup {NoVersion}
           /\ Route(r) \in {"default", "lookup"}
<1>1. /\ r.kind \in {"infer", "modelReady", "completions", "stream"}
      /\ r.name \in Names /\ r.version \in Versions \cup {NoVersion}
  BY DEF ClientRequests
<1>2. CASE r.kind = "infer" /\ r.version = NoVersion
  BY <1>1, <1>2 DEF Route
<1>3. CASE ~(r.kind = "infer" /\ r.version = NoVersion)
  BY <1>1, <1>3 DEF Route
<1> QED  BY <1>1, <1>2, <1>3

LEMMA NoViewType == NoView \in Views /\ NoView.known = FALSE
BY NoHandleType DEF NoView, Views

-----------------------------------------------------------------------------
(* The calls the handlers make are calls the registry expects.             *)

LEMMA IssueIsCall ==
    ASSUME RuntimeInv, NEW t \in Threads, tpc[t] = "returned", calls < MaxCalls, req[t].name \in Names,
           NEW kind, NEW version,
           \/ kind \in {"load", "reload", "switch"} /\ version \in Versions
           \/ kind = "unload" /\ version = NoVersion,
           Issue(t, kind, version)
    PROVE  Call(t)
<1> DEFINE c == [kind |-> kind, name |-> req[t].name, version |-> version]
<1>1. c \in [kind : {"load", "reload", "switch"}, name : Names, version : Versions]
             \cup [kind : {"unload"}, name : Names, version : {NoVersion}]
  OBVIOUS
<1>2. /\ call' = [call EXCEPT ![t] = [kind |-> c.kind, name |-> c.name, version |-> c.version, id |-> calls + 1]]
      /\ Goto(t, c.kind)
  BY DEF Issue
<1> HIDE DEF c
<1> QED  BY <1>1, <1>2 DEF Issue, Call

\* While a handler has a call in front of it, the bound on calls is not reached.
LEMMA CallsLeft ==
    ASSUME RuntimeInv, NEW t \in Threads, hpc[t] \in {"parse", "registered"}
    PROVE  calls < MaxCalls
<1>1. IsFiniteSet(First) /\ IsFiniteSet(Second) /\ Cardinality(First) + Cardinality(Second) + calls <= 2 * taken
  BY DEF RuntimeInv, BudgetInv
<1>2. Cardinality(First) \in Nat /\ Cardinality(Second) \in Nat
  BY <1>1, FS_CardinalityType
<1>3. Second # {}
  BY DEF Second
<1>4. Cardinality(Second) # 0
  BY <1>1, <1>3, FS_EmptySet
<1>5. calls \in Nat /\ taken \in Nat /\ taken <= MaxRequests
  BY RuntimeConstants DEF RuntimeInv, RuntimeTypeOK, TypeOK
<1>6. 2 * taken <= 2 * MaxRequests
  BY <1>5, RuntimeConstants
<1>7. calls < 2 * taken
  BY <1>1, <1>2, <1>4, <1>5
<1> QED  BY <1>5, <1>6, <1>7, RuntimeConstants

\* Every config a load, reload or version switch starts from has a version.
LEMMA ConfigVersions ==
    ASSUME RuntimeInv, NEW t \in Threads, hpc[t] = "parse"
    PROVE  /\ ConfigVersion(t) \in Versions
           /\ req[t].kind # "unload" => RegistryCall(t) \in {"load", "reload", "switch"}
           /\ req[t].kind = "unload" => RegistryCall(t) = "unload"
<1>1. /\ req[t] \in AdminRequests /\ view[t].known \in BOOLEAN
      /\ view[t].known => view[t].config \in Versions
  BY DEF RuntimeInv, HandlerInv, RuntimeTypeOK, Handlers
<1>2. /\ req[t].kind \in {"adminLoad", "repositoryLoad", "reload", "unload", "activate"}
      /\ req[t].name \in Names /\ req[t].version \in Versions \cup {NoVersion}
  BY <1>1, AdminFields
<1>3. ConfigVersion(t) \in Versions
  <2>1. CASE req[t].version # NoVersion
    BY <1>2, <2>1 DEF ConfigVersion
  <2>2. CASE req[t].version = NoVersion /\ view[t].known
    BY <1>1, <2>2 DEF ConfigVersion
  <2>3. CASE req[t].version = NoVersion /\ ~view[t].known
    <3>1. ConfigVersion(t) = IF req[t].kind = "repositoryLoad" /\ Catalog[req[t].name] # NoVersion
                             THEN Catalog[req[t].name] ELSE DefaultVersion
      BY <2>3 DEF ConfigVersion
    <3> QED  BY <1>2, <3>1, RuntimeConstants
  <2> QED  BY <2>1, <2>2, <2>3
<1>4. CASE req[t].kind = "adminLoad"
  BY <1>3, <1>4 DEF RegistryCall
<1>5. CASE req[t].kind = "repositoryLoad"
  BY <1>3, <1>5 DEF RegistryCall
<1>6. CASE req[t].kind = "activate"
  BY <1>3, <1>6 DEF RegistryCall
<1>7. CASE req[t].kind \in {"reload", "unload"}
  BY <1>3, <1>7 DEF RegistryCall
<1> QED  BY <1>2, <1>3, <1>4, <1>5, <1>6, <1>7

LEMMA AdminSteps ==
    ASSUME RuntimeInv, NEW t \in Threads, AdminStep(t)
    PROVE  \/ UNCHANGED vars
           \/ Call(t) /\ calls' = calls + 1 /\ hpc[t] \in {"parse", "registered"}
           \/ Leave(t) /\ hpc[t] \in InRegistry
<1> USE DEF RuntimeInv
<1>1. CASE ModelConfig(t) \/ Refused(t)
  BY <1>1 DEF ModelConfig, Refused
<1>2. CASE Called(t) \/ Dropped(t)
  BY <1>2 DEF Called, Dropped, InRegistry
<1>3. CASE Parse(t)
  <2>1. hpc[t] = "parse" /\ tpc[t] = "returned" /\ req[t] \in AdminRequests
    BY <1>3 DEF Parse, HandlerInv, InRegistry
  <2>2. calls < MaxCalls /\ req[t].name \in Names
    BY <2>1, CallsLeft, AdminFields
  <2>3. UNCHANGED vars \/ Issue(t, RegistryCall(t), IF req[t].kind = "unload" THEN NoVersion ELSE ConfigVersion(t))
    BY <1>3 DEF Parse
  <2>4. CASE Issue(t, RegistryCall(t), IF req[t].kind = "unload" THEN NoVersion ELSE ConfigVersion(t))
    <3>1. CASE req[t].kind = "unload"
      <4>1. Issue(t, "unload", NoVersion)
        BY <2>1, <2>4, <3>1, ConfigVersions
      <4> QED  BY <2>1, <2>2, <4>1, IssueIsCall DEF Issue
    <3>2. CASE req[t].kind # "unload"
      <4>1. Issue(t, RegistryCall(t), ConfigVersion(t))
        BY <2>4, <3>2
      <4>2. RegistryCall(t) \in {"load", "reload", "switch"} /\ ConfigVersion(t) \in Versions
        BY <2>1, <3>2, ConfigVersions
      <4> QED  BY <2>1, <2>2, <4>1, <4>2, IssueIsCall DEF Issue
    <3> QED  BY <3>1, <3>2
  <2> QED  BY <2>3, <2>4
<1>4. CASE Registered(t)
  <2>1. hpc[t] = "registered" /\ tpc[t] = "returned" /\ req[t] \in AdminRequests
    BY <1>4 DEF Registered, HandlerInv, InRegistry
  <2>2. calls < MaxCalls /\ req[t].name \in Names
    BY <2>1, CallsLeft, AdminFields
  <2>3. UNCHANGED vars \/ Issue(t, "unload", NoVersion)
    BY <1>4 DEF Registered
  <2> QED  BY <2>1, <2>2, <2>3, IssueIsCall DEF Issue
<1> QED  BY <1>1, <1>2, <1>3, <1>4 DEF AdminStep

\* Every step of the runtime is a step of the registry, or none.
LEMMA RegistrySteps == RuntimeInv /\ [RuntimeNext]_runtimeVars => [Next]_vars
<1> SUFFICES ASSUME RuntimeInv, [RuntimeNext]_runtimeVars PROVE [Next]_vars
  OBVIOUS
<1>1. CASE UNCHANGED runtimeVars
  BY <1>1 DEF runtimeVars
<1>2. CASE \E h \in Handlers : HandleRequest(h)
  BY <1>2 DEF HandleRequest
<1>3. ASSUME NEW t \in Threads, AdminStep(t) PROVE [Next]_vars
  BY <1>3, AdminSteps DEF Next, ThreadStep
<1>4. CASE \E t \in Threads : RegistryStep(t)
  BY <1>4 DEF RegistryStep, Next
<1>5. CASE \E c \in Clients : ClientStep(c)
  BY <1>5 DEF ClientStep, DefaultVersionOf, Lookup, StreamCallback, Submit
<1>6. CASE \E k \in Schedulers : RetireStep(k)
  BY <1>6 DEF RetireStep, Next
<1> QED  BY <1>1, <1>2, <1>3, <1>4, <1>5, <1>6 DEF RuntimeNext

-----------------------------------------------------------------------------
(* What a step does to the handlers.                                       *)

Codes == {"none", "200", "400", "404", "409", "500", "503", "error"}

\* Handler h goes to p, with view v and status s.
HandlerMove(h, p, v, s) ==
    /\ hpc' = [hpc EXCEPT ![h] = p] /\ view' = [view EXCEPT ![h] = v]
    /\ status' = [status EXCEPT ![h] = s]

\* The moves of an admin handler; it enters and leaves the registry with its thread.
AdminMove(t, p, q) ==
    \/ q = "idle"
    \/ p = "config" /\ q = "parse"
    \/ p = "parse" /\ q = "called"
    \/ p = "called" /\ q \in {"registered", "refused"}
    \/ p = "registered" /\ q = "dropping"

LEMMA RuntimeTypes ==
    ASSUME RuntimeTypeOK
    PROVE  /\ TypeOK /\ hpc \in [Handlers -> HandlerPlaces] /\ view \in [Handlers -> Views]
           /\ status \in [Handlers -> Codes]
           /\ req \in [Handlers -> AdminRequests \cup ClientRequests \cup {NoRequest}]
           /\ loads \in [{"success", "failure"} -> Nat] /\ taken \in 0 .. MaxRequests
BY DEF RuntimeTypeOK, Views, Codes

LEMMA CountType ==
    ASSUME RuntimeTypeOK, loads' = loads \/ CountLoad("success") \/ CountLoad("failure")
    PROVE  loads' \in [{"success", "failure"} -> Nat]
BY DEF RuntimeTypeOK, CountLoad

\* Answer and To are moves.
LEMMA MoveForms ==
    ASSUME RuntimeTypeOK, NEW h \in Handlers
    PROVE  /\ \A code : Answer(h, code) => HandlerMove(h, "idle", NoView, code)
           /\ \A p : To(h, p) /\ UNCHANGED <<status, view>> => HandlerMove(h, p, view[h], status[h])
           /\ view[h] \in Views /\ status[h] \in Codes
BY RuntimeTypes DEF Answer, To, HandlerMove

LEMMA AdminMoves ==
    ASSUME RuntimeInv, NEW t \in Threads, AdminStep(t)
    PROVE  /\ \E q \in AdminPlaces, v \in Views, s \in Codes :
                /\ HandlerMove(t, q, v, s) /\ AdminMove(t, hpc[t], q)
                /\ v.known => v.config \in Versions
                /\ q \in InRegistry <=> calls' = calls + 1
                /\ q \notin InRegistry => UNCHANGED vars \/ Leave(t)
                /\ hpc[t] \in InRegistry => Leave(t)
           /\ req' = req /\ taken' = taken /\ hpc[t] # "idle"
           /\ loads' \in [{"success", "failure"} -> Nat]
<1> USE DEF RuntimeInv
<1>0. t \in Handlers /\ RuntimeTypeOK /\ calls \in Nat
  BY NoVersionIsNone DEF Handlers, RuntimeTypeOK, TypeOK
<1>1. /\ view[t] \in Views /\ status[t] \in Codes /\ (view[t].known => view[t].config \in Versions)
      /\ NoView \in Views /\ ~NoView.known
  BY <1>0, MoveForms, NoViewType DEF HandlerInv
<1>2. UNCHANGED vars \/ Leave(t) => calls' = calls
  BY DEF vars, Leave
<1>3. CASE ModelConfig(t)
  <2>1. req[t].name \in Names /\ hpc[t] = "config"
    BY <1>3, AdminFields DEF ModelConfig, HandlerInv
  <2> DEFINE n == req[t].name
             v == [view[t] EXCEPT !.known = Exists(n), !.config = IF Exists(n) THEN slots[n].config ELSE NoVersion]
  <2>2. Exists(n) \in BOOLEAN /\ (Exists(n) => slots[n].config \in Versions)
    <3>1. slots[n] \in Slots \cup {NoSlot}
      BY <1>0, <2>1 DEF RuntimeTypeOK, TypeOK
    <3>2. CASE slots[n] = NoSlot
      BY <3>2 DEF Exists, NoSlot
    <3>3. CASE slots[n] \in Slots
      BY <3>3 DEF Exists, Slots
    <3> QED  BY <3>1, <3>2, <3>3
  <2>3. v \in Views /\ (v.known => v.config \in Versions)
    BY <1>1, <2>2 DEF Views
  <2>4. view' = [view EXCEPT ![t] = v]
    BY <1>0, <1>3, RuntimeTypes DEF ModelConfig, Views
  <2> HIDE DEF v
  <2>5. HandlerMove(t, "parse", v, status[t]) /\ UNCHANGED vars
    BY <1>0, <1>3, <2>4, RuntimeTypes DEF ModelConfig, To, HandlerMove
  <2>6. UNCHANGED <<req, taken, loads>>
    BY <1>3 DEF ModelConfig
  <2> QED
    BY <1>0, <1>1, <1>2, <2>1, <2>3, <2>5, <2>6, CountType DEF AdminMove, AdminPlaces, InRegistry
<1>4. CASE Refused(t)
  <2>1. \E s \in Codes : Answer(t, s)
    BY <1>4 DEF Refused, Codes
  <2>2. UNCHANGED vars /\ hpc[t] = "refused" /\ UNCHANGED <<req, taken>>
    BY <1>4 DEF Refused
  <2>3. loads' = loads \/ CountLoad("success") \/ CountLoad("failure")
    BY <1>4 DEF Refused
  <2> QED
    BY <1>0, <1>1, <1>2, <2>1, <2>2, <2>3, MoveForms, CountType DEF AdminMove, AdminPlaces, InRegistry
<1>5. CASE Called(t) \/ Dropped(t)
  <2>1. \/ \E s \in Codes : Answer(t, s)
        \/ hpc[t] = "called" /\ \E q \in {"registered", "refused"} : To(t, q) /\ UNCHANGED <<status, view>>
    BY <1>5 DEF Called, Dropped, Codes
  <2>2. Leave(t) /\ hpc[t] \in {"called", "dropping"} /\ UNCHANGED <<req, taken>>
    BY <1>5 DEF Called, Dropped
  <2>3. loads' = loads \/ CountLoad("success") \/ CountLoad("failure")
    BY <1>5 DEF Called, Dropped
  <2>4. CASE \E s \in Codes : Answer(t, s)
    BY <1>0, <1>1, <1>2, <2>2, <2>3, <2>4, MoveForms, CountType DEF AdminMove, AdminPlaces, InRegistry
  <2>5. CASE hpc[t] = "called" /\ \E q \in {"registered", "refused"} : To(t, q) /\ UNCHANGED <<status, view>>
    <3>1. PICK q \in {"registered", "refused"} : To(t, q) /\ UNCHANGED <<status, view>>
      BY <2>5
    <3>2. HandlerMove(t, q, view[t], status[t]) /\ AdminMove(t, hpc[t], q) /\ q \in AdminPlaces /\ q \notin InRegistry
      BY <1>0, <2>5, <3>1, MoveForms DEF AdminMove, AdminPlaces, InRegistry
    <3> QED  BY <1>0, <1>1, <1>2, <2>2, <2>3, <2>5, <3>2, CountType
  <2> QED  BY <2>1, <2>4, <2>5
<1>6. CASE Parse(t) \/ Registered(t)
  <2>1. \/ UNCHANGED vars /\ \E s \in Codes : Answer(t, s)
        \/ /\ calls' = calls + 1
           /\ hpc[t] = "parse" /\ To(t, "called") /\ UNCHANGED <<status, view>>
        \/ /\ calls' = calls + 1
           /\ hpc[t] = "registered" /\ To(t, "dropping") /\ UNCHANGED <<status, view>>
    BY <1>6 DEF Parse, Registered, Codes, Issue
  <2>2. hpc[t] \in {"parse", "registered"} /\ UNCHANGED <<req, taken>>
    BY <1>6 DEF Parse, Registered
  <2>3. loads' = loads \/ CountLoad("success") \/ CountLoad("failure")
    BY <1>6 DEF Parse, Registered
  <2>4. CASE UNCHANGED vars /\ \E s \in Codes : Answer(t, s)
    BY <1>0, <1>1, <1>2, <2>2, <2>3, <2>4, MoveForms, CountType DEF AdminMove, AdminPlaces, InRegistry
  <2>5. ASSUME NEW q \in InRegistry, calls' = calls + 1, To(t, q), UNCHANGED <<status, view>>, AdminMove(t, hpc[t], q)
        PROVE  /\ \E w \in AdminPlaces, v \in Views, s \in Codes :
                    /\ HandlerMove(t, w, v, s) /\ AdminMove(t, hpc[t], w)
                    /\ v.known => v.config \in Versions
                    /\ w \in InRegistry <=> calls' = calls + 1
                    /\ w \notin InRegistry => UNCHANGED vars \/ Leave(t)
                    /\ hpc[t] \in InRegistry => Leave(t)
               /\ hpc[t] # "idle"
    <3>1. HandlerMove(t, q, view[t], status[t]) /\ q \in AdminPlaces
      BY <1>0, <2>5, MoveForms DEF AdminPlaces, InRegistry
    <3>2. hpc[t] \notin InRegistry
      BY <2>2 DEF InRegistry
    <3> QED  BY <1>1, <2>2, <2>5, <3>1, <3>2
  <2> QED  BY <1>0, <2>1, <2>2, <2>3, <2>4, <2>5, CountType DEF AdminMove, InRegistry
<1> QED  BY <1>3, <1>4, <1>5, <1>6 DEF AdminStep

\* What a client is handed is a handle.
LEMMA FoundType ==
    ASSUME RuntimeInv, NEW c \in Clients, req[c].name \in Names
    PROVE  Found(c) \in Handles
<1> DEFINE n == req[c].name
<1>1. TypeOK /\ view[c].label \in Versions \cup {NoVersion}
  BY RuntimeTypes DEF RuntimeInv, Handlers, Views
<1>2. Exists(n) => slots[n].active \in Handles /\ slots[n].snaps \in [Versions -> Handles]
  BY <1>1, SlotFields DEF Slots
<1>3. CASE ~Exists(n)
  BY <1>3, NoHandleType DEF Found
<1>4. CASE Exists(n) /\ view[c].label = NoVersion
  BY <1>2, <1>4 DEF Found
<1>5. CASE Exists(n) /\ view[c].label # NoVersion
  <2>1. Found(c) = FindHandleVersion(n, view[c].label) /\ view[c].label \in Versions
    BY <1>1, <1>5 DEF Found
  <2>2. Found(c) \in {slots[n].snaps[view[c].label], slots[n].active, NoHandle}
    BY <2>1 DEF FindHandleVersion
  <2> QED  BY <1>2, <1>5, <2>1, <2>2, NoHandleType
<1> QED  BY <1>3, <1>4, <1>5

ClientMove(p, q) ==
    \/ q = "idle"
    \/ p = "default" /\ q = "lookup"
    \/ p = "lookup" /\ q \in {"stream", "submit"}
    \/ p = "stream" /\ q \in {"submit", "undefined"}

LEMMA ClientMoves ==
    ASSUME RuntimeInv, NEW c \in Clients, ClientStep(c)
    PROVE  /\ \E q \in ClientPlaces, v \in Views, s \in Codes :
                /\ HandlerMove(c, q, v, s) /\ ClientMove(hpc[c], q)
                /\ q \in {"stream", "submit"} =>
                     \/ hpc[c] = "lookup" /\ v.label = view[c].label /\ v.snapshot = Found(c) /\ Found(c) # NoHandle
                     \/ hpc[c] = "stream" /\ v = view[c]
           /\ UNCHANGED <<vars, req, taken, loads>> /\ hpc[c] # "idle"
<1> USE DEF RuntimeInv
<1>0. c \in Handlers /\ RuntimeTypeOK
  BY DEF Handlers
<1>1. view[c] \in Views /\ status[c] \in Codes /\ NoView \in Views
  BY <1>0, MoveForms, NoViewType
<1>2. UNCHANGED <<vars, req, taken, loads>> /\ hpc[c] \in {"default", "lookup", "stream", "submit"}
  BY DEF ClientStep, DefaultVersionOf, Lookup, StreamCallback, Submit
<1>3. req[c].name \in Names
  BY <1>2, ClientFields DEF HandlerInv
<1>4. CASE \E s \in Codes : Answer(c, s)
  BY <1>0, <1>1, <1>2, <1>4, MoveForms DEF ClientMove, ClientPlaces
<1>5. CASE DefaultVersionOf(c) /\ ~\E s \in Codes : Answer(c, s)
  <2> DEFINE n == req[c].name
             v == [view[c] EXCEPT !.label = slots[n].active.version]
  <2>1. /\ hpc[c] = "default" /\ Exists(n) /\ view' = [view EXCEPT ![c].label = slots[n].active.version]
        /\ To(c, "lookup") /\ status' = status
    BY <1>5 DEF DefaultVersionOf, Codes
  <2>2. slots[n].active \in Handles
    BY <1>0, <1>3, <2>1, SlotFields DEF RuntimeTypeOK
  <2>3. v \in Views
    BY <1>1, <2>2 DEF Views, Handles
  <2>4. view' = [view EXCEPT ![c] = v]
    BY <1>0, <2>1, RuntimeTypes DEF Views
  <2> HIDE DEF v
  <2>5. HandlerMove(c, "lookup", v, status[c])
    BY <1>0, <2>1, <2>4, RuntimeTypes DEF To, HandlerMove
  <2> QED  BY <1>1, <1>2, <2>1, <2>3, <2>5 DEF ClientMove, ClientPlaces
<1>6. CASE Lookup(c) /\ ~\E s \in Codes : Answer(c, s)
  <2> DEFINE v == [view[c] EXCEPT !.snapshot = Found(c)]
  <2>1. /\ hpc[c] = "lookup" /\ view' = [view EXCEPT ![c].snapshot = Found(c)] /\ Found(c) # NoHandle
        /\ To(c, AfterLookup(c)) /\ status' = status
    BY <1>6 DEF Lookup, Codes, NotServing, NotReady
  <2>2. Found(c) \in Handles /\ AfterLookup(c) \in {"stream", "submit"}
    BY <1>3, FoundType DEF AfterLookup
  <2>3. v \in Views /\ v.label = view[c].label /\ v.snapshot = Found(c)
    BY <1>1, <2>2 DEF Views
  <2>4. view' = [view EXCEPT ![c] = v]
    BY <1>0, <2>1, RuntimeTypes DEF Views
  <2> HIDE DEF v
  <2>5. HandlerMove(c, AfterLookup(c), v, status[c])
    BY <1>0, <2>1, <2>4, RuntimeTypes DEF To, HandlerMove
  <2>6. AfterLookup(c) \in ClientPlaces /\ ClientMove(hpc[c], AfterLookup(c))
    BY <2>1, <2>2 DEF ClientMove, ClientPlaces
  <2> QED  BY <1>1, <1>2, <2>1, <2>3, <2>5, <2>6
<1>7. CASE StreamCallback(c)
  <2>1. PICK q \in {"submit", "undefined"} : To(c, q)
    BY <1>7 DEF StreamCallback
  <2>2. hpc[c] = "stream" /\ UNCHANGED <<status, view>>
    BY <1>7 DEF StreamCallback
  <2>3. HandlerMove(c, q, view[c], status[c]) /\ q \in ClientPlaces /\ ClientMove(hpc[c], q)
    BY <1>0, <2>1, <2>2, MoveForms DEF ClientMove, ClientPlaces
  <2> QED  BY <1>1, <1>2, <2>2, <2>3
<1>8. CASE Submit(c)
  BY <1>4, <1>8 DEF Submit, Codes
<1> QED  BY <1>4, <1>5, <1>6, <1>7, <1>8 DEF ClientStep

LEMMA RequestMoves ==
    ASSUME RuntimeInv, NEW h \in Handlers, HandleRequest(h)
    PROVE  /\ \E p \in HandlerPlaces, v \in Views :
                /\ HandlerMove(h, p, v, "none")
                /\ v.known = view[h].known /\ v.config = view[h].config
                /\ IF h \in Threads THEN p \in {"config", "parse"} ELSE p \in {"default", "lookup"}
           /\ \E r \in AdminRequests \cup ClientRequests :
                /\ req' = [req EXCEPT ![h] = r]
                /\ IF h \in Threads THEN r \in AdminRequests ELSE r \in ClientRequests
           /\ hpc[h] = "idle" /\ taken' = taken + 1 /\ taken' \in 0 .. MaxRequests
           /\ UNCHANGED <<vars, loads>>
<1> USE DEF RuntimeInv
<1>1. PICK r \in IF h \in Threads THEN AdminRequests ELSE ClientRequests :
         /\ req' = [req EXCEPT ![h] = r]
         /\ To(h, Route(r))
         /\ view' = [view EXCEPT ![h].label = r.version]
  BY DEF HandleRequest
<1>2. /\ IF h \in Threads THEN r \in AdminRequests ELSE r \in ClientRequests
      /\ IF h \in Threads THEN Route(r) \in {"config", "parse"} ELSE Route(r) \in {"default", "lookup"}
      /\ r.version \in Versions \cup {NoVersion}
  BY <1>1, AdminFields, ClientFields
<1> DEFINE v == [view[h] EXCEPT !.label = r.version]
<1>3. v \in Views /\ v.known = view[h].known /\ v.config = view[h].config
  BY <1>2, MoveForms DEF Views
<1>4. view' = [view EXCEPT ![h] = v]
  BY <1>1, RuntimeTypes DEF Views
<1> HIDE DEF v
<1>5. HandlerMove(h, Route(r), v, "none") /\ Route(r) \in HandlerPlaces
  BY <1>1, <1>2, <1>4 DEF HandleRequest, HandlerMove, To, HandlerPlaces
<1>6. hpc[h] = "idle" /\ taken' = taken + 1 /\ UNCHANGED <<vars, loads>>
  BY DEF HandleRequest
<1>7. taken' \in 0 .. MaxRequests
  BY RuntimeTypes, RuntimeConstants DEF HandleRequest
<1> QED  BY <1>1, <1>2, <1>3, <1>5, <1>6, <1>7

LEMMA MoveTypes ==
    ASSUME RuntimeTypeOK, NEW h \in Handlers, NEW p \in HandlerPlaces, NEW v \in Views, NEW s \in Codes,
           HandlerMove(h, p, v, s)
    PROVE  /\ hpc' \in [Handlers -> HandlerPlaces] /\ view' \in [Handlers -> Views]
           /\ status' \in [Handlers -> Codes]
           /\ hpc'[h] = p /\ view'[h] = v
           /\ \A u \in Handlers : u # h => hpc'[u] = hpc[u] /\ view'[u] = view[u]
BY RuntimeTypes DEF HandlerMove

-----------------------------------------------------------------------------
(* The budget of calls.                                                    *)

LEMMA BudgetStep ==
    ASSUME BudgetInv, calls \in Nat, taken \in Nat,
           \/ /\ First' \subseteq First /\ Second' \subseteq Second /\ calls' = calls /\ taken' = taken
           \/ /\ \E t : t \in First /\ First' = First \ {t}
              /\ Second' \subseteq Second /\ calls' = calls + 1 /\ taken' = taken
           \/ /\ \E t : t \in Second /\ Second' = Second \ {t}
              /\ First' \subseteq First /\ calls' = calls + 1 /\ taken' = taken
           \/ /\ \E t : First' \subseteq First \cup {t} /\ Second' \subseteq Second \cup {t}
              /\ calls' = calls /\ taken' = taken + 1
    PROVE  BudgetInv'
<1>1. /\ IsFiniteSet(First) /\ IsFiniteSet(Second)
      /\ Cardinality(First) + Cardinality(Second) + calls <= 2 * taken
      /\ Cardinality(First) \in Nat /\ Cardinality(Second) \in Nat
  BY FS_CardinalityType DEF BudgetInv
<1>2. \A S, T : IsFiniteSet(S) /\ T \subseteq S =>
        IsFiniteSet(T) /\ Cardinality(T) <= Cardinality(S) /\ Cardinality(T) \in Nat
  BY FS_Subset, FS_CardinalityType
<1>3. \A S, t : IsFiniteSet(S) => IsFiniteSet(S \cup {t}) /\ Cardinality(S \cup {t}) <= Cardinality(S) + 1
                                  /\ Cardinality(S \cup {t}) \in Nat
  <2> SUFFICES ASSUME NEW S, NEW t, IsFiniteSet(S)
               PROVE  /\ IsFiniteSet(S \cup {t}) /\ Cardinality(S \cup {t}) <= Cardinality(S) + 1
                      /\ Cardinality(S \cup {t}) \in Nat
    OBVIOUS
  <2>1. Cardinality(S) \in Nat
    BY FS_CardinalityType
  <2>2. IsFiniteSet(S \cup {t}) /\ Cardinality(S \cup {t}) \in {Cardinality(S), Cardinality(S) + 1}
    BY FS_AddElement
  <2> QED  BY <2>1, <2>2
<1>4. \A S, t : IsFiniteSet(S) /\ t \in S => IsFiniteSet(S \ {t}) /\ Cardinality(S \ {t}) = Cardinality(S) - 1
  BY FS_RemoveElement
<1>5. CASE First' \subseteq First /\ Second' \subseteq Second /\ calls' = calls /\ taken' = taken
  <2>1. /\ IsFiniteSet(First') /\ Cardinality(First') <= Cardinality(First) /\ Cardinality(First') \in Nat
        /\ IsFiniteSet(Second') /\ Cardinality(Second') <= Cardinality(Second) /\ Cardinality(Second') \in Nat
    BY <1>1, <1>2, <1>5
  <2> QED  BY <1>1, <1>5, <2>1 DEF BudgetInv
<1>6. CASE /\ \E t : t \in First /\ First' = First \ {t}
           /\ Second' \subseteq Second /\ calls' = calls + 1 /\ taken' = taken
  <2>1. /\ IsFiniteSet(First') /\ Cardinality(First') = Cardinality(First) - 1
        /\ IsFiniteSet(Second') /\ Cardinality(Second') <= Cardinality(Second) /\ Cardinality(Second') \in Nat
    BY <1>1, <1>2, <1>4, <1>6
  <2> QED  BY <1>1, <1>6, <2>1 DEF BudgetInv
<1>7. CASE /\ \E t : t \in Second /\ Second' = Second \ {t}
           /\ First' \subseteq First /\ calls' = calls + 1 /\ taken' = taken
  <2>1. /\ IsFiniteSet(Second') /\ Cardinality(Second') = Cardinality(Second) - 1
        /\ IsFiniteSet(First') /\ Cardinality(First') <= Cardinality(First) /\ Cardinality(First') \in Nat
    BY <1>1, <1>2, <1>4, <1>7
  <2> QED  BY <1>1, <1>7, <2>1 DEF BudgetInv
<1>8. CASE /\ \E t : First' \subseteq First \cup {t} /\ Second' \subseteq Second \cup {t}
           /\ calls' = calls /\ taken' = taken + 1
  <2>1. PICK t : First' \subseteq First \cup {t} /\ Second' \subseteq Second \cup {t}
    BY <1>8
  <2>2. /\ IsFiniteSet(First \cup {t}) /\ Cardinality(First \cup {t}) <= Cardinality(First) + 1
        /\ IsFiniteSet(Second \cup {t}) /\ Cardinality(Second \cup {t}) <= Cardinality(Second) + 1
        /\ Cardinality(First \cup {t}) \in Nat /\ Cardinality(Second \cup {t}) \in Nat
    BY <1>1, <1>3
  <2>3. /\ IsFiniteSet(First') /\ Cardinality(First') <= Cardinality(First \cup {t}) /\ Cardinality(First') \in Nat
        /\ IsFiniteSet(Second') /\ Cardinality(Second') <= Cardinality(Second \cup {t}) /\ Cardinality(Second') \in Nat
    BY <1>2, <2>1, <2>2
  <2> QED  BY <1>1, <1>8, <2>2, <2>3 DEF BudgetInv
<1> QED  BY <1>5, <1>6, <1>7, <1>8

-----------------------------------------------------------------------------
(* Every step keeps the invariant.                                         *)

\* TypeOK' and CallInv' come from the registry; the rest is about the handlers.
LEMMA RuntimeRequest ==
    ASSUME RuntimeInv, Typed', NEW h \in Handlers, HandleRequest(h)
    PROVE  RuntimeInv'
<1> USE DEF RuntimeInv
<1>1. PICK p \in HandlerPlaces, v \in Views :
         /\ HandlerMove(h, p, v, "none")
         /\ v.known = view[h].known /\ v.config = view[h].config
         /\ IF h \in Threads THEN p \in {"config", "parse"} ELSE p \in {"default", "lookup"}
  BY RequestMoves
<1>2. PICK r \in AdminRequests \cup ClientRequests :
         /\ req' = [req EXCEPT ![h] = r]
         /\ IF h \in Threads THEN r \in AdminRequests ELSE r \in ClientRequests
  BY RequestMoves
<1>3. /\ hpc[h] = "idle" /\ taken' = taken + 1 /\ taken' \in 0 .. MaxRequests
      /\ UNCHANGED <<vars, loads>>
  BY RequestMoves
<1>4. /\ hpc' \in [Handlers -> HandlerPlaces] /\ view' \in [Handlers -> Views]
      /\ status' \in [Handlers -> Codes]
      /\ hpc'[h] = p /\ view'[h] = v
      /\ \A u \in Handlers : u # h => hpc'[u] = hpc[u] /\ view'[u] = view[u]
  BY <1>1, MoveTypes DEF Codes
<1>5. /\ req' \in [Handlers -> AdminRequests \cup ClientRequests \cup {NoRequest}]
      /\ req'[h] = r /\ \A u \in Handlers : u # h => req'[u] = req[u]
  BY <1>2, RuntimeTypes
<1>6. RuntimeTypeOK'
  BY <1>3, <1>4, <1>5, RuntimeTypes DEF RuntimeTypeOK, Views, Codes, Typed
<1>7. tpc' = tpc /\ calls' = calls
  BY <1>3 DEF vars
<1>8. HandlerInv'
  <2>1. ASSUME NEW t \in Threads
        PROVE  /\ hpc'[t] \in AdminPlaces
               /\ hpc'[t] \notin InRegistry => tpc'[t] = "returned"
               /\ hpc'[t] # "idle" => req'[t] \in AdminRequests
               /\ view'[t].known => view'[t].config \in Versions
    <3>1. CASE t = h
      BY <1>1, <1>2, <1>3, <1>4, <1>5, <1>7, <3>1 DEF HandlerInv, AdminPlaces, InRegistry
    <3>2. CASE t # h
      BY <1>4, <1>5, <1>7, <3>2 DEF HandlerInv, Handlers
    <3> QED  BY <3>1, <3>2
  <2>2. ASSUME NEW c \in Clients
        PROVE  hpc'[c] \in ClientPlaces /\ (hpc'[c] # "idle" => req'[c] \in ClientRequests)
    <3>1. CASE c = h
      BY <1>1, <1>2, <1>4, <1>5, <3>1, RuntimeConstants DEF ClientPlaces
    <3>2. CASE c # h
      BY <1>4, <1>5, <3>2 DEF HandlerInv, Handlers
    <3> QED  BY <3>1, <3>2
  <2> QED  BY <2>1, <2>2 DEF HandlerInv
<1>9. BudgetInv'
  <2>1. First' \subseteq First \cup {h} /\ Second' \subseteq Second \cup {h}
    BY <1>4 DEF First, Second, Handlers
  <2>2. calls \in Nat /\ taken \in Nat
    BY RuntimeTypes, RuntimeConstants DEF TypeOK
  <2> QED  BY <1>3, <1>7, <2>1, <2>2, BudgetStep
<1> QED  BY <1>6, <1>8, <1>9 DEF Typed

LEMMA RuntimeAdmin ==
    ASSUME RuntimeInv, Typed', NEW t \in Threads, AdminStep(t)
    PROVE  RuntimeInv'
<1> USE DEF RuntimeInv
<1>1. PICK q \in AdminPlaces, v \in Views, s \in Codes :
         /\ HandlerMove(t, q, v, s) /\ AdminMove(t, hpc[t], q)
         /\ v.known => v.config \in Versions
         /\ q \in InRegistry <=> calls' = calls + 1
         /\ q \notin InRegistry => UNCHANGED vars \/ Leave(t)
         /\ hpc[t] \in InRegistry => Leave(t)
  BY AdminMoves
<1>2. /\ req' = req /\ taken' = taken /\ hpc[t] # "idle"
      /\ loads' \in [{"success", "failure"} -> Nat]
  BY AdminMoves
<1>3. t \in Handlers /\ q \in HandlerPlaces
  BY DEF Handlers, AdminPlaces, HandlerPlaces
<1>4. /\ hpc' \in [Handlers -> HandlerPlaces] /\ view' \in [Handlers -> Views]
      /\ status' \in [Handlers -> Codes]
      /\ hpc'[t] = q /\ view'[t] = v
      /\ \A u \in Handlers : u # t => hpc'[u] = hpc[u] /\ view'[u] = view[u]
  BY <1>1, <1>3, MoveTypes
<1>5. RuntimeTypeOK'
  BY <1>2, <1>4, RuntimeTypes DEF RuntimeTypeOK, Views, Codes, Typed
<1>6. /\ \A u \in Threads : u # t => tpc'[u] = tpc[u]
      /\ Leave(t) => tpc'[t] = "returned"
      /\ UNCHANGED vars => tpc' = tpc
      /\ calls' = calls \/ calls' = calls + 1
  <2>1. TypeOK
    BY RuntimeTypes
  <2>2. CASE UNCHANGED vars
    BY <2>1, <2>2 DEF vars, Leave, Goto, TypeOK
  <2>3. CASE Leave(t)
    BY <2>1, <2>3 DEF Leave, Goto, TypeOK, vars
  <2>4. CASE Call(t)
    BY <2>1, <2>4 DEF Call, Goto, TypeOK, vars, Leave
  <2> QED  BY <2>2, <2>3, <2>4, AdminSteps
<1>7. HandlerInv'
  <2>1. ASSUME NEW u \in Threads
        PROVE  /\ hpc'[u] \in AdminPlaces
               /\ hpc'[u] \notin InRegistry => tpc'[u] = "returned"
               /\ hpc'[u] # "idle" => req'[u] \in AdminRequests
               /\ view'[u].known => view'[u].config \in Versions
    <3>1. CASE u = t
      BY <1>1, <1>2, <1>4, <1>6, <3>1 DEF HandlerInv
    <3>2. CASE u # t
      BY <1>2, <1>4, <1>6, <3>2 DEF HandlerInv, Handlers
    <3> QED  BY <3>1, <3>2
  <2>2. \A c \in Clients : hpc'[c] \in ClientPlaces /\ (hpc'[c] # "idle" => req'[c] \in ClientRequests)
    BY <1>2, <1>4, RuntimeConstants DEF HandlerInv, Handlers
  <2> QED  BY <2>1, <2>2 DEF HandlerInv
<1>8. BudgetInv'
  <2>0. calls \in Nat /\ taken \in Nat
    BY RuntimeTypes, RuntimeConstants DEF TypeOK
  <2>1. /\ First \ {t} \subseteq First' /\ First' \subseteq First \cup {t}
        /\ Second \ {t} \subseteq Second' /\ Second' \subseteq Second \cup {t}
        /\ t \in First' <=> q \in {"config", "parse"}
        /\ t \in Second' <=> q \in {"config", "parse", "called", "registered"}
        /\ t \in First <=> hpc[t] \in {"config", "parse"}
        /\ t \in Second <=> hpc[t] \in {"config", "parse", "called", "registered"}
    BY <1>4 DEF First, Second, Handlers
  <2>2. CASE q \notin InRegistry
    <3>1. calls' = calls
      BY <1>1, <1>6, <2>2
    <3>2. First' \subseteq First /\ Second' \subseteq Second
      BY <1>1, <2>1, <2>2 DEF AdminMove
    <3> QED  BY <1>2, <2>0, <3>1, <3>2, BudgetStep
  <2>3. CASE q = "called"
    <3>1. t \in First /\ First' = First \ {t} /\ Second' \subseteq Second
      BY <1>1, <2>1, <2>3 DEF AdminMove
    <3>2. calls' = calls + 1
      BY <1>1, <2>3 DEF InRegistry
    <3> QED  BY <1>2, <2>0, <3>1, <3>2, BudgetStep
  <2>4. CASE q = "dropping"
    <3>1. t \in Second /\ Second' = Second \ {t} /\ First' \subseteq First
      BY <1>1, <2>1, <2>4 DEF AdminMove
    <3>2. calls' = calls + 1
      BY <1>1, <2>4 DEF InRegistry
    <3> QED  BY <1>2, <2>0, <3>1, <3>2, BudgetStep
  <2> QED  BY <2>2, <2>3, <2>4 DEF InRegistry
<1> QED  BY <1>5, <1>7, <1>8 DEF Typed

LEMMA RuntimeClient ==
    ASSUME RuntimeInv, Typed', NEW c \in Clients, ClientStep(c)
    PROVE  RuntimeInv'
<1> USE DEF RuntimeInv
<1>1. PICK q \in ClientPlaces, v \in Views, s \in Codes : HandlerMove(c, q, v, s)
  BY ClientMoves
<1>2. UNCHANGED <<vars, req, taken, loads>> /\ hpc[c] # "idle"
  BY ClientMoves
<1>3. c \in Handlers /\ q \in HandlerPlaces /\ c \notin Threads
  BY RuntimeConstants DEF Handlers, ClientPlaces, HandlerPlaces
<1>4. /\ hpc' \in [Handlers -> HandlerPlaces] /\ view' \in [Handlers -> Views]
      /\ status' \in [Handlers -> Codes] /\ hpc'[c] = q
      /\ \A u \in Handlers : u # c => hpc'[u] = hpc[u] /\ view'[u] = view[u]
  BY <1>1, <1>3, MoveTypes
<1>5. RuntimeTypeOK'
  BY <1>2, <1>4, RuntimeTypes DEF RuntimeTypeOK, Views, Codes, Typed
<1>6. tpc' = tpc /\ calls' = calls
  BY <1>2 DEF vars
<1>7. HandlerInv'
  <2>1. \A d \in Clients : hpc'[d] \in ClientPlaces /\ (hpc'[d] # "idle" => req'[d] \in ClientRequests)
    BY <1>2, <1>4 DEF HandlerInv, Handlers
  <2> QED  BY <1>2, <1>3, <1>4, <1>6, <2>1 DEF HandlerInv, Handlers
<1>8. BudgetInv'
  <2>1. First' \subseteq First /\ Second' \subseteq Second
    BY <1>3, <1>4 DEF First, Second, Handlers
  <2>2. calls \in Nat /\ taken \in Nat
    BY RuntimeTypes, RuntimeConstants DEF TypeOK
  <2> QED  BY <1>2, <1>6, <2>1, <2>2, BudgetStep
<1> QED  BY <1>5, <1>7, <1>8 DEF Typed

\* The registry at work for handlers that wait, and retire_queue_ at work for nobody.
LEMMA RuntimeElsewhere ==
    ASSUME RuntimeInv, Typed', UNCHANGED handlerVars, calls' = calls,
           \A t \in Threads : tpc[t] = "returned" => tpc'[t] = "returned"
    PROVE  RuntimeInv'
<1> USE DEF RuntimeInv
<1>1. UNCHANGED <<hpc, req, view, status, loads, taken>>
  BY DEF handlerVars
<1>2. RuntimeTypeOK'
  BY <1>1, RuntimeTypes DEF RuntimeTypeOK, Views, Codes, Typed
<1>3. HandlerInv' /\ BudgetInv'
  BY <1>1 DEF HandlerInv, BudgetInv, First, Second
<1> QED  BY <1>2, <1>3 DEF Typed

LEMMA RuntimeStep == RuntimeInv /\ [RuntimeNext]_runtimeVars => RuntimeInv'
<1> SUFFICES ASSUME RuntimeInv, [RuntimeNext]_runtimeVars PROVE RuntimeInv'
  OBVIOUS
<1>1. Typed
  BY RuntimeTypes DEF RuntimeInv, Typed
<1>2. Typed'
  BY <1>1, RegistrySteps, TypedStep
<1>3. CASE UNCHANGED runtimeVars
  BY <1>2, <1>3, RuntimeElsewhere DEF runtimeVars, vars
<1>4. CASE \E h \in Handlers : HandleRequest(h)
  BY <1>2, <1>4, RuntimeRequest
<1>5. ASSUME NEW t \in Threads, AdminStep(t) PROVE RuntimeInv'
  BY <1>2, <1>5, RuntimeAdmin
<1>6. ASSUME NEW t \in Threads, RegistryStep(t) PROVE RuntimeInv'
  <2>1. ThreadStep(t) /\ UNCHANGED handlerVars
    BY <1>6 DEF RegistryStep
  <2>2. calls' = calls /\ \A u \in Threads : tpc[u] = "returned" => tpc'[u] = "returned"
    BY <1>1, <2>1, ThreadMoves
  <2> QED  BY <1>2, <2>1, <2>2, RuntimeElsewhere
<1>7. CASE \E c \in Clients : ClientStep(c)
  BY <1>2, <1>7, RuntimeClient
<1>8. ASSUME NEW k \in Schedulers, RetireStep(k) PROVE RuntimeInv'
  <2>1. (DrainBegins(k) \/ DrainEnds(k)) /\ UNCHANGED handlerVars
    BY <1>8 DEF RetireStep
  <2>2. tpc' = tpc /\ calls' = calls
    BY <1>1, <2>1, DrainMoves
  <2> QED  BY <1>2, <2>1, <2>2, RuntimeElsewhere
<1> QED  BY <1>3, <1>4, <1>5, <1>6, <1>7, <1>8 DEF RuntimeNext

LEMMA RuntimeInitial == RuntimeInit => RuntimeInv
<1> SUFFICES ASSUME RuntimeInit PROVE RuntimeInv
  OBVIOUS
<1>1. Typed /\ (\A t \in Threads : tpc[t] = "returned") /\ calls = 0
  BY TypedInit DEF RuntimeInit, Init
<1>2. NoView \in Views /\ NoView.known = FALSE
  BY NoViewType
<1>3. RuntimeTypeOK
  <2>1. taken \in 0 .. MaxRequests
    BY RuntimeConstants DEF RuntimeInit
  <2>2. loads \in [{"success", "failure"} -> Nat]
    BY DEF RuntimeInit
  <2> QED  BY <1>1, <1>2, <2>1, <2>2 DEF RuntimeInit, RuntimeTypeOK, Views, HandlerPlaces, Typed
<1>4. HandlerInv
  BY <1>1, <1>2 DEF RuntimeInit, HandlerInv, AdminPlaces, ClientPlaces, Handlers
<1>5. BudgetInv
  <2>1. First = {} /\ Second = {}
    BY DEF RuntimeInit, First, Second, Handlers
  <2>2. taken = 0 /\ calls = 0
    BY <1>1 DEF RuntimeInit
  <2>3. IsFiniteSet({}) /\ Cardinality({}) = 0
    BY FS_EmptySet
  <2> QED  BY <2>1, <2>2, <2>3 DEF BudgetInv
<1> QED  BY <1>1, <1>3, <1>4, <1>5 DEF RuntimeInv, Typed

LEMMA RuntimeInvariant == RuntimeSpec => []RuntimeInv
BY RuntimeInitial, RuntimeStep, PTL DEF RuntimeSpec

-----------------------------------------------------------------------------
(* What the handlers promise.                                              *)

\* What a client holds on to is of the version it asked for.
ServeInv ==
    \A c \in Clients : hpc[c] \in {"stream", "submit"} /\ view[c].label # NoVersion =>
        view[c].snapshot.version = view[c].label

\* findHandleVersion finds the version it is asked for.
LEMMA FoundVersion ==
    ASSUME RuntimeInv, SnapsInv, NEW c \in Clients, req[c].name \in Names, view[c].label # NoVersion,
           Found(c) # NoHandle
    PROVE  Found(c).version = view[c].label
<1> DEFINE n == req[c].name
           v == view[c].label
<1>1. v \in Versions
  BY RuntimeTypes DEF RuntimeInv, Handlers, Views
<1>2. Exists(n) /\ Found(c) = FindHandleVersion(n, v)
  BY DEF Found
<1>3. CASE slots[n].snaps[v] # NoHandle
  <2>1. Found(c) = slots[n].snaps[v]
    BY <1>2, <1>3 DEF FindHandleVersion
  <2> QED  BY <1>1, <1>2, <1>3, <2>1 DEF SnapsInv
<1>4. CASE slots[n].snaps[v] = NoHandle
  <2>1. Found(c) = slots[n].active /\ slots[n].active.version = v
    BY <1>2, <1>4 DEF FindHandleVersion
  <2> QED  BY <2>1
<1> QED  BY <1>3, <1>4

LEMMA ServeStep == RuntimeInv /\ SnapsInv /\ ServeInv /\ [RuntimeNext]_runtimeVars => ServeInv'
<1> SUFFICES ASSUME RuntimeInv, SnapsInv, ServeInv, [RuntimeNext]_runtimeVars,
                    NEW c \in Clients, hpc'[c] \in {"stream", "submit"}, view'[c].label # NoVersion
             PROVE  view'[c].snapshot.version = view'[c].label
  BY DEF ServeInv
<1> USE DEF RuntimeInv
<1>0. c \in Handlers /\ c \notin Threads
  BY RuntimeConstants DEF Handlers
<1>1. CASE hpc'[c] = hpc[c] /\ view'[c] = view[c]
  BY <1>1 DEF ServeInv
<1>2. CASE UNCHANGED runtimeVars
  BY <1>1, <1>2 DEF runtimeVars, handlerVars
<1>3. ASSUME NEW h \in Handlers, HandleRequest(h) PROVE view'[c].snapshot.version = view'[c].label
  <2>1. PICK p \in HandlerPlaces, v \in Views :
           /\ HandlerMove(h, p, v, "none")
           /\ IF h \in Threads THEN p \in {"config", "parse"} ELSE p \in {"default", "lookup"}
    BY <1>3, RequestMoves
  <2>2. hpc'[h] = p /\ \A u \in Handlers : u # h => hpc'[u] = hpc[u] /\ view'[u] = view[u]
    BY <2>1, MoveTypes DEF Codes
  <2> QED  BY <1>0, <1>1, <2>1, <2>2
<1>4. ASSUME NEW t \in Threads, AdminStep(t) PROVE view'[c].snapshot.version = view'[c].label
  <2>1. PICK q \in AdminPlaces, v \in Views, s \in Codes : HandlerMove(t, q, v, s)
    BY <1>4, AdminMoves
  <2>2. t \in Handlers /\ q \in HandlerPlaces
    BY DEF Handlers, AdminPlaces, HandlerPlaces
  <2>3. \A u \in Handlers : u # t => hpc'[u] = hpc[u] /\ view'[u] = view[u]
    BY <2>1, <2>2, MoveTypes
  <2> QED  BY <1>0, <1>1, <2>3
<1>5. CASE (\E t \in Threads : RegistryStep(t)) \/ (\E k \in Schedulers : RetireStep(k))
  BY <1>1, <1>5 DEF RegistryStep, RetireStep, handlerVars
<1>6. ASSUME NEW d \in Clients, ClientStep(d) PROVE view'[c].snapshot.version = view'[c].label
  <2>1. PICK q \in ClientPlaces, v \in Views, s \in Codes :
           /\ HandlerMove(d, q, v, s)
           /\ q \in {"stream", "submit"} =>
                \/ hpc[d] = "lookup" /\ v.label = view[d].label /\ v.snapshot = Found(d) /\ Found(d) # NoHandle
                \/ hpc[d] = "stream" /\ v = view[d]
    BY <1>6, ClientMoves
  <2>2. d \in Handlers /\ q \in HandlerPlaces
    BY DEF Handlers, ClientPlaces, HandlerPlaces
  <2>3. hpc'[d] = q /\ view'[d] = v /\ \A u \in Handlers : u # d => hpc'[u] = hpc[u] /\ view'[u] = view[u]
    BY <2>1, <2>2, MoveTypes
  <2>4. CASE c # d
    BY <1>0, <1>1, <2>3, <2>4
  <2>5. CASE c = d
    <3>1. q \in {"stream", "submit"} /\ v.label # NoVersion
      BY <2>3, <2>5
    <3>2. CASE hpc[d] = "lookup" /\ v.label = view[d].label /\ v.snapshot = Found(d) /\ Found(d) # NoHandle
      <4>1. req[d].name \in Names
        BY <3>2, ClientFields DEF HandlerInv
      <4>2. Found(d).version = view[d].label
        BY <3>1, <3>2, <4>1, FoundVersion
      <4> QED  BY <2>3, <2>5, <3>2, <4>2
    <3>3. CASE hpc[d] = "stream" /\ v = view[d]
      BY <2>3, <2>5, <3>1, <3>3 DEF ServeInv
    <3> QED  BY <2>1, <3>1, <3>2, <3>3
  <2> QED  BY <2>4, <2>5
<1> QED  BY <1>2, <1>3, <1>4, <1>5, <1>6 DEF RuntimeNext

\* Readiness is lost only where a model is taken out of service.
LEMMA ReadinessStep ==
    ASSUME RegistryInv, RegistryInv', ActiveInv', ~MayThrow, [Next]_vars, RepositoryMode, AllReady,
           \A t \in Threads : ~EndsService(t)
    PROVE  AllReady'
<1> USE DEF RegistryInv, Typed
<1>1. \A n \in Names : Serving(n) => Serving(n)'
  BY ServingStep
<1>2. \A n \in Names : Exists(n) /\ Counted(n) => Serving(n) /\ slots[n].active.state = "Ready"
  BY DEF AllReady, Serving, IsReady
<1>3. ASSUME NEW n \in Names, slots'[n].exists, slots'[n].active.state \notin {"Loading", "Failed"}
      PROVE  slots'[n].active.state = "Ready"
  <2>1. slots'[n].active.state \in States /\ slots'[n].active.state # "Unloaded"
    <3>1. slots'[n] \in Slots \cup {NoSlot}
      BY DEF TypeOK
    <3>2. slots'[n] # NoSlot
      BY <1>3 DEF NoSlot
    <3>3. slots'[n].active \in Handles
      BY <3>1, <3>2 DEF Slots
    <3> QED  BY <1>3, <3>3 DEF Handles, ActiveInv, Exists
  <2>2. CASE Exists(n) /\ slots'[n].active = slots[n].active
    <3>1. Counted(n)
      BY <1>3, <2>2 DEF Counted
    <3> QED  BY <1>2, <2>2, <3>1
  <2>3. CASE \E t \in Threads : ThreadStep(t)
    BY <1>3, <2>2, <2>3, ActiveMoves
  <2>4. CASE ~\E t \in Threads : ThreadStep(t)
    <3>1. slots' = slots
      BY <2>4, StepCases, DrainMoves DEF Call, slotVars
    <3> QED  BY <1>3, <2>2, <3>1 DEF Exists
  <2> QED  BY <2>3, <2>4
<1>4. \A n \in Names : slots'[n].exists /\ slots'[n].active.state = "Ready" => IsReady(slots[n].active)'
  <2> SUFFICES ASSUME NEW n \in Names, slots'[n].exists, slots'[n].active.state = "Ready"
               PROVE  IsReady(slots[n].active)'
    OBVIOUS
  <2>1. /\ SlotShape(slots[n].handle, slots[n].active, slots[n].pending, slots[n].config)'
        /\ SlotLive(slots[n].handle, slots[n].active)'
    BY DEF SlotInv, SlotShape, SlotLive, Exists
  <2> QED  BY <2>1 DEF IsReady, SlotShape, SlotLive
<1>5. \A n \in Names : Exists(n)' /\ Counted(n)' => IsReady(slots[n].active)'
  <2> SUFFICES ASSUME NEW n \in Names, Exists(n)', Counted(n)' PROVE IsReady(slots[n].active)'
    OBVIOUS
  <2>1. slots'[n].exists /\ slots'[n].active.state \notin {"Loading", "Failed"}
    BY DEF Exists, Counted
  <2> QED  BY <1>3, <1>4, <2>1
<1>6. ExplicitMode \/ \E n \in Names : Exists(n)' /\ Counted(n)'
  <2> SUFFICES ASSUME ~ExplicitMode PROVE \E n \in Names : Exists(n)' /\ Counted(n)'
    OBVIOUS
  <2>1. PICK n \in Names : Exists(n) /\ Counted(n)
    BY DEF AllReady
  <2>2. Serving(n)'
    BY <1>1, <1>2, <2>1
  <2>3. Exists(n)' /\ Counted(n)'
    BY <2>2 DEF Serving, IsReady, Counted
  <2> QED  BY <2>3
<1> QED  BY <1>5, <1>6 DEF AllReady

-----------------------------------------------------------------------------
(* The theorems.                                                           *)

\* The admin handlers of KServeRuntime call the registry only as it expects: one call per
\* thread at a time, with a name and a version, and no more calls than the bound allows.
\* Every theorem about ModelRegistry's Spec is therefore one about RuntimeSpec.
THEOREM RuntimeUsesRegistry == RuntimeSpec => Spec
<1>1. RuntimeInit => Init
  BY DEF RuntimeInit
<1> QED  BY <1>1, RuntimeInvariant, RegistrySteps, PTL DEF RuntimeSpec, Spec

\* Every variable of the handlers has its type in every reachable state.
THEOREM RuntimeTypeCorrect == RuntimeSpec => []RuntimeTypeOK
BY RuntimeInvariant, PTL DEF RuntimeInv

\* infer submits to a scheduler of the version the route named, or the default was, although
\* the version is looked up in one step and the snapshot in another.
THEOREM AnswersCarryTheirVersion == RuntimeSpec => []ServedVersion
<1>1. RuntimeInit => ServeInv
  BY DEF RuntimeInit, ServeInv, Handlers
<1>2. ServeInv => ServedVersion
  BY DEF ServeInv, ServedVersion
<1> QED
  BY <1>1, <1>2, RuntimeInvariant, RuntimeUsesRegistry, SnapsInvariant, ServeStep, PTL DEF RuntimeSpec

\* allReady of a server with a repository is taken away by no load, reload or version
\* switch that ends without an exception, only by an unload.
THEOREM ReadinessSurvivesReloads ==
    ASSUME ~MayThrow
    PROVE  RuntimeSpec => ReadinessHolds
<1>1. RegistryInv /\ RegistryInv' /\ ActiveInv' /\ [Next]_vars =>
        [RepositoryMode /\ AllReady /\ ~AllReady'
         => \E t \in Threads : EndsService(t)]_runtimeVars
  BY ReadinessStep
<1> QED
  BY <1>1, RuntimeUsesRegistry, RegistryInvariant, ActiveInvariant, PTL DEF Spec, ReadinessHolds

=============================================================================
