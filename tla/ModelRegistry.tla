---------------------------- MODULE ModelRegistry ----------------------------
(***************************************************************************)
(* The control plane of src/src/ModelRegistry.cpp, with the life cycle of  *)
(* src/src/ModelLifecycle.cpp and the retirement of schedulers of          *)
(* src/src/SchedulerRetireQueue.cpp.                                       *)
(*                                                                         *)
(* Admin and repository requests run in threads of their own and call      *)
(* loadModel, unloadModel, reload and switchVersion.  models_mutex_ makes  *)
(* each stretch of code between lock and unlock one step; between those    *)
(* steps (above all while executors are built) the other threads run.  A   *)
(* slot holds the handle the registry works on and the snapshot readers    *)
(* see.  A scheduler is known by the number of the call that built it; its *)
(* inside is the business of module ModelScheduler.                        *)
(***************************************************************************)
EXTENDS Naturals, FiniteSets

CONSTANTS
    Names,      \* model names
    Versions,   \* version strings of configs and executors' metadata
    Threads,    \* threads serving admin requests
    MaxCalls,   \* bound on the calls made in one behaviour
    MayThrow    \* lifecycle_.load may throw (out of memory in front of its try)

ASSUME CallsAssumption == MaxCalls \in Nat /\ MayThrow \in BOOLEAN
ASSUME VersionAssumption == "none" \notin Versions

VARIABLES
    slots,     \* models_
    sched,     \* sched[k]: the scheduler built by call k
    retired,   \* the schedulers given to retire_queue_
    tpc,       \* where a thread is
    call,      \* the call it is in
    built,     \* `built` of loadModel, `next` of reload and switchVersion
    old,       \* the scheduler of old_snapshot in reload and switchVersion
    ret,       \* what its call returns
    calls      \* calls made so far

slotVars   == <<slots, sched, retired>>
threadVars == <<built, old, ret>>
vars == <<slotVars, tpc, call, threadVars, calls>>

-----------------------------------------------------------------------------
NoScheduler == 0
NoVersion == "none"
\* version: the first of the versions it reports; config: history, the config its
\* scheduler was built from.
Handle(state, k, v, c) == [state |-> state, sched |-> k, version |-> v, config |-> c]
NoHandle == Handle("Unloaded", NoScheduler, NoVersion, NoVersion)
NoCall == [kind |-> "none", name |-> "none", version |-> NoVersion, id |-> 0]
NoSlot == [exists |-> FALSE]

Schedulers == 1 .. MaxCalls
States == {"Unloaded", "Loading", "Ready", "Unloading", "Failed"}

Exists(n) == slots[n].exists
Loading(n) == Exists(n) /\ slots[n].handle.state = "Loading"
Pending(n) == Exists(n) /\ slots[n].pending

\* ModelHandle::isReady and InferSnapshot::isReady.
IsReady(h) == h.state = "Ready" /\ h.sched # NoScheduler /\ sched[h.sched] = "accepting"

\* Mutant of Publish: the snapshot readers see is left as it was.
PublishForgotten(n, h) == slots' = [slots EXCEPT ![n].handle = h]

\* slot.handle := h and publishSnapshot(slot).
Publish(n, h) == slots' = [slots EXCEPT ![n].handle = h, ![n].active = h]

Goto(t, place) == tpc' = [tpc EXCEPT ![t] = place]

Truth(b) == IF b THEN "true" ELSE "false"

\* Unlock and return at once, or through notify_all.
Return(t, value) == Goto(t, "return") /\ ret' = [ret EXCEPT ![t] = value]
ReturnNotify(t, value) == Goto(t, "notify") /\ ret' = [ret EXCEPT ![t] = value]

\* Scheduler::stopAccepting.
StopAccepting(k) ==
    sched' = [s \in Schedulers |-> IF s = k /\ sched[s] = "accepting" THEN "stopped" ELSE sched[s]]

Init ==
    /\ slots = [n \in Names |-> NoSlot]
    /\ sched = [k \in Schedulers |-> "unbuilt"]
    /\ retired = {}
    /\ tpc = [t \in Threads |-> "returned"]
    /\ call = [t \in Threads |-> NoCall]
    /\ built = [t \in Threads |-> NoHandle]
    /\ old = [t \in Threads |-> NoScheduler]
    /\ ret = [t \in Threads |-> "none"]
    /\ calls = 0

\* A thread takes up another request.
Call(t) ==
    /\ tpc[t] = "returned" /\ calls < MaxCalls
    /\ \E c \in [kind : {"load", "reload", "switch"}, name : Names, version : Versions]
                 \cup [kind : {"unload"}, name : Names, version : {NoVersion}] :
         /\ call' = [call EXCEPT ![t] = [kind |-> c.kind, name |-> c.name,
                                         version |-> c.version, id |-> calls + 1]]
         /\ Goto(t, c.kind)
    /\ calls' = calls + 1
    /\ UNCHANGED <<slotVars, threadVars>>

-----------------------------------------------------------------------------
(* load_cv_: a waiter sleeps, is woken by notify_all, and looks again.     *)

\* The load this call joined has ended.
JoinWoken(t) ==
    LET n == call[t].name
    IN
    /\ tpc[t] = "joinWoken"
    /\ \/ Loading(n) /\ Goto(t, "joinSleep") /\ UNCHANGED ret
       \/ ~Loading(n) /\ Return(t, Truth(Exists(n) /\ IsReady(slots[n].handle)))
    /\ UNCHANGED <<slotVars, call, built, old, calls>>

\* The reload this call queued up behind has ended: try again from the start.
RetryWoken(t) ==
    /\ tpc[t] = "retryWoken"
    /\ Goto(t, IF Pending(call[t].name) THEN "retrySleep" ELSE call[t].kind)
    /\ UNCHANGED <<slotVars, call, threadVars, calls>>

\* Mutant of Woken: nobody is.
StillAsleep(place) == place

Woken(place) == CASE place = "joinSleep" -> "joinWoken"
                  [] place = "retrySleep" -> "retryWoken"
                  [] OTHER -> place

\* The mutex is released: load_cv_.notify_all(), then retireSnapshot if the call
\* replaced a scheduler.
Notify(t) ==
    /\ tpc[t] \in {"notify", "notifyRetire"}
    /\ tpc' = [u \in Threads |-> IF u # t THEN Woken(tpc[u])
                                 ELSE IF tpc[t] = "notify" THEN "return" ELSE "retire"]
    /\ UNCHANGED <<slotVars, call, threadVars, calls>>

\* Mutant of RetireOld: the replaced scheduler is just let go.
RetireForgotten(t) ==
    /\ tpc[t] = "retire"
    /\ Goto(t, "return")
    /\ UNCHANGED <<slotVars, call, threadVars, calls>>

\* retireSnapshot(old_snapshot): the drain runs in a task of its own.
RetireOld(t) ==
    /\ tpc[t] = "retire"
    /\ retired' = IF old[t] = NoScheduler THEN retired ELSE retired \cup {old[t]}
    /\ Goto(t, "return")
    /\ UNCHANGED <<slots, sched, call, threadVars, calls>>

\* The call returns; its locals, old_snapshot among them, are gone.
Leave(t) ==
    /\ tpc[t] = "return"
    /\ Goto(t, "returned")
    /\ old' = [old EXCEPT ![t] = NoScheduler]
    /\ built' = [built EXCEPT ![t] = NoHandle]
    /\ ret' = [ret EXCEPT ![t] = "none"]
    /\ call' = [call EXCEPT ![t] = NoCall]
    /\ UNCHANGED <<slotVars, calls>>

-----------------------------------------------------------------------------
(* loadModel.                                                              *)

LoadingHandle == [NoHandle EXCEPT !.state = "Loading"]

\* Mutant of Placeholder: placeholder.config is not assigned.
PlaceholderWithoutConfig(config) ==
    [exists |-> TRUE, handle |-> LoadingHandle, active |-> LoadingHandle,
     snaps |-> [v \in Versions |-> NoHandle], pending |-> FALSE, config |-> NoVersion]

\* The slot a load reserves its name with, already published.
Placeholder(config) ==
    [exists |-> TRUE, handle |-> LoadingHandle, active |-> LoadingHandle,
     snaps |-> [v \in Versions |-> NoHandle], pending |-> FALSE, config |-> config]

\* A settled slot is refused, a placeholder is joined, a new name is reserved.
LoadModel(t) ==
    LET n == call[t].name
    IN
    /\ tpc[t] = "load"
    /\ \/ Exists(n) /\ ~Loading(n) /\ Return(t, "false") /\ UNCHANGED slots
       \/ Loading(n) /\ Goto(t, "joinSleep") /\ UNCHANGED <<slots, ret>>
       \/ /\ ~Exists(n)
          /\ slots' = [slots EXCEPT ![n] = Placeholder(call[t].version)]
          /\ Goto(t, "build") /\ UNCHANGED ret
    /\ UNCHANGED <<sched, retired, call, built, old, calls>>

\* switchVersion overrides the version the executor reports with the one it was asked
\* for; loadModel and reload do so with that of a config that is model_version_explicit,
\* and leave any other as it is.
Reported(t) == IF call[t].kind = "switch" THEN {call[t].version} ELSE Versions

\* ModelLifecycle::load on a fresh handle, without the mutex: Ready with a scheduler
\* of its own, Failed without one, or an exception that runs into PendingLoadGuard.
Build(t) ==
    LET k == call[t].id
    IN
    /\ tpc[t] = "build"
    /\ \/ /\ \E v \in Reported(t) :
               built' = [built EXCEPT ![t] = Handle("Ready", k, v, call[t].version)]
          /\ sched' = [sched EXCEPT ![k] = "accepting"]
          /\ Goto(t, "swap")
       \/ /\ \E v \in Reported(t) :
               built' = [built EXCEPT ![t] = Handle("Failed", NoScheduler, v, NoVersion)]
          /\ Goto(t, "swap") /\ UNCHANGED sched
       \/ MayThrow /\ Goto(t, "guard") /\ UNCHANGED <<built, sched>>
    /\ UNCHANGED <<slots, retired, call, old, ret, calls>>

\* ~PendingLoadGuard without commit(): the slot is settled and the waiters woken.
PendingLoadGuard(t) ==
    LET n == call[t].name
        h == slots[n].handle
    IN
    /\ tpc[t] = "guard"
    /\ slots' = CASE Pending(n) -> [slots EXCEPT ![n].pending = FALSE, ![n].active = h]
                  [] Loading(n) /\ ~Pending(n) ->
                       [slots EXCEPT ![n].handle.state = "Failed",
                                     ![n].active = [h EXCEPT !.state = "Failed"]]
                  [] OTHER -> slots
    /\ ReturnNotify(t, "exception")
    /\ UNCHANGED <<sched, retired, call, built, old, calls>>

LoadSwap(t) ==
    LET n == call[t].name
    IN
    /\ tpc[t] = "swap" /\ call[t].kind = "load"
    /\ slots' = IF ~Exists(n) THEN slots
                ELSE [slots EXCEPT ![n].config = call[t].version,
                                   ![n].handle = built[t], ![n].active = built[t]]
    /\ ReturnNotify(t, Truth(Exists(n)))
    /\ UNCHANGED <<sched, retired, call, built, old, calls>>

-----------------------------------------------------------------------------
(* reload and switchVersion.                                               *)

\* ModelLifecycle::beginReload: what becomes of the handle.
BeginReload(h) ==
    CASE h.state = "Unloading" -> NoHandle
      [] h.state = "Failed"    -> [h EXCEPT !.state = "Unloaded"]
      [] OTHER                 -> h

\* switchVersion returns at once if the version is the active one and ready.
AlreadyActive(t, n) ==
    call[t].kind = "switch" /\ slots[n].active.version = call[t].version /\ IsReady(slots[n].active)

ReloadStart(t) ==
    LET n == call[t].name
    IN
    /\ tpc[t] \in {"reload", "switch"}
    /\ \/ ~Exists(n) /\ Return(t, "false") /\ UNCHANGED <<slots, sched>>
       \/ Exists(n) /\ AlreadyActive(t, n) /\ Return(t, "true") /\ UNCHANGED <<slots, sched>>
       \/ /\ Exists(n) /\ ~AlreadyActive(t, n)
          /\ \/ Loading(n) /\ ~Pending(n) /\ Goto(t, "joinSleep") /\ UNCHANGED <<slots, sched>>
             \/ Pending(n) /\ Goto(t, "retrySleep") /\ UNCHANGED <<slots, sched>>
             \/ /\ ~Loading(n) /\ ~Pending(n)
                /\ slots' = [slots EXCEPT ![n].pending = TRUE,
                                          ![n].handle = BeginReload(@)]
                /\ IF slots[n].handle.state = "Unloading" THEN StopAccepting(slots[n].handle.sched)
                   ELSE UNCHANGED sched
                /\ Goto(t, "build")
          /\ UNCHANGED ret
    /\ UNCHANGED <<retired, call, built, old, calls>>

\* Mutants of FinishReload: a handle that had been reset stays Unloaded; a failed
\* build replaces what was serving.
FinishReloadKeeps(h, next) == IF next.state = "Ready" THEN next ELSE h
FinishReloadOverwrites(h, next) == next

\* ModelLifecycle::finishReload: the replacement, or the handle it was meant for.
FinishReload(h, next) ==
    IF next.state = "Ready" THEN next
    ELSE IF h.state = "Unloaded" THEN [h EXCEPT !.state = "Failed"] ELSE h

\* Mutant of Remember: each snapshot is kept under the version of the other.
RememberSwapped(snaps, old_snapshot, new_snapshot) ==
    [v \in Versions |-> IF v = new_snapshot.version THEN old_snapshot
                        ELSE IF v = old_snapshot.version THEN new_snapshot ELSE snaps[v]]

\* switchVersion keeps the snapshots of both versions for versioned routes.
Remember(snaps, old_snapshot, new_snapshot) ==
    [v \in Versions |-> IF v = new_snapshot.version THEN new_snapshot
                        ELSE IF v = old_snapshot.version THEN old_snapshot ELSE snaps[v]]

\* Mutant of Stored: a failed reload leaves its config behind.
StoredAlways(success, config, current) == config

\* The config an empty reload falls back to changes only with the scheduler.
Stored(success, config, current) == IF success THEN config ELSE current

\* Under the mutex: the outcome replaces the handle and is published.
Swapped(t, n, success) ==
    LET s == slots[n]
        h == FinishReload(s.handle, built[t])
    IN
    [s EXCEPT !.pending = FALSE, !.handle = h, !.active = h,
              !.config = Stored(success, call[t].version, @),
              !.snaps = IF success /\ call[t].kind = "switch" THEN Remember(@, s.active, h) ELSE @]

\* Mutant of OldScheduler: the snapshot is read after the swap.
SchedulerAfterSwap(t, n) == FinishReload(slots[n].handle, built[t]).sched

\* The scheduler of old_snapshot, read before the swap.
OldScheduler(t, n) == slots[n].active.sched

ReloadSwap(t) ==
    LET n == call[t].name
        success == built[t].state = "Ready"
    IN
    /\ tpc[t] = "swap" /\ call[t].kind \in {"reload", "switch"}
    /\ IF ~Exists(n) THEN ReturnNotify(t, "false") /\ UNCHANGED <<slots, old>>
       ELSE /\ slots' = [slots EXCEPT ![n] = Swapped(t, n, success)]
            /\ old' = [old EXCEPT ![t] = OldScheduler(t, n)]
            /\ ret' = [ret EXCEPT ![t] = Truth(success /\ IsReady(built[t]))]
            /\ Goto(t, IF success THEN "notifyRetire" ELSE "notify")
    /\ UNCHANGED <<sched, retired, call, built, calls>>

-----------------------------------------------------------------------------
(* unloadModel: three stretches under the mutex.                           *)

UnloadModel(t) ==
    LET n == call[t].name
    IN
    /\ tpc[t] = "unload"
    /\ \/ /\ ~Exists(n) \/ Pending(n) \/ Loading(n)
          /\ Return(t, "false") /\ UNCHANGED slots
       \/ /\ Exists(n) /\ ~Pending(n) /\ slots[n].handle.state = "Failed"
          /\ slots[n].handle.sched = NoScheduler
          /\ slots' = [slots EXCEPT ![n] = NoSlot]
          /\ Return(t, "true")
       \/ /\ Exists(n) /\ ~Pending(n) /\ ~Loading(n)
          /\ ~(slots[n].handle.state = "Failed" /\ slots[n].handle.sched = NoScheduler)
          /\ Goto(t, "drain") /\ UNCHANGED <<slots, ret>>
    /\ UNCHANGED <<sched, retired, call, built, old, calls>>

\* Mutant of Drainable: the slot may have changed since unloadModel looked at it.
DrainableAnyway(n) == Exists(n) /\ slots[n].handle.sched # NoScheduler

Drainable(n) == Exists(n) /\ ~Pending(n) /\ slots[n].handle.sched # NoScheduler

\* beginDrain: a handle without a scheduler or with a reload in progress is refused.
BeginDrain(t) ==
    LET n == call[t].name
        h == slots[n].handle
    IN
    /\ tpc[t] = "drain"
    /\ \/ ~Drainable(n) /\ Return(t, "false") /\ UNCHANGED <<slots, sched>>
       \/ /\ Drainable(n)
          /\ Publish(n, IF h.state = "Ready" THEN [h EXCEPT !.state = "Unloading"] ELSE h)
          /\ StopAccepting(h.sched)
          /\ Goto(t, "complete") /\ UNCHANGED ret
    /\ UNCHANGED <<retired, call, built, old, calls>>

CompleteUnload(t) ==
    LET n == call[t].name
        h == slots[n].handle
        completes == Exists(n) /\ h.state = "Unloading"
    IN
    /\ tpc[t] = "complete"
    /\ \/ ~completes /\ Return(t, "false") /\ UNCHANGED slotVars
       \/ /\ completes
          /\ slots' = [slots EXCEPT ![n] = NoSlot]
          /\ StopAccepting(h.sched)
          /\ retired' = IF h.sched = NoScheduler THEN retired ELSE retired \cup {h.sched}
          /\ Return(t, "true")
    /\ UNCHANGED <<call, built, old, calls>>

-----------------------------------------------------------------------------
(* The tasks of retire_queue_ run Scheduler::beginDrain; DrainCompletes of  *)
(* module ModelScheduler says that it ends.                                 *)

DrainBegins(k) ==
    /\ k \in retired /\ sched[k] = "accepting"
    /\ StopAccepting(k)
    /\ UNCHANGED <<slots, retired, tpc, call, threadVars, calls>>

DrainEnds(k) ==
    /\ k \in retired /\ sched[k] = "stopped"
    /\ sched' = [sched EXCEPT ![k] = "drained"]
    /\ UNCHANGED <<slots, retired, tpc, call, threadVars, calls>>

-----------------------------------------------------------------------------
ThreadStep(t) ==
    \/ JoinWoken(t) \/ RetryWoken(t) \/ Notify(t) \/ RetireOld(t) \/ Leave(t)
    \/ LoadModel(t) \/ Build(t) \/ PendingLoadGuard(t) \/ LoadSwap(t)
    \/ ReloadStart(t) \/ ReloadSwap(t)
    \/ UnloadModel(t) \/ BeginDrain(t) \/ CompleteUnload(t)

Next ==
    \/ \E t \in Threads : Call(t) \/ ThreadStep(t)
    \/ \E k \in Schedulers : DrainBegins(k) \/ DrainEnds(k)

Spec == Init /\ [][Next]_vars

-----------------------------------------------------------------------------
(* Properties.                                                             *)

\* findHandleVersion: the remembered snapshots come before the active one.
FindHandleVersion(n, v) ==
    IF slots[n].snaps[v] # NoHandle THEN slots[n].snaps[v]
    ELSE IF slots[n].active.version = v THEN slots[n].active ELSE NoHandle

Handles == [state : States, sched : Schedulers \cup {NoScheduler},
            version : Versions \cup {NoVersion}, config : Versions \cup {NoVersion}]
Slots == [exists : {TRUE}, handle : Handles, active : Handles,
          snaps : [Versions -> Handles], pending : BOOLEAN, config : Versions]
Places == {"load", "unload", "reload", "switch", "build", "guard", "swap", "joinSleep",
           "joinWoken", "retrySleep", "retryWoken", "notify", "notifyRetire", "retire",
           "drain", "complete", "return", "returned"}
Calls == [kind : {"load", "unload", "reload", "switch"}, name : Names,
          version : Versions \cup {NoVersion}, id : Schedulers]

\* Every variable has its type.
TypeOK ==
    /\ slots \in [Names -> Slots \cup {NoSlot}]
    /\ sched \in [Schedulers -> {"unbuilt", "accepting", "stopped", "drained"}]
    /\ retired \subseteq Schedulers
    /\ tpc \in [Threads -> Places]
    /\ call \in [Threads -> Calls \cup {NoCall}]
    /\ built \in [Threads -> Handles]
    /\ old \in [Threads -> Schedulers \cup {NoScheduler}]
    /\ ret \in [Threads -> {"none", "true", "false", "exception"}]
    /\ calls \in 0 .. MaxCalls

Building(t, n) == tpc[t] \in {"build", "guard", "swap"} /\ call[t].name = n

\* A slot is being built (Loading, or with reload_pending) exactly while one thread,
\* and no second one, builds it: no unload takes the slot away under the build, no
\* two builds race for it, and none leaves it unsettled behind.
BuildOwned ==
    \A n \in Names :
        /\ Loading(n) \/ Pending(n) <=> \E t \in Threads : Building(t, n)
        /\ \A t, u \in Threads : Building(t, n) /\ Building(u, n) => t = u

\* A Ready handle has a scheduler that accepts requests: retirement, which runs
\* after the mutex is released, never reaches a scheduler that serves.
ServingAccepts ==
    \A n \in Names : Exists(n) /\ slots[n].handle.state = "Ready" =>
        /\ slots[n].handle.sched \in Schedulers \ retired
        /\ sched[slots[n].handle.sched] = "accepting"

\* What readers see is the handle, except while a reload of a handle that served
\* nobody is in progress.
PublishedIsCurrent ==
    \A n \in Names : Exists(n) /\ slots[n].active # slots[n].handle =>
        Pending(n) /\ slots[n].handle.state = "Unloaded"

\* A settled slot is never Unloaded: a reload that fails leaves Ready or Failed.
SettledNotUnloaded ==
    \A n \in Names : Exists(n) /\ ~Pending(n) => slots[n].handle.state # "Unloaded"

\* An empty reload falls back to the config the serving scheduler was built from,
\* whatever version that scheduler's executors report: the two are assigned apart, in
\* three places, and neither by a reload that fails.
ConfigOfServing ==
    \A n \in Names : Exists(n) /\ slots[n].handle.state = "Ready" =>
        slots[n].config = slots[n].handle.config

Serving(n) == Exists(n) /\ IsReady(slots[n].active)

\* The step is beginDrain, by t.
EndsService(t) == tpc[t] = "drain" /\ tpc'[t] = "complete"

\* Only an unload makes a serving model stop serving: no reload, version switch,
\* failed build or retirement interrupts readiness.
OnlyUnloadEndsServing ==
    [][\A n \in Names : Serving(n) /\ ~Serving(n)' =>
         \E t \in Threads : EndsService(t) /\ call[t].name = n]_vars

Referenced(k) ==
    \/ \E n \in Names : Exists(n) /\ \/ slots[n].handle.sched = k
                                     \/ slots[n].active.sched = k
                                     \/ \E v \in Versions : slots[n].snaps[v].sched = k
    \/ \E t \in Threads : built[t].sched = k \/ old[t] = k

\* No scheduler is dropped while it still accepts: its workers would only be joined
\* by whoever lets go of it last.
AcceptingIsReferenced ==
    \A k \in Schedulers : sched[k] = "accepting" => Referenced(k) \/ k \in retired

\* specs/2026-06-10-control-data-plane-split/plan.md:78 "reload: in-flight completes on
\* old marker, new requests use new marker".  An unversioned request looks up the
\* default version and then its handle: if the model is ready, that handle must be, too.
DefaultRouteServes ==
    \A n \in Names : Serving(n) => IsReady(FindHandleVersion(n, slots[n].active.version))

=============================================================================
