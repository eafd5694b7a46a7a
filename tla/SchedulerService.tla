-------------------------- MODULE SchedulerService --------------------------
(***************************************************************************)
(* ModelScheduler implements RequestService.  The one thing the abstract   *)
(* service remembers that the scheduler does not is which requests an      *)
(* executor has ever worked on: a history variable of this module.         *)
(***************************************************************************)
EXTENDS ModelScheduler

VARIABLE started

RunningNow == UNION {batch[w] : w \in {v \in Workers : wpc[v] = "infer"}}

HistoryInit == Init /\ started = {}
HistoryNext == Next /\ started' = started \cup RunningNow'
HistorySpec == HistoryInit /\ [][HistoryNext]_<<vars, started>>

Phase(r) ==
    CASE cpc[r] = "idle"              -> "new"
      [] cpc[r] \in {"lock", "push"}  -> "entered"
      [] cpc[r] = "returned"          -> "done"
      [] OTHER                        -> "taken"

Service == INSTANCE RequestService WITH
    phase   <- [r \in Requests |-> Phase(r)],
    answer  <- result,
    running <- RunningNow,
    started <- started,
    mode    <- IF dpc = "drained" THEN "drained" ELSE IF draining THEN "closed" ELSE "open"

\* The scheduler keeps the promise of interface Scheduler: no request is executed
\* twice, or after the drain, or without having been taken in; a response follows
\* an execution, and "draining" is answered only by a scheduler that is.
ImplementsService == Service!Service

=============================================================================
