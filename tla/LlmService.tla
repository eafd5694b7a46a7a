----------------------------- MODULE LlmService -----------------------------
(***************************************************************************)
(* LlmScheduler implements RequestService, with a history variable for the *)
(* requests an executor ever worked on.                                    *)
(***************************************************************************)
EXTENDS LlmScheduler

VARIABLE started

DecodingNow == {job[w] : w \in {v \in Workers : wpc[v] \in {"infer", "decode", "decoded"}}}

HistoryInit == Init /\ started = {}
HistoryNext == Next /\ started' = started \cup DecodingNow'
HistorySpec == HistoryInit /\ [][HistoryNext]_<<vars, started>>

Phase(r) ==
    CASE cpc[r] = "idle"                        -> "new"
      [] cpc[r] \in {"budget", "lock", "push"}  -> "entered"
      [] cpc[r] = "returned"                    -> "done"
      [] OTHER                                  -> "taken"

Service == INSTANCE RequestService WITH
    phase   <- [r \in Requests |-> Phase(r)],
    answer  <- result,
    running <- DecodingNow,
    started <- started,
    mode    <- IF dpc = "drained" THEN "drained" ELSE IF draining THEN "closed" ELSE "open"

\* The LLM scheduler keeps the promise of interface Scheduler: no request is decoded
\* twice, or after the drain, or without having been taken in; a response follows a
\* decode, and "draining" is answered only by a scheduler that is.
ImplementsService == Service!Service

=============================================================================
