--------------------------- MODULE RequestService ---------------------------
(***************************************************************************)
(* What interface Scheduler (src/src/Scheduler.hpp) promises to the        *)
(* handlers of requests and to the registry, whichever scheduler is behind *)
(* it: a request is refused or taken in, a request taken in is executed at *)
(* most once and answered once, an answer of the executor follows an       *)
(* execution, and a service that has been drained executes nothing more.   *)
(* Modules SchedulerService and LlmService show that both schedulers do.   *)
(***************************************************************************)

CONSTANT Requests

VARIABLES
    phase,    \* "new", "entered" (isDraining was false), "taken" (queued) or "done"
    answer,   \* what submit() returned
    running,  \* the requests an executor works on
    started,  \* the requests an executor ever worked on
    mode      \* "open", "closed" (stopAccepting) or "drained" (beginDrain returned)

serviceVars == <<phase, answer, running, started, mode>>

NoAnswer  == "none"
Refusals  == {"invalid", "overloaded"}
Executed  == {"response"}
Failures  == {"timeout", "backend_error"}

Init ==
    /\ phase = [r \in Requests |-> "new"]
    /\ answer = [r \in Requests |-> NoAnswer]
    /\ running = {} /\ started = {}
    /\ mode = "open"

Answer(r, a) ==
    /\ phase' = [phase EXCEPT ![r] = "done"]
    /\ answer' = [answer EXCEPT ![r] = a]
    /\ UNCHANGED <<running, started, mode>>

Enter(r) ==
    /\ phase[r] = "new" /\ mode = "open"
    /\ phase' = [phase EXCEPT ![r] = "entered"]
    /\ UNCHANGED <<answer, running, started, mode>>

Take(r) ==
    /\ phase[r] = "entered" /\ mode # "drained"
    /\ phase' = [phase EXCEPT ![r] = "taken"]
    /\ UNCHANGED <<answer, running, started, mode>>

\* Refused on its own account, or because the service is closing.
Refuse(r) ==
    /\ phase[r] \in {"new", "entered"}
    /\ \/ \E a \in Refusals : Answer(r, a)
       \/ mode # "open" /\ Answer(r, "draining")

\* An executor begins with some requests, all of them for the first time.
Start(batch) ==
    /\ mode # "drained" /\ batch # {} /\ batch \cap started = {}
    /\ \A r \in batch : phase[r] \in {"taken", "done"}
    /\ running' = running \cup batch
    /\ started' = started \cup batch
    /\ UNCHANGED <<phase, answer, mode>>

Finish(batch) ==
    /\ batch # {} /\ batch \subseteq running
    /\ running' = running \ batch
    /\ UNCHANGED <<phase, answer, started, mode>>

Reply(r) ==
    /\ phase[r] = "taken"
    /\ \/ r \in started \ running /\ \E a \in Executed : Answer(r, a)
       \/ \E a \in Failures : Answer(r, a)
       \/ mode # "open" /\ Answer(r, "draining")

Close ==
    /\ mode = "open"
    /\ mode' = "closed"
    /\ UNCHANGED <<phase, answer, running, started>>

Drained ==
    /\ mode = "closed" /\ running = {}
    /\ mode' = "drained"
    /\ UNCHANGED <<phase, answer, running, started>>

Next ==
    \/ \E r \in Requests : Enter(r) \/ Take(r) \/ Refuse(r) \/ Reply(r)
    \/ \E batch \in SUBSET Requests : Start(batch) \/ Finish(batch)
    \/ Close \/ Drained

Service == Init /\ [][Next]_serviceVars

=============================================================================
