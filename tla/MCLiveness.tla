---------------------------- MODULE MCLiveness ----------------------------
(* What must end in ModelScheduler and in KServeRuntime, which share no    *)
(* state in these models: a behaviour is one of a scheduler that serves    *)
(* on, the deadline of one of whose requests may pass; of one retired      *)
(* under requests whose deadlines do not pass; or one of the handlers,     *)
(* once the scheduler is retired without having had a request.  What a     *)
(* behaviour leaves out is begun by the environment, which is never fair.  *)
EXTENDS MCModelScheduler

CONSTANTS Names, Versions, Threads, MaxCalls, MayThrow, Clients, Catalog, Servable,
          DefaultVersion, RepositoryMode, ExplicitMode, MaxRequests, m1, t1, t2, c1

VARIABLES part, slots, sched, retired, tpc, call, built, old, ret, calls,
          hpc, req, view, status, loads, taken

Runtime == INSTANCE MCKServeRuntime

handlersVars == <<slots, sched, retired, tpc, call, built, old, ret, calls,
                  hpc, req, view, status, loads, taken>>

AllOffered == [n \in Names |-> "1"]

Exited == dpc = "drained" /\ \A w \in Workers : wpc[w] = "exited"

SchedulerNext ==
    /\ Next /\ UNCHANGED handlersVars
    /\ part = "serving" => UNCHANGED dpc /\ ~due'[r2]
    /\ part = "retiring" => UNCHANGED due
    /\ part = "handlers" => UNCHANGED <<cpc, due>>

LiveInit == Init /\ Runtime!RuntimeInit /\ part \in {"serving", "retiring", "handlers"}

LiveNext ==
    /\ UNCHANGED part
    /\ \/ SchedulerNext
       \/ part = "handlers" /\ Exited /\ Runtime!RuntimeNext /\ UNCHANGED vars

LiveSpec ==
    /\ LiveInit /\ [][LiveNext]_<<part, vars, handlersVars>>
    /\ Fairness /\ Runtime!RuntimeFairness

\* RequestsAnswered of module KServeRuntime.
RequestsAnswered == Runtime!RequestsAnswered
============================================================================
