------------------------ MODULE MCSchedulerService ------------------------
(* Small instances of SchedulerService for TLC.  A behaviour is one of     *)
(* three schedulers: one that batches three requests and is not retired,   *)
(* and one that batches and one that does not, each retired under two.     *)
EXTENDS SchedulerService, MCModelScheduler

VARIABLE instance

Retiring == INSTANCE SchedulerService WITH
    BatchSize <- UnitSizes, Retires <- TRUE, MaxQueueSize <- 1, MaxBatchSize <- 3, Preferred <- {2}
Plain == INSTANCE SchedulerService WITH
    BatchSize <- UnitSizes, Retires <- TRUE, MaxQueueSize <- 1, MaxBatchSize <- 3, Preferred <- {2},
    Batching <- FALSE

AnyInit == HistoryInit /\ instance \in {"batching", "retiring", "plain"}

\* The deadline of the third request, of two rows, passes only if it is the only one.
AnyNext ==
    /\ UNCHANGED instance
    /\ \/ instance = "batching" /\ HistoryNext
       \/ instance = "retiring" /\ Retiring!HistoryNext
       \/ instance = "plain" /\ Plain!HistoryNext
    /\ instance # "batching" => cpc'[r3] = "idle"
    /\ due'[r3] => ~due'[r1] /\ ~due'[r2]

AnySpec == AnyInit /\ [][AnyNext]_<<vars, started, instance>>
===========================================================================
