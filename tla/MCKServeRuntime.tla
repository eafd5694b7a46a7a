-------------------------- MODULE MCKServeRuntime --------------------------
(* A small instance of KServeRuntime for TLC: a repository that offers     *)
(* version "1" of a model of which only that version has a model file.     *)
EXTENDS KServeRuntime, TLC

CONSTANTS m1, t1, t2, c1

OneName    == {m1}
OneThread  == {t1}
TwoThreads == {t1, t2}
OneClient  == {c1}
Offered    == [n \in {m1} |-> "1"]

\* The executors of the repository report version "1" unless their config decides.
ReportOne == \A t \in Threads :
    tpc[t] = "build" => built'[t].version \in {NoVersion, "1", call[t].version}
ReportOneSpec == RuntimeInit /\ [][RuntimeNext /\ ReportOne]_runtimeVars

RuntimeSymmetry == Permutations(Threads)
============================================================================
