-------------------------- MODULE MCModelRegistry --------------------------
(* Small instances of ModelRegistry for TLC.                               *)
EXTENDS ModelRegistry, TLC

CONSTANTS m1, t1, t2, t3

OneName      == {m1}
TwoThreads   == {t1, t2}
ThreeThreads == {t1, t2, t3}

RegistrySymmetry == Permutations(Threads)
============================================================================
