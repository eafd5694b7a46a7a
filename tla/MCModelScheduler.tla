------------------------- MODULE MCModelScheduler -------------------------
(* Small instances of ModelScheduler for TLC.                              *)
EXTENDS ModelScheduler, TLC

CONSTANTS r1, r2, r3, w1, w2

TwoRequests   == {r1, r2}
ThreeRequests == {r1, r2, r3}
TwoWorkers    == {w1, w2}

OneShape    == [r \in Requests |-> "image"]
MixedShapes == [r \in Requests |-> IF r = r3 THEN "text" ELSE "image"]
EmptyAndNot == [r \in Requests |-> IF r = r2 THEN NoInputs ELSE "image"]
UnitSizes   == [r \in Requests |-> 1]
SkewedSizes == [r \in Requests |-> IF r = r3 THEN 2 ELSE 1]

WorkerSymmetry == Permutations(Workers)
SkewedSymmetry == Permutations(Workers) \cup Permutations({r1, r2})
============================================================================
