-------------------------- MODULE MCLlmScheduler --------------------------
(* Small instances of LlmScheduler for TLC.                                  *)
EXTENDS LlmScheduler, TLC

CONSTANTS r1, r2, r3, w1, w2

\* The third request fits into the context on its own, but not with the default
\* completion; it is invalid.
Prompts == [r \in Requests |-> IF r = r3 THEN [tokens |-> 3, max |-> 0] ELSE [tokens |-> 1, max |-> 2]]

Symmetry == Permutations(Workers)
============================================================================
