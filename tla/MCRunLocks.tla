----------------------------- MODULE MCRunLocks -----------------------------
(* TLC instances of RunLocks. *)
EXTENDS RunLocks, TLC

\* Runs and agents are interchangeable in the safety runs.
Symmetry == Permutations(Run) \cup Permutations(Agent)
=============================================================================
