--------------------------- MODULE MCTaskLifecycle ---------------------------
(* TLC instances of TaskLifecycle. *)
EXTENDS TaskLifecycle, TLC

\* Tasks and calls are interchangeable in the safety runs.
Symmetry == Permutations(Task) \cup Permutations(Call)
=============================================================================
