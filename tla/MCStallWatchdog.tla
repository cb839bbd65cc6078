--------------------------- MODULE MCStallWatchdog ---------------------------
(* TLC instances of StallWatchdog. *)
EXTENDS StallWatchdog, TLC

\* Runs are interchangeable in the runs without liveness.
Symmetry == Permutations(Run)
=============================================================================
