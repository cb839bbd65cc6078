----------------------------- MODULE MCSpawnTree -----------------------------
(* TLC instances of SpawnTree. *)
EXTENDS SpawnTree, TLC

\* Sub-agent runs, and keys, are interchangeable.
Symmetry == Permutations(Sub) \cup Permutations(Key)

\* Of the ways to give two keys to three runs only these differ in more than
\* names: one key for all, and one run with the other key.  (Symmetry itself is
\* no help where liveness is checked.)
AnyKey == CHOOSE k \in Key : TRUE
OtherKey == CHOOSE k \in Key \ {AnyKey} : TRUE
OddOne == CHOOSE c \in Sub : TRUE
MCInit ==
  /\ Init
  /\ \/ key = [c \in Sub |-> AnyKey]
     \/ key = [c \in Sub |-> IF c = OddOne THEN OtherKey ELSE AnyKey]
MCFairSpec == MCInit /\ [][Next]_vars /\ Fairness
=============================================================================
