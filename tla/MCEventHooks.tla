---------------------------- MODULE MCEventHooks ----------------------------
(* TLC instance of EventHooks: agent a1 is triggered by events of type t1,  *)
(* and a2 runs downstream of a1.                                            *)
EXTENDS EventHooks, TLC

CONSTANTS a1, a2, t1

MCTriggers == <<[agent |-> a1, type |-> t1]>>
MCDownstream == (a1 :> {a2}) @@ (a2 :> {})
=============================================================================
