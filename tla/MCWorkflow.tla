----------------------------- MODULE MCWorkflow -----------------------------
(* TLC instance of Workflow.  pipe has the shape of                          *)
(* docs/workflows/nightwatch.yaml, an agent step that aborts and a noop;     *)
(* loop tries a tool until a condition is content, then runs the same agent. *)
EXTENDS Workflow, TLC

CONSTANTS a1, pipe, loop

Agent(a, policy) == [type |-> "agent", agent |-> a, onFailure |-> policy,
                     next |-> 0, gotos |-> {}]
MCDef ==
  (pipe :> <<Agent(a1, "abort"),
             [type |-> "plain", agent |-> a1, onFailure |-> "abort", next |-> 0, gotos |-> {}]>>) @@
  (loop :> <<[type |-> "tool", agent |-> a1, onFailure |-> "retry", next |-> 0, gotos |-> {}],
             [type |-> "condition", agent |-> a1, onFailure |-> "abort", next |-> 0, gotos |-> {1, 0}],
             Agent(a1, "skip")>>)
=============================================================================
