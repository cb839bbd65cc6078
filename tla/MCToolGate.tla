----------------------------- MODULE MCToolGate -----------------------------
(* TLC instance of ToolGate: two runs of one agent, two chain hooks before a *)
(* short-circuit one, human_approval between two blocking policies.       *)
EXTENDS ToolGate
CONSTANTS bot, r1
MCMaxCalls == [r \in Runs |-> IF r = r1 THEN 2 ELSE 1]
MCAgentOf == [r \in Runs |-> bot]
MCHooks == <<"chain", "chain", "short">>
MCPolicies == <<"rate_limit", Human, "exec_allowlist">>
=============================================================================
