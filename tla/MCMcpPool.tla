----------------------------- MODULE MCMcpPool -----------------------------
(* TLC instance of McpPool: three calls, two processes, one unasked message. *)
EXTENDS McpPool
=============================================================================
