SPECIFICATION FairSpec
CONSTANTS
  Runs = {r1, r2}
  r1 = r1
  bot = bot
  Agents = {bot}
  Tools = {exec, look}
  AgentOf <- MCAgentOf
  Sensitive = {exec}
  Hooks <- MCHooks
  Policies <- MCPolicies
  MaxCalls <- MCMaxCalls
  Managers = {TRUE, FALSE}
CHECK_DEADLOCK FALSE
INVARIANTS
  Consent
  ObjectionsHeard
PROPERTIES
  GateOpens
