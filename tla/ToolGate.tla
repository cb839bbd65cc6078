------------------------------ MODULE ToolGate ------------------------------
(***************************************************************************)
(* What stands between a tool call the loop wants to make and the tool:    *)
(* the PRE_TOOL_USE hooks (dispatch of engine/hook_registry.py), the       *)
(* policies of the run (check_pre_execution of engine/guardrails.py) and   *)
(* the human, asked over Telegram by the one permission manager of the     *)
(* process (engine/permission_escalation.py, on_permission_decision of     *)
(* engine/telegram.py), as _run_loop of engine/runner.py calls them.       *)
(*                                                                         *)
(* Runs interleave where they await: in a hook, while the prompt is sent   *)
(* and while they wait for the answer.  The human may press any button of  *)
(* any prompt that was delivered, at any time and more than once.          *)
(***************************************************************************)
EXTENDS Naturals, Sequences

CONSTANTS
  Runs, Agents, Tools,
  AgentOf,      \* the agent of a run
  Sensitive,    \* tools that match human_approval_tools
  Hooks,        \* chain_mode of the blocking hooks, by priority
  Policies,     \* enabled_policies, in order
  MaxCalls,     \* tool calls of each run (a bound)
  Managers      \* whether the permission manager was initialised: a set of BOOLEANs

Human == "human_approval"

ASSUME GateAssumption ==
  /\ AgentOf \in [Runs -> Agents]
  /\ Sensitive \subseteq Tools
  /\ Hooks \in Seq({"chain", "short"})
  /\ Tools # {}
  /\ Policies \in Seq(STRING)
  /\ MaxCalls \in [Runs -> Nat]
  /\ Managers \subseteq BOOLEAN

VARIABLES
  manager,     \* get_permission_manager() is not None
  pc,          \* where a run is
  calls,       \* calls made so far: <<r, calls[r]>> is the current one
  tool,        \* the tool of a call, tool_name of its request
  hook,        \* the next hook of dispatch
  verdict,     \* what the chain hooks said so far: allow, modify or block
  args,        \* tool_args are as given or modified
  pending,     \* keys of _pending
  approved,    \* result of a request: open, yes or no
  grants,      \* _session_grants: agent and tool
  prompts,     \* requests whose prompt was delivered
  objections,  \* history: policies that object to the call
  said,        \* history: what the chain hooks answered
  pressed,     \* history: the first button the human pressed in time
  expired      \* history: requests that were denied without an answer

dispatching == <<hook, verdict, args, objections, said>>
local == <<tool, calls, dispatching>>
shared == <<manager, pending, approved, grants, prompts>>
vars == <<pc, local, shared, pressed, expired>>

Requests == UNION {{r} \X (1..MaxCalls[r]) : r \in Runs}
request(r) == <<r, calls[r]>>
PolicySet == {Policies[i] : i \in DOMAIN Policies}
Buttons == {"approve", "all", "deny"}

TypeOK ==
  /\ manager \in Managers
  /\ pc \in [Runs -> {"idle", "hooks", "check", "prompting", "waiting", "running", "gone"}]
  /\ tool \in [Requests -> Tools]
  /\ calls \in [Runs -> Nat]
  /\ hook \in [Runs -> 1..(Len(Hooks) + 1)]
  /\ verdict \in [Runs -> {"allow", "modify", "block"}]
  /\ args \in [Runs -> {"given", "modified"}]
  /\ pending \subseteq Requests /\ prompts \subseteq Requests /\ expired \subseteq Requests
  /\ approved \in [Requests -> {"open", "yes", "no"}]
  /\ grants \subseteq Agents \X Tools
  /\ objections \in [Runs -> SUBSET PolicySet]
  /\ said \in [Runs -> SUBSET {"modify", "block"}]
  /\ pressed \in [Requests -> Buttons \cup {"none"}]
  /\ \A r \in Runs : pc[r] \in {"prompting", "waiting"} =>
       request(r) \in pending /\ manager

Init ==
  /\ manager \in Managers
  /\ pc = [r \in Runs |-> "idle"]
  /\ tool = [q \in Requests |-> CHOOSE t \in Tools : TRUE]
  /\ calls = [r \in Runs |-> 0]
  /\ hook = [r \in Runs |-> 1]
  /\ verdict = [r \in Runs |-> "allow"]
  /\ args = [r \in Runs |-> "given"]
  /\ pending = {} /\ prompts = {} /\ expired = {} /\ grants = {}
  /\ approved = [q \in Requests |-> "open"]
  /\ objections = [r \in Runs |-> {}]
  /\ said = [r \in Runs |-> {}]
  /\ pressed = [q \in Requests |-> "none"]

\* dispatch is over, and its arguments are the ones the policies have seen.
ForgetHooks(r) ==
  /\ hook' = [hook EXCEPT ![r] = 1]
  /\ verdict' = [verdict EXCEPT ![r] = "allow"]
  /\ args' = [args EXCEPT ![r] = "given"]
  /\ said' = [said EXCEPT ![r] = {}]

(* The call is answered with an error, the tool has returned, or the run   *)
(* is gone.                                                                *)
Leaves(r, to) ==
  /\ pc' = [pc EXCEPT ![r] = to]
  /\ ForgetHooks(r)
  /\ objections' = [objections EXCEPT ![r] = {}]

Call(r) ==
  /\ pc[r] = "idle" /\ calls[r] < MaxCalls[r]
  /\ calls' = [calls EXCEPT ![r] = @ + 1]
  /\ \E t \in Tools : tool' = [tool EXCEPT ![request(r)'] = t]
  /\ pc' = [pc EXCEPT ![r] = "hooks"]
  /\ UNCHANGED <<dispatching, shared, pressed, expired>>

-----------------------------------------------------------------------------
(* dispatch *)

\* BLOCK > MODIFY > ALLOW
Combined(before, answer) ==
  IF "block" \in {before, answer} THEN "block"
  ELSE IF "modify" \in {before, answer} THEN "modify" ELSE "allow"

AnyHook(r, mode) == pc[r] = "hooks" /\ hook[r] <= Len(Hooks) /\ Hooks[hook[r]] = mode

\* A handler that fails or times out counts as ALLOW.
ChainHook(r) ==
  /\ AnyHook(r, "chain")
  /\ \E answer \in {"allow", "modify", "block"} :
       /\ verdict' = [verdict EXCEPT ![r] = Combined(@, answer)]
       /\ said' = [said EXCEPT ![r] = @ \cup ({answer} \ {"allow"})]
  /\ hook' = [hook EXCEPT ![r] = @ + 1]
  /\ UNCHANGED <<pc, tool, calls, args, objections, shared, pressed, expired>>

ShortAllows(r) ==
  /\ AnyHook(r, "short")
  /\ hook' = [hook EXCEPT ![r] = @ + 1]
  /\ UNCHANGED <<pc, tool, calls, verdict, args, objections, said, shared, pressed, expired>>

ShortBlocks(r) ==
  /\ AnyHook(r, "short")
  /\ Leaves(r, "idle")
  /\ UNCHANGED <<tool, calls, shared, pressed, expired>>

\* The hook's own result is returned, with new arguments or without; what the
\* chain hooks said is dropped.
ShortModifies(r) ==
  /\ AnyHook(r, "short")
  /\ \E edited \in {"given", "modified"} : args' = [args EXCEPT ![r] = edited]
  /\ pc' = [pc EXCEPT ![r] = "check"]
  /\ UNCHANGED <<tool, calls, hook, verdict, objections, said, shared, pressed, expired>>

Dispatched(r) ==
  /\ pc[r] = "hooks" /\ hook[r] > Len(Hooks)
  /\ IF verdict[r] = "block" THEN Leaves(r, "idle")
     ELSE /\ pc' = [pc EXCEPT ![r] = "check"]
          /\ args' = [args EXCEPT ![r] = IF verdict[r] = "modify" THEN "modified" ELSE @]
          /\ UNCHANGED <<hook, verdict, objections, said>>
  /\ UNCHANGED <<tool, calls, shared, pressed, expired>>

-----------------------------------------------------------------------------
(* check_pre_execution and request_approval *)

\* Mutant: the last objection is reported.
FirstOfLast(objecting) ==
  {Policies[i] : i \in {i \in DOMAIN Policies :
     Policies[i] \in objecting /\ \A j \in DOMAIN Policies : Policies[j] \in objecting => j <= i}}
\* The first policy that objects, if one does, is the only one that is heard.
First(objecting) ==
  {Policies[i] : i \in {i \in DOMAIN Policies :
     Policies[i] \in objecting /\ \A j \in DOMAIN Policies : Policies[j] \in objecting => i <= j}}

\* human_approval objects to the sensitive tools, the others to what they will.
Objecting(r) ==
  {others \cup (IF tool[request(r)] \in Sensitive THEN {Human} \cap PolicySet ELSE {}) :
     others \in SUBSET (PolicySet \ {Human})}

Granted(r) == <<AgentOf[r], tool[request(r)]>> \in grants

\* Without a manager, or with a grant, the call is approved at once.
Asked(r, objecting) == Human \in First(objecting) /\ manager /\ ~Granted(r)

Check(r) ==
  /\ pc[r] = "check"
  /\ \E objecting \in Objecting(r) :
       \/ /\ First(objecting) \ {Human} # {}
          /\ Leaves(r, "idle")
          /\ UNCHANGED pending
       \/ /\ objecting = {} \/ Human \in First(objecting)
          /\ objections' = [objections EXCEPT ![r] = objecting]
          /\ pc' = [pc EXCEPT ![r] = IF Asked(r, objecting) THEN "prompting" ELSE "running"]
          /\ pending' = IF Asked(r, objecting) THEN pending \cup {request(r)} ELSE pending
          /\ ForgetHooks(r)
  /\ UNCHANGED <<tool, calls, manager, approved, grants, prompts, pressed, expired>>

\* The prompt reaches the chat before send_message returns to the run.
Delivered(r) ==
  /\ pc[r] = "prompting" /\ request(r) \notin prompts
  /\ prompts' = prompts \cup {request(r)}
  /\ UNCHANGED <<pc, local, manager, pending, approved, grants, pressed, expired>>

Sent(r) ==
  /\ pc[r] = "prompting" /\ request(r) \in prompts
  /\ pc' = [pc EXCEPT ![r] = "waiting"]
  /\ UNCHANGED <<local, shared, pressed, expired>>

\* _cleanup
Cleanup(q) == pending' = pending \ {q}

\* send_message raises, the prompt delivered or not.
SendFails(r) ==
  /\ pc[r] = "prompting"
  /\ Cleanup(request(r))
  /\ expired' = expired \cup {request(r)}
  /\ Leaves(r, "idle")
  /\ UNCHANGED <<tool, calls, manager, approved, grants, prompts, pressed>>

Woken(r) ==
  /\ pc[r] = "waiting" /\ approved[request(r)] # "open"
  /\ Cleanup(request(r))
  /\ IF approved[request(r)] = "yes"
       THEN pc' = [pc EXCEPT ![r] = "running"] /\ UNCHANGED dispatching
       ELSE Leaves(r, "idle")
  /\ UNCHANGED <<tool, calls, manager, approved, grants, prompts, pressed, expired>>

\* Mutant: the comment at human_approval_timeout: no response is a yes.
SilenceIsConsent(r) == pc' = [pc EXCEPT ![r] = "running"] /\ UNCHANGED dispatching
Silence(r) == Leaves(r, "idle")

\* Mutant: the wait has no timeout.
GivesUpNever(r) == FALSE
GivesUp(r) == pc[r] = "waiting"

\* wait_for gives up, also when the answer has come and the run is not woken yet.
Timeout(r) ==
  /\ GivesUp(r)
  /\ Cleanup(request(r))
  /\ expired' = expired \cup {request(r)}
  /\ Silence(r)
  /\ UNCHANGED <<tool, calls, manager, approved, grants, prompts, pressed>>

\* The run is cancelled at an await; the request, if there is one, stays.
Cancel(r) ==
  /\ pc[r] \in {"hooks", "prompting", "waiting", "running"}
  /\ Leaves(r, "gone")
  /\ UNCHANGED <<tool, calls, shared, pressed, expired>>

Returns(r) ==
  /\ pc[r] = "running"
  /\ Leaves(r, "idle")
  /\ UNCHANGED <<tool, calls, shared, pressed, expired>>

Open(q) == q \in pending /\ approved[q] = "open"

Grant(q) == {<<AgentOf[q[1]], tool[q]>>}

(* on_permission_decision and resolve: an answer to a request that is not  *)
(* pending, or that is answered already, is dropped.                       *)
Press(q, button) ==
  /\ q \in prompts
  /\ pressed' = [pressed EXCEPT ![q] = IF @ = "none" /\ q \notin expired THEN button ELSE @]
  /\ approved' = IF Open(q) THEN [approved EXCEPT ![q] = IF button = "deny" THEN "no" ELSE "yes"]
                 ELSE approved
  /\ grants' = IF Open(q) /\ button = "all" THEN grants \cup Grant(q) ELSE grants
  /\ UNCHANGED <<pc, local, manager, pending, prompts, expired>>

Act(r) ==
  \/ ChainHook(r) \/ ShortAllows(r) \/ ShortBlocks(r) \/ ShortModifies(r) \/ Dispatched(r)
  \/ Check(r) \/ Sent(r) \/ SendFails(r) \/ Woken(r) \/ Timeout(r) \/ Returns(r)

Next ==
  \/ \E r \in Runs : Call(r) \/ Act(r) \/ Delivered(r) \/ Cancel(r)
  \/ \E q \in Requests, button \in Buttons : Press(q, button)

Spec == Init /\ [][Next]_vars

(* Handlers and tools have timeouts, so has the wait for a human; sending  *)
(* returns or raises.  Nothing is assumed of the human.                    *)
FairSpec == Spec /\ \A r \in Runs : WF_vars(Act(r))

-----------------------------------------------------------------------------
(* Properties *)

\* With a permission manager, a sensitive tool runs only if the first button
\* pressed on its own prompt approves and came in time, or "Approve All" was
\* the first button pressed on a prompt of the same agent and the same tool: no
\* second thought, late answer, timeout or failed prompt lets it through.
Approving == {q \in Requests : pressed[q] \in {"approve", "all"}}
ForAll(g) == \E q \in Requests : pressed[q] = "all" /\ <<AgentOf[q[1]], tool[q]>> = g
RunsOnConsent ==
  \A r \in Runs :
    pc[r] = "running" /\ tool[request(r)] \in Sensitive /\ Human \in PolicySet /\ manager =>
      request(r) \in Approving \ expired \/ ForAll(<<AgentOf[r], tool[request(r)]>>)

\* A request is pending only while its run waits, or for ever once the run was
\* cancelled there: nothing calls cleanup_expired.
PendingExplained ==
  \A q \in pending : q = request(q[1]) /\ pc[q[1]] \in {"prompting", "waiting", "gone"}

\* No call runs without the consent it needs, and no question outlives its call.
Consent == RunsOnConsent /\ PendingExplained

\* A tool a blocking policy objects to runs only when human_approval objects as
\* well and stands before that policy: the others are not consulted then.
PoliciesHeard ==
  \A r \in Runs : pc[r] = "running" => \A p \in objections[r] \ {Human} :
    /\ Human \in objections[r]
    /\ \E i, j \in DOMAIN Policies : i < j /\ Policies[i] = Human /\ Policies[j] = p

\* A call some chain hook blocks, or the change it makes, is lost only to a
\* short-circuit MODIFY of a later hook.
HooksHeard ==
  \A r \in Runs : pc[r] = "check" =>
    \/ "block" \notin said[r] /\ ("modify" \in said[r] => args[r] = "modified")
    \/ hook[r] <= Len(Hooks) /\ Hooks[hook[r]] = "short"

\* Nothing that objects to a call is passed over but in these two ways.
ObjectionsHeard == PoliciesHeard /\ HooksHeard

\* A call is through the gate one way or the other, whatever the human does.
GateOpens == \A r \in Runs : pc[r] \in {"hooks", "waiting"} ~> pc[r] \in {"idle", "gone"}
=============================================================================
