------------------------------ MODULE SpawnTree ------------------------------
(***************************************************************************)
(* The tree of sub-agent runs below one top-level run                      *)
(* (engine/tools/handlers/spawn.py and runner.py: the start of _run_loop,  *)
(* _run_verification and _spawn_recovery_helper).                          *)
(*                                                                         *)
(* A run spawns one child, which then executes in the parent's own asyncio *)
(* task, or several at once, each in a task of its own.  A child takes the *)
(* dedup key of its agent and message, waits for a permit of the engine's  *)
(* spawn semaphore and keeps it until it has ended, its own children       *)
(* included.  A recovery helper, which the engine starts itself after tool *)
(* errors, takes neither key nor permit.                                   *)
(*                                                                         *)
(* Depth, remaining budget and the name space of the keys travel in        *)
(* SpawnContext objects; the context variable of a task names the current  *)
(* one, and a child sets it when it starts and never resets it.  A run is  *)
(* given its context by its parent.  The loop that a failed verification   *)
(* starts is given none: a run that may spawn continues with a fresh one,  *)
(* as a top-level run does, at depth 0 and in a name space of its own.     *)
(*                                                                         *)
(* A run id is used once.  All agents are configured to spawn, with the    *)
(* same limits; tokens are counted in units.                               *)
(***************************************************************************)
EXTENDS Runs, Naturals, FiniteSets

CONSTANTS
  Root,         \* the top-level run
  Key,          \* agent and message of a child, as hashed in the dedup key
  MaxDepth,     \* max_nesting_depth, at most 3
  MaxBatch,     \* max_spawn_batch
  Permits,      \* max_concurrent_spawns
  AutoBudget,   \* auto-derived token budget of a run
  ToolTimeouts  \* FALSE when tool_timeout_seconds is 0

ASSUME RootAssumption == Root \in Run
ASSUME SizeAssumption ==
  MaxDepth \in 0 .. 3 /\ MaxBatch \in Nat /\ Permits \in Nat /\ AutoBudget \in Nat
ASSUME ToolTimeoutsAssumption == ToolTimeouts \in BOOLEAN

VARIABLES
  pc,         \* pc[r]: where run r is
  parent,     \* parent[r]: the run that spawned r (Root for itself)
  task,       \* task[r]: the run that r's asyncio task was created for
  current,    \* current[t]: the context the variable of task t names
  context,    \* the SpawnContext objects
  source,     \* source[r]: the context r's usage is deducted from
  budget,     \* budget[r]: token_budget of run r
  key,        \* key[r]: the agent and message r is spawned with
  helpers,    \* runs started by _spawn_recovery_helper
  retried,    \* runs in, or past, the loop that follows their verification
  locked,     \* the "sub:..." keys in dedup._running
  cancelled,  \* live runs whose task was cancelled while they were innermost
  fired,      \* live runs the timeout of whose present spawn call has fired
  level       \* history: level[r], the number of r's ancestors

vars == <<pc, parent, task, current, context, source, budget, key, helpers,
          retried, locked, cancelled, fired, level>>

PC == {"unused", "waiting", "running", "ended"}
Sub == Run \ {Root}
Live(r) == pc[r] \in {"waiting", "running"}
Children(p) == {c \in Sub : Live(c) /\ parent[c] = p}
Executing == {c \in Sub \ helpers : pc[c] = "running"}

\* The context run r was given (made by itself if r is Root), and the one that
\* its verification loop makes.
First(r) == <<r, "first">>
Second(r) == <<r, "second">>
Contexts == Run \X {"first", "second"}
SpawnContext == [home : Run, depth : Nat, tokens : Nat]  \* home: parent_run_id

TypeOK ==
  /\ pc \in [Run -> PC]
  /\ parent \in [Run -> Run]
  /\ task \in [Run -> Run]
  /\ current \in [Run -> Contexts]
  /\ context \in [Contexts -> SpawnContext]
  /\ source \in [Run -> Contexts]
  /\ budget \in [Run -> Nat]
  /\ key \in [Sub -> Key]
  /\ helpers \in SUBSET Sub
  /\ retried \in SUBSET Run
  /\ locked \in SUBSET (Run \X Key)
  /\ cancelled \in SUBSET Sub
  /\ fired \in SUBSET Run
  /\ level \in [Run -> Nat]

FreshContext(r) == [home |-> r, depth |-> 0, tokens |-> budget[r]]

Init ==
  /\ pc = [r \in Run |-> IF r = Root THEN "running" ELSE "unused"]
  /\ parent = [r \in Run |-> Root]
  /\ task = [r \in Run |-> Root]
  /\ current = [r \in Run |-> First(Root)]
  /\ budget = [r \in Run |-> IF r = Root THEN AutoBudget ELSE 0]
  /\ context = [x \in Contexts |-> FreshContext(Root)]
  /\ source = [r \in Run |-> First(Root)]
  /\ key \in [Sub -> Key]
  /\ helpers = {}
  /\ retried = {}
  /\ locked = {}
  /\ cancelled = {}
  /\ fired = {}
  /\ level = [r \in Run |-> 0]

-----------------------------------------------------------------------------
Current(p) == context[current[task[p]]]

\* Mutant: the child is given its parent's depth.
SameDepth(p) == Current(p).depth
ChildDepth(p) == Current(p).depth + 1

\* The name space is inherited.
ChildContext(p) == [Current(p) EXCEPT !.depth = ChildDepth(p)]

\* can_spawn_agents is switched off on a child at the limit.
Home(c) == context[First(c)].home
MaySpawn(r) == r = Root \/ context[First(r)].depth < MaxDepth

DepthAllowed(d) == d <= MaxDepth
KeyFree(k) == k \notin locked
Keys(S, h) == {<<h, key[c]>> : c \in S}

\* spawn_agent (one child, in p's task) or spawn_agents (S, each in a task of
\* its own, which inherits the context variable).  Members whose key is taken
\* get an error and are not in S; so are the spawns beyond the depth limit.
Spawn(p, S, own) ==
  /\ pc[p] = "running" /\ p \notin cancelled /\ MaySpawn(p)
  /\ Children(p) = {}
  /\ S # {} /\ \A c \in S : pc[c] = "unused"
  /\ \A k \in Keys(S, Current(p).home) : KeyFree(k)
  /\ \A c, d \in S : key[c] = key[d] => c = d
  /\ IF own THEN Cardinality(S) <= MaxBatch ELSE \E c \in S : S = {c}
  /\ DepthAllowed(ChildDepth(p))
  /\ pc' = [r \in Run |-> IF r \in S THEN "waiting" ELSE pc[r]]
  /\ parent' = [r \in Run |-> IF r \in S THEN p ELSE parent[r]]
  /\ task' = [r \in Run |-> IF r \in S THEN (IF own THEN r ELSE task[p])
                                       ELSE task[r]]
  /\ current' = [t \in Run |-> IF t \in S /\ own THEN current[task[p]]
                                                 ELSE current[t]]
  /\ context' = [x \in Contexts |-> IF \E c \in S : x = First(c)
                                    THEN ChildContext(p) ELSE context[x]]
  /\ source' = [r \in Run |-> IF r \in S THEN current[task[p]] ELSE source[r]]
  /\ locked' = locked \cup Keys(S, Current(p).home)
  /\ fired' = fired \ {p}
  /\ level' = [r \in Run |-> IF r \in S THEN level[p] + 1 ELSE level[r]]
  /\ UNCHANGED <<budget, key, helpers, retried, cancelled>>

\* A remaining budget of 0 counts as no budget at all.
Granted(tokens) == IF tokens \in 1 .. AutoBudget THEN tokens ELSE AutoBudget

PermitFree == Cardinality(Executing) < Permits

\* The child gets a permit and starts: its context becomes the task's.
Start(c) ==
  /\ pc[c] = "waiting" /\ c \notin cancelled
  /\ PermitFree
  /\ pc' = [pc EXCEPT ![c] = "running"]
  /\ budget' = [budget EXCEPT ![c] = Granted(context[First(c)].tokens)]
  /\ current' = [current EXCEPT ![task[c]] = First(c)]
  /\ UNCHANGED <<parent, task, context, source, key, helpers, retried, locked,
                 cancelled, fired, level>>

\* _spawn_recovery_helper: c executes at once in p's task, between two tool
\* calls.  Its depth is not checked.
Help(p, c) ==
  /\ pc[p] = "running" /\ p \notin cancelled /\ MaySpawn(p)
  /\ Children(p) = {}
  /\ pc[c] = "unused"
  /\ pc' = [pc EXCEPT ![c] = "running"]
  /\ parent' = [parent EXCEPT ![c] = p]
  /\ task' = [task EXCEPT ![c] = task[p]]
  /\ context' = [context EXCEPT ![First(c)] = ChildContext(p)]
  /\ current' = [current EXCEPT ![task[p]] = First(c)]
  /\ budget' = [budget EXCEPT ![c] = Granted(Current(p).tokens)]
  /\ helpers' = helpers \cup {c}
  /\ level' = [level EXCEPT ![c] = level[p] + 1]
  /\ UNCHANGED <<source, key, retried, locked, cancelled, fired>>

\* The verification of p's output fails and a second loop begins, without the
\* context p was given.
Retry(p) ==
  /\ pc[p] = "running" /\ p \notin cancelled /\ MaySpawn(p)
  /\ Children(p) = {}
  /\ p \notin retried
  /\ retried' = retried \cup {p}
  /\ context' = [context EXCEPT ![Second(p)] = FreshContext(p)]
  /\ current' = [current EXCEPT ![task[p]] = Second(p)]
  /\ UNCHANGED <<pc, parent, task, source, budget, key, helpers, locked,
                 cancelled, fired, level>>

\* Mutant: the key of a run that ran stays locked.
UnlockNothing(c) == locked
Unlock(c) == locked \ {<<Home(c), key[c]>>}

\* Timers and cancellations of a run that is over concern nobody.
Forget(r) == cancelled' = cancelled \ {r} /\ fired' = fired \ {r}

\* The child's execute() returns, also after a cancellation, which it turns
\* into a timed-out result; then its usage is deducted.  A cancellation in the
\* second loop passes through: nothing is deducted (used = 0), and the parent
\* ends as well or has its timeout.
End(c) ==
  /\ pc[c] = "running" /\ c \in Sub \ helpers
  /\ Children(c) = {}
  /\ pc' = [pc EXCEPT ![c] = "ended"]
  /\ \E used \in 0 .. budget[c] :
       context' = [context EXCEPT ![source[c]].tokens =
                     IF used < @ THEN @ - used ELSE 0]
  /\ locked' = Unlock(c)
  /\ Forget(c)
  /\ UNCHANGED <<parent, task, current, source, budget, key, helpers, retried,
                 level>>

\* The top-level run or a helper returns: no key, no permit, no deduction.
Return(r) ==
  /\ pc[r] = "running" /\ r \in helpers \cup {Root}
  /\ Children(r) = {}
  /\ pc' = [pc EXCEPT ![r] = "ended"]
  /\ Forget(r)
  /\ UNCHANGED <<parent, task, current, context, source, budget, key, helpers,
                 retried, locked, level>>

\* Cancelled while it waits for its permit.
Withdraw(c) ==
  /\ pc[c] = "waiting" /\ c \in cancelled
  /\ pc' = [pc EXCEPT ![c] = "ended"]
  /\ locked' = locked \ {<<Home(c), key[c]>>}
  /\ Forget(c)
  /\ UNCHANGED <<parent, task, current, context, source, budget, key, helpers,
                 retried, level>>

\* The innermost runs below p: those a cancellation of p's call reaches.
Below(p) ==
  LET down[n \in Nat] ==
        IF n = 0 THEN {p}
        ELSE down[n - 1] \cup UNION {Children(q) : q \in down[n - 1]}
  IN (down[Cardinality(Run)] \cap Sub) \ {p}
\* Mutant: waiting runs are not reached.
InnermostRunning(p) ==
  {c \in Below(p) : pc[c] = "running" /\ Children(c) = {}}
Innermost(p) == {c \in Below(p) : Children(c) = {}}

\* tool_timeout_seconds of p's spawn call: the timer fires once.
ToolTimeout(p) ==
  /\ ToolTimeouts
  /\ pc[p] = "running" /\ Children(p) \ helpers # {} /\ p \notin fired
  /\ fired' = fired \cup {p}
  /\ cancelled' = cancelled \cup Innermost(p)
  /\ UNCHANGED <<pc, parent, task, current, context, source, budget, key,
                 helpers, retried, locked, level>>

Next ==
  \/ \E p \in Run, S \in SUBSET Sub, own \in BOOLEAN : Spawn(p, S, own)
  \/ \E p \in Run, c \in Sub : Help(p, c)
  \/ \E c \in Sub : Start(c) \/ End(c) \/ Withdraw(c)
  \/ \E r \in Run : Retry(r) \/ Return(r) \/ ToolTimeout(r)

Spec == Init /\ [][Next]_vars

\* Run loops are bounded, timers fire, and the semaphore wakes its waiters in
\* the order they came.
Fairness ==
  /\ \A c \in Sub : WF_vars(End(c)) /\ WF_vars(Withdraw(c)) /\ SF_vars(Start(c))
  /\ \A r \in Run : WF_vars(Return(r)) /\ WF_vars(ToolTimeout(r))

FairSpec == Spec /\ Fairness

-----------------------------------------------------------------------------
(* Properties *)

\* The documented limit: no run has more than max_nesting_depth ancestors.
LevelsLimited == \A r \in Run : pc[r] # "unused" => level[r] <= MaxDepth

\* What the code keeps: contexts are shared, copied into tasks and overwritten
\* by children, but a run is at most max_nesting_depth levels below the run
\* with whose fresh context its own began: the top-level run or one whose
\* verification was retried.  Only the depth of a helper is not checked, and
\* where the limit is 0 the top-level run may still start one.
DepthBounded ==
  \A c \in Sub : pc[c] # "unused" =>
    \/ level[c] <= level[Home(c)] + MaxDepth
    \/ c \in helpers /\ level[c] = 1

\* Never more sub-agents at work than permits, parents that only wait for
\* their children included, and cancellations do not lose count.  Helpers
\* need none.
PermitsRespected == Cardinality(Executing) <= Permits

\* A key is locked exactly as long as a run needs it, however that run ends.
\* No two sub-agents of one name space do the same work at the same time; in
\* the whole tree two may, but only when a verification was retried.
Claimants == {c \in Sub \ helpers : Live(c)}
KeysExclusive ==
  /\ locked = {<<Home(c), key[c]>> : c \in Claimants}
  /\ \A c, d \in Claimants : c # d /\ key[c] = key[d] =>
       Home(c) # Home(d) /\ {Home(c), Home(d)} \subseteq retried \cup {Root}

\* Cancelled or not, spawned runs take and give back permits and keys in step.
ClaimsSound == PermitsRespected /\ KeysExclusive

\* Every spawned run ends, although parents keep their permits while their
\* children wait for one.
SpawnsEnd == \A c \in Sub : Live(c) ~> pc[c] = "ended"
=============================================================================
