------------------------------ MODULE Workflow ------------------------------
(***************************************************************************)
(* The workflow engine (engine/workflow.py): runs that execute the steps   *)
(* of a workflow one after the other under a lock of the workflow, and an  *)
(* agent step under the lock of its agent too.                             *)
(*                                                                         *)
(* Everything runs in one asyncio loop.  A task keeps the loop until it    *)
(* awaits something that is not ready: an agent's run or a tool.  Skipped  *)
(* agents, conditions, transforms and noops never do, so a run goes through *)
(* them in one breath; turn says whose breath it is.  The timeout of the   *)
(* workflow can only strike a run that waits, and strikes once.            *)
(***************************************************************************)
EXTENDS Naturals, Sequences

CONSTANTS
  Runs,        \* calls of execute: cron, hooks, the API
  Workflows,   \* workflow ids, also those that are not loaded
  Agents,
  Def,         \* loaded workflows: id -> sequence of steps
  Nobody,      \* no run has the event loop
  Outages      \* TRUE when a write to the database may fail

StepTypes == {"agent", "tool", "condition", "plain"}

(* A step; next and gotos are positions, 0 where the code finds no step of *)
(* that id.  plain stands for transform and noop steps.                    *)
Step == [type : StepTypes, agent : Agents, onFailure : {"abort", "skip", "retry"},
         next : Nat, gotos : SUBSET Nat]

ASSUME WorkflowAssumption ==
  /\ Workflows \cap Agents = {}
  /\ Nobody \notin Runs
  /\ DOMAIN Def \subseteq Workflows
  /\ \A w \in DOMAIN Def : Def[w] \in Seq(Step)
  /\ \A w \in DOMAIN Def : \A i \in DOMAIN Def[w] :
       {Def[w][i].next} \cup Def[w][i].gotos \subseteq {0} \cup DOMAIN Def[w]
  /\ Outages \in BOOLEAN

VARIABLES
  locks,     \* dedup._running: keys of workflows and of agents
  turn,      \* the run whose task is executing, or Nobody
  pc,        \* where a run is
  wf,        \* the workflow it executes
  idx,       \* current_idx, counted from 1
  deadline,  \* asyncio.timeout of the run: armed, spent on an await that did not end, off
  results,   \* run.step_results: <<step, status>>
  stepRows,  \* workflow_run_steps: <<step, status>>, all writes having succeeded
  verdict,   \* run.status as returned to the caller
  row,       \* status column of workflow_runs
  others,    \* agents a run outside the workflows executes
  reaped,    \* history: agents whose lock the reaper released
  unsaved    \* history: runs whose first or last write failed

runVars == <<pc, wf, idx, deadline, results, stepRows, verdict, row, unsaved>>
vars == <<locks, turn, runVars, others, reaped>>

Statuses == {"completed", "failed", "skipped"}
Verdicts == {"none", "completed", "failed", "timeout", "skipped"}
Saved == IF Outages THEN BOOLEAN ELSE {TRUE}

Live(r) == pc[r] \in {"next", "agent", "tool"}
steps(r) == Def[wf[r]]
step(r) == steps(r)[idx[r]]
Flawed(r) == \E result \in results[r] : result[2] = "failed"

TypeOK ==
  /\ locks \in SUBSET (Workflows \cup Agents)
  /\ turn \in Runs \cup {Nobody}
  /\ pc \in [Runs -> {"new", "next", "agent", "tool", "ended", "dead"}]
  /\ wf \in [Runs -> Workflows]
  /\ idx \in [Runs -> Nat \ {0}]
  /\ deadline \in [Runs -> {"armed", "spent", "off"}]
  /\ results \in [Runs -> SUBSET (Nat \X Statuses)]
  /\ stepRows \in [Runs -> SUBSET (Nat \X Statuses)]
  /\ verdict \in [Runs -> Verdicts]
  /\ row \in [Runs -> Verdicts \cup {"running"}]
  /\ others \in SUBSET Agents
  /\ reaped \in SUBSET Agents
  /\ unsaved \in SUBSET Runs
  /\ \A r \in Runs : Live(r) => wf[r] \in DOMAIN Def
  /\ \A r \in Runs : pc[r] \in {"agent", "tool"} =>
       idx[r] \in DOMAIN steps(r) /\ step(r).type = pc[r]

Init ==
  /\ locks = {}
  /\ turn = Nobody
  /\ pc = [r \in Runs |-> "new"]
  /\ wf \in [Runs -> Workflows]
  /\ idx = [r \in Runs |-> 1]
  /\ deadline = [r \in Runs |-> "off"]
  /\ results = [r \in Runs |-> {}]
  /\ stepRows = [r \in Runs |-> {}]
  /\ verdict = [r \in Runs |-> "none"]
  /\ row = [r \in Runs |-> "none"]
  /\ others = {}
  /\ reaped = {}
  /\ unsaved = {}

-----------------------------------------------------------------------------
(* A call of execute *)

\* Mutant: the set is not consulted.
TryAcquireAnyway(key) == TRUE
TryAcquire(key) == key \notin locks

\* The workflow is not loaded: nothing is locked or recorded.
Unknown(r) ==
  /\ turn = Nobody /\ pc[r] = "new" /\ wf[r] \notin DOMAIN Def
  /\ pc' = [pc EXCEPT ![r] = "ended"]
  /\ verdict' = [verdict EXCEPT ![r] = "failed"]
  /\ UNCHANGED <<locks, turn, wf, idx, deadline, results, stepRows, row, unsaved,
                 others, reaped>>

\* The workflow is running already.
Refuse(r) ==
  /\ turn = Nobody /\ pc[r] = "new" /\ wf[r] \in DOMAIN Def
  /\ ~TryAcquire(wf[r])
  /\ pc' = [pc EXCEPT ![r] = "ended"]
  /\ verdict' = [verdict EXCEPT ![r] = "skipped"]
  /\ UNCHANGED <<locks, turn, wf, idx, deadline, results, stepRows, row, unsaved,
                 others, reaped>>

\* try_acquire, _persist_run_start and the start of the timeout.
Begin(r) ==
  /\ turn = Nobody /\ pc[r] = "new" /\ wf[r] \in DOMAIN Def
  /\ TryAcquire(wf[r])
  /\ locks' = locks \cup {wf[r]}
  /\ turn' = r
  /\ pc' = [pc EXCEPT ![r] = "next"]
  /\ deadline' = [deadline EXCEPT ![r] = "armed"]
  /\ \E ok \in Saved :
       /\ row' = [row EXCEPT ![r] = IF ok THEN "running" ELSE @]
       /\ unsaved' = IF ok THEN unsaved ELSE unsaved \cup {r}
  /\ UNCHANGED <<wf, idx, results, stepRows, verdict, others, reaped>>

(* The end of execute: the final status, _persist_run_end, which updates   *)
(* the row if there is one, and the release of the lock.  The locals of    *)
(* _execute_steps are gone.                                                *)
End(r, status, freed) ==
  /\ verdict' = [verdict EXCEPT ![r] = status]
  /\ \E ok \in Saved :
       /\ row' = [row EXCEPT ![r] = IF ok /\ @ = "running" THEN status ELSE @]
       /\ unsaved' = IF ok THEN unsaved ELSE unsaved \cup {r}
  /\ locks' = locks \ ({wf[r]} \cup freed)
  /\ pc' = [pc EXCEPT ![r] = "ended"]
  /\ deadline' = [deadline EXCEPT ![r] = "off"]
  /\ idx' = [idx EXCEPT ![r] = 1]
  /\ turn' = Nobody

-----------------------------------------------------------------------------
(* The loop of _execute_steps *)

(* What on_failure: skip makes of a failed result in memory.               *)
Relabelled(r, status) ==
  IF status = "failed" /\ step(r).onFailure = "skip" THEN "skipped" ELSE status

(* The step to go on with: a branch that names a step, else the step's     *)
(* next, else the following one.                                           *)
Target(r, goto) ==
  IF goto # 0 THEN goto ELSE IF step(r).next # 0 THEN step(r).next ELSE idx[r] + 1

\* Mutant: abort does not end the loop.
AbortsNever(r, status) == FALSE
Aborts(r, status) == status = "failed" /\ step(r).onFailure = "abort"

(* The step in hand ends with a status and a branch; freed is the lock of  *)
(* its agent, timer what is left of the timeout.  The row of the step is   *)
(* written before on_failure is looked at (a write that fails leaves it    *)
(* out, which nothing below could tell).  A failed step aborts the         *)
(* workflow or is passed over.                                             *)
Conclude(r, status, goto, freed, timer) ==
  /\ results' = [results EXCEPT ![r] = @ \cup {<<idx[r], Relabelled(r, status)>>}]
  /\ stepRows' = [stepRows EXCEPT ![r] = @ \cup {<<idx[r], status>>}]
  /\ UNCHANGED wf
  /\ \/ /\ Aborts(r, status)
        /\ End(r, "failed", freed)
     \/ /\ ~Aborts(r, status)
        /\ idx' = [idx EXCEPT ![r] = Target(r, goto)]
        /\ pc' = [pc EXCEPT ![r] = "next"]
        /\ turn' = r
        /\ deadline' = [deadline EXCEPT ![r] = timer]
        /\ locks' = locks \ freed
        /\ UNCHANGED <<verdict, row, unsaved>>
  /\ UNCHANGED <<others, reaped>>

(* A breath: the task of r is executing and stands before step idx.        *)
Before(r, type) ==
  /\ turn = r /\ pc[r] = "next"
  /\ idx[r] \in DOMAIN steps(r)
  /\ step(r).type = type

\* Mutant: the last step decides.
FinalOfLast(r) == IF <<Len(steps(r)), "failed">> \in results[r] THEN "failed" ELSE "completed"
Final(r) == IF Flawed(r) THEN "failed" ELSE "completed"

\* No step is left: completed, or failed if a failed step was passed over.
Finish(r) ==
  /\ turn = r /\ pc[r] = "next" /\ idx[r] \notin DOMAIN steps(r)
  /\ End(r, Final(r), {})
  /\ UNCHANGED <<wf, results, stepRows, others, reaped>>

\* The agent of the step is running elsewhere.
AgentBusy(r) ==
  /\ Before(r, "agent")
  /\ ~TryAcquire(step(r).agent)
  /\ Conclude(r, "skipped", 0, {}, deadline[r])

\* The agent has no configuration.
AgentMissing(r) ==
  /\ Before(r, "agent")
  /\ Conclude(r, "failed", 0, {}, deadline[r])

\* The agent is locked and runner.execute awaited.
AgentStarts(r) ==
  /\ Before(r, "agent")
  /\ TryAcquire(step(r).agent)
  /\ locks' = locks \cup {step(r).agent}
  /\ pc' = [pc EXCEPT ![r] = "agent"]
  /\ turn' = Nobody
  /\ UNCHANGED <<wf, idx, deadline, results, stepRows, verdict, row, unsaved,
                 others, reaped>>

\* The tool is awaited ...
ToolStarts(r) ==
  /\ Before(r, "tool")
  /\ pc' = [pc EXCEPT ![r] = "tool"]
  /\ turn' = Nobody
  /\ UNCHANGED <<locks, wf, idx, deadline, results, stepRows, verdict, row, unsaved,
                 others, reaped>>

\* ... or has its result or error without waiting for anything.
ToolAtOnce(r) ==
  /\ Before(r, "tool")
  /\ \E status \in {"completed", "failed"} : Conclude(r, status, 0, {}, deadline[r])

\* The first branch that holds, or none.
Condition(r) ==
  /\ Before(r, "condition")
  /\ \E goto \in step(r).gotos : Conclude(r, "completed", goto, {}, deadline[r])

\* transform and noop.
Plain(r) ==
  /\ Before(r, "plain")
  /\ Conclude(r, "completed", 0, {}, deadline[r])

Waits(r) == turn = Nobody /\ pc[r] \in {"agent", "tool"}
\* Mutant: the lock of the agent is released only after the run has ended well.
FreedNone(r) == {}
Freed(r) == IF pc[r] = "agent" THEN {step(r).agent} ELSE {}

\* The agent's run has ended and is delivered, or the tool has a result; both
\* have timeouts of their own.  A run that is not completed, an exception and
\* an error in the result are failures.
StepEnds(r) ==
  /\ Waits(r)
  /\ \E status \in {"completed", "failed"} :
       Conclude(r, status, 0, Freed(r), deadline[r])

-----------------------------------------------------------------------------
(* The timeout of the workflow cancels the task where it waits. *)

\* The cancellation reaches execute: the step has no result.
TimesOut(r) ==
  /\ Waits(r) /\ deadline[r] = "armed"
  /\ End(r, "timeout", Freed(r))
  /\ UNCHANGED <<wf, results, stepRows, others, reaped>>

\* AgentRunner.execute takes the cancellation for its own timeout and returns
\* a run that has timed out: a failed step, and no TimeoutError any more.
TakenForAgentTimeout(r) ==
  /\ Waits(r) /\ deadline[r] = "armed" /\ pc[r] = "agent"
  /\ Conclude(r, "failed", 0, Freed(r), "spent")

\* A library below the agent swallows it, and the run goes on.
Swallowed(r) ==
  /\ Waits(r) /\ deadline[r] = "armed" /\ pc[r] = "agent"
  /\ deadline' = [deadline EXCEPT ![r] = "spent"]
  /\ UNCHANGED <<locks, turn, pc, wf, idx, results, stepRows, verdict, row, unsaved,
                 others, reaped>>

-----------------------------------------------------------------------------
(* The rest of the engine, and the process *)

OtherLock(a) ==
  /\ turn = Nobody /\ a \notin locks
  /\ locks' = locks \cup {a}
  /\ others' = others \cup {a}
  /\ UNCHANGED <<turn, runVars, reaped>>

OtherUnlock(a) ==
  /\ turn = Nobody /\ a \in others
  /\ locks' = locks \ {a}
  /\ others' = others \ {a}
  /\ UNCHANGED <<turn, runVars, reaped>>

\* The reaper, in a thread, releases the lock of an agent with an old row.
Reap(a) ==
  /\ a \in locks
  /\ locks' = locks \ {a}
  /\ reaped' = reaped \cup {a}
  /\ UNCHANGED <<turn, runVars, others>>

\* Nothing looks at the rows of workflows when the daemon comes back.
Crash ==
  /\ locks' = {}
  /\ turn' = Nobody
  /\ pc' = [r \in Runs |-> IF Live(r) THEN "dead" ELSE pc[r]]
  /\ deadline' = [r \in Runs |-> "off"]
  /\ idx' = [r \in Runs |-> 1]
  /\ results' = [r \in Runs |-> IF Live(r) THEN {} ELSE results[r]]
  /\ others' = {}
  /\ UNCHANGED <<wf, stepRows, verdict, row, unsaved, reaped>>

Breath(r) ==
  \/ Finish(r) \/ AgentBusy(r) \/ AgentStarts(r)
  \/ ToolStarts(r) \/ ToolAtOnce(r) \/ Condition(r) \/ Plain(r)

\* Mutant: only agent steps are under the timeout.
StrikeAgents(r) == TakenForAgentTimeout(r) \/ Swallowed(r)
Strike(r) == TimesOut(r) \/ TakenForAgentTimeout(r) \/ Swallowed(r)

Next ==
  \/ \E r \in Runs : Unknown(r) \/ Refuse(r) \/ Begin(r) \/ Breath(r)
                     \/ AgentMissing(r) \/ StepEnds(r) \/ Strike(r)
  \/ \E a \in Agents : OtherLock(a) \/ OtherUnlock(a) \/ Reap(a)
  \/ Crash

Spec == Init /\ [][Next]_vars

\* A task goes on until it waits (a missing configuration is nobody's duty);
\* agents and tools end by timeouts of their own, and timers fire, whenever the
\* loop is free often enough.
Fairness == \A r \in Runs : /\ WF_vars(Breath(r))
                            /\ SF_vars(StepEnds(r))
                            /\ SF_vars(Strike(r))
FairSpec == Spec /\ Fairness

-----------------------------------------------------------------------------
(* Properties *)

\* No lock stays behind: every key in the set belongs to a workflow that is
\* under way, to an agent step that is executing, or to a run elsewhere.
NoLeakedLock ==
  \A k \in locks : \/ \E r \in Runs : Live(r) /\ wf[r] = k
                   \/ \E r \in Runs : pc[r] = "agent" /\ step(r).agent = k
                   \/ k \in others

\* An agent executes in one place at a time, among the steps of all workflows
\* and the runs elsewhere, unless the reaper has released its lock.
Executing(r, a) == pc[r] = "agent" /\ step(r).agent = a
AgentExclusive ==
  \A a \in Agents \ reaped : \A r \in Runs :
    Executing(r, a) => a \notin others /\ \A s \in Runs \ {r} : ~Executing(s, a)

\* A key is locked exactly while somebody needs it.
LocksSound == NoLeakedLock /\ AgentExclusive

\* The returned status, the row of the run and the rows of its steps tell one
\* story: completed leaves no failed result, a failed step in the rows of a
\* completed run was passed over by on_failure: skip, and the row differs from
\* the status only if a write failed or the process died.
OneStory ==
  \A r \in Runs :
    /\ verdict[r] = "completed" =>
         /\ ~Flawed(r)
         /\ \A i \in DOMAIN steps(r) :
              <<i, "failed">> \in stepRows[r] => steps(r)[i].onFailure = "skip"
    /\ row[r] \in {"none", verdict[r]} \/ Live(r) \/ pc[r] = "dead" \/ r \in unsaved
    /\ row[r] = "completed" => verdict[r] = "completed"

\* After a step with on_failure: abort has failed, nothing else of the workflow
\* is executed: no further result, and no agent locked on its behalf.
Aborted(r) == \E result \in results[r] :
                result[2] = "failed" /\ steps(r)[result[1]].onFailure = "abort"
AbortStops ==
  [][\A r \in Runs : pc[r] # "new" /\ Aborted(r) =>
       results'[r] = results[r] /\ pc'[r] \notin {"agent", "tool"}]_vars

\* A workflow run ends if the event loop keeps coming free: an endless loop of
\* steps is ended by the timeout, unless an agent step has taken its only
\* cancellation for its own.  (A loop of steps that never wait holds the event
\* loop, and no timeout can strike.)
RunsEnd ==
  []<>(turn = Nobody) =>
    \A r \in Runs : Live(r) ~> ~Live(r) \/ deadline[r] = "spent"

\* A run gives the event loop back, unless its workflow jumps backwards.
Forward(w) == \A i \in DOMAIN Def[w] :
                \A t \in {Def[w][i].next} \cup Def[w][i].gotos : t = 0 \/ t > i
StraightRunsYield ==
  \A r \in Runs : wf[r] \in DOMAIN Def /\ Forward(wf[r]) => (turn = r ~> turn # r)

\* A run comes to its end, and leaves room to others on the way.
RunsProgress == RunsEnd /\ StraightRunsYield

\* What the caller of a run can know of it.
Phase(r) ==
  CASE pc[r] = "new" -> "new"
    [] Live(r) -> "running"
    [] pc[r] = "dead" -> "lost"
    [] pc[r] = "ended" /\ (verdict[r] = "skipped" \/ wf[r] \notin DOMAIN Def) -> "refused"
    [] OTHER -> verdict[r]
phase == [r \in Runs |-> Phase(r)]
blemished == [r \in Runs |-> Flawed(r)]

\* The engine keeps what WorkflowPromise says.
Promise == INSTANCE WorkflowPromise WITH
  phase <- phase, work <- wf, blemished <- blemished
KeepsPromise == Promise!Spec
=============================================================================
