# Verification of the Robothor agent engine

This directory holds TLA+ models of the concurrent core of Robothor, the TLC
configurations that check them on small instances, and TLAPS proofs of their
safety properties for every value of the constants. Line numbers refer to the
sources at the commit the models were written against, below `src/robothor/`
unless a longer path is given. `PROJECT.json` lists components, runs, mutants,
the definition-to-source map, hazards and theorems.

    tlc -workers 2 -config MCRunLocks_locks.cfg MCRunLocks
    tlapm RunnerProofs.tla

## The system

Robothor is one asyncio daemon (the *engine*) that runs LLM agents, around a
PostgreSQL database (CRM, run records, schedules, memory) and Redis streams
(events). A reaper and other watch loops run beside it, some in threads.

| part | state it keeps | operations | hard behaviour |
|---|---|---|---|
| scheduler (`engine/scheduler.py`), locks (`engine/dedup.py`), tracking (`engine/tracking.py`) | set of locked keys in memory; rows of `agent_runs` and `agent_schedules` | cron and heartbeat runs, circuit breaker, safety timeout | runs of one agent triggered from four sides; row updates after the lock is gone |
| daemon (`engine/daemon.py`) | none of its own | startup, stale-run reaper, watch loop | reaps rows and releases locks it does not own; crash and restart |
| event hooks (`engine/hooks.py`) | consumer group cursor and pending entries in Redis, retry count in the entry | read, match triggers, run agents, retry or dead-letter, acknowledge | at-most-once after a crash, busy agents, partial failure of a batch |
| event bus (`events/bus.py`, `events/consumers/`) | streams and groups | publish, subscribe | failed entries stay pending |
| CRM tasks (`crm/dal.py`, `engine/tools/handlers/crm.py`) | `crm_tasks`, `crm_task_history` | create, update, resolve, approve, reject, delete | decisions on unlocked reads |
| spawning (`engine/tools/handlers/spawn.py`) | context variable per task, semaphore, sub-agent keys | spawn one or several | shared contexts, nested permits, cancellation |
| runner (`engine/runner.py`, `engine/session.py`, `engine/escalation.py`, `engine/checkpoint.py`) | a session per run, its messages and counters, checkpoints, one shared `_active_watchdog` | execute, loop, verify, resume, finish, persist | stall watchdog, swallowed cancellations, budgets, a second loop that does not know the first one's mode |
| workflow engine (`engine/workflow.py`) | run and step rows, locks | execute steps, branch, persist | failure policies, loops, timeouts, a lock shared with everything else |
| guardrails, hook registry, permission escalation | policies and hooks; pending requests, session grants | check, dispatch, ask, answer, expire | an answer against its timeout; who overrules whom |
| chat (`engine/chat.py`, `engine/chat_store.py`) | session per key: history, active task, plan; a row in the database | send, deep, inject, plan, approve, revise, reject, abort, clear | overlapping messages, late and failed writes, restarts |
| memory (`memory/`), autodream (`engine/autodream.py`) | `memory_facts`, two Redis locks | ingest, resolve conflicts, consolidate, prune, sweep | processes that share a table and seldom a lock |
| MCP client (`engine/mcp_client.py`) | a pool of sessions, their processes and pipes | start, initialize, call, cancel | answers matched by order alone; timeouts and cancellations between them |
| federation (`federation/`) | connections, event journal, hybrid clock | invite, connect, sync | reordered and repeated events |
| vision, health, vault, RAG, API, CLI, TUI, web app | databases, caches | pipelines and CRUD | mostly sequential |

How they interact: cron, hooks, workflows and downstream triggers all take the
same in-memory lock before `AgentRunner.execute`; runs call tools through hooks,
policies and a human, and the tools spawn further runs, update CRM tasks, ask MCP
servers and publish events; events start hooks; `execute` creates a run row and
closes it in the background; the reaper looks at the rows and releases the locks;
ingest runs and idle times start consolidation.

What makes each part correct, in a sentence: an agent does not run twice at the
same time and its lock never stays behind; every event is handled by each agent
it is meant for or leaves a reason why not; a task's status and its audit trail
tell the same, legal story; a tree of runs respects depth, permits and keys and
comes to an end; a run is killed when it stalls and only then; the conversation
it sends is one a provider takes, and its limits bind; a workflow's rows tell
what its steps did; no sensitive tool runs unasked; what a user removed or
approved stays so; no knowledge vanishes, and what is believed twice has a cause;
an MCP call gets its own answer.

## The modules

An MC module extends the module of its name and gives TLC its instance; a module
named ...Proofs holds the theorems. `Runs` declares the constant that the four
modules of the runner share.

**`RunLocks`** - who may run an agent. `running` is `dedup._running`, `row` the
status column of `agent_runs` (with `overdue` for a row older than the reaper's
30 minutes), `errors` the column `consecutive_errors`, `stage` where a run is
between the trigger and the `finally` block. Actions follow a run (`Acquire`,
`Record`, `FirstCall`, `Finish`, `Settle`, the background `Persist`, the
early exits `Skip`, `BreakerSkip`, `SetupRaises` and `SafetyTimeout`), the
reaper (`Reap`, then `ReapRelease` per agent, as the thread does it) and the
process (`Crash`, `Restart`). With `Outages` a database call may fail after its
retries, at each place where the code catches that.

**`SpawnTree`** - the tree below one top-level run. `current` is the context
variable of each asyncio task, `context` the SpawnContext objects: depth, tokens
left and `home`, the run id that is the name space of dedup keys. A run is given
one by its parent (`First`); when its verification is retried (`Retry`) and it may
spawn, it goes on with a fresh one of its own (`Second`). `Spawn` covers both
tools, with the member running in the parent's task or in one of its own; `Help`
is `_spawn_recovery_helper`, whose child takes neither key nor permit.
`ToolTimeout` cancels what is innermost below the call; a running child turns that
into a result (`End`), a waiting one withdraws.

**`StallWatchdog`** - the watchdogs of the runs of one AgentRunner. `active` is
the shared attribute, `idle` the time since a watchdog was last touched,
`flagged` its abort event. `Fire` and `HardTimeout` cancel an asyncio task; what
that task executes, possibly a sub-agent, ends as timed out, or the library it
waits in swallows the cancellation.

**`AgentLoop`** - the conversation loop. `tail` is the last assistant message
that called tools with what followed it: of each result the call it is `of`,
whether it still has its `own` content, and the `note` that the engine put after
it. `at` is the place in `_run_loop` or `execute`; the head of an iteration
decides between abort flag, cap, hard stop and the next call; each tool call has
one of four outcomes (`TurnedDown`, `Blocked`, `Succeeds`, `Fails`); recovery,
escalation and the checkpoint follow. `Rejected` runs the loop once more for the
verifier, `Resume` starts a run from `saved`. `strayed` records who executed what
plan mode does not allow: the run itself, or a recovery helper, which has all its
tools (`HelperActs`). A set of allowed tools that is empty guards nothing.

**`EventHooks`** on **`RedisStream`** - the consumer loop on one stream. The
stream module has the log, the group cursor, pending and acknowledged entries,
as Redis keeps them (it is external to the repository). `EventHooks` has an
action per step of the loop, gathered in `Handle`: triggers, the workflow and
agents downstream of them, copies and dead letters, acknowledgement; `Crash`
forgets the batch in hand, `ReadLost` is a reply of Redis that does not arrive.
The lock set is shared with everything RunLocks describes, which appears here as
`OtherLock` and `Unlock` at any moment.

**`Workflow`** implementing **`WorkflowPromise`** - calls of `execute`. A run
keeps the event loop until it awaits something that is not ready, so `Breath` is
what it does in one go and `turn` says whose it is; `StepEnds` is an agent or a
tool that returns, `Strike` the timeout of the workflow. `locks` are the keys of
workflows and agents, `row` and the step rows what is stored, `step` and
`onFailure` the definition, with jumps by position. The promise knows neither
steps nor locks nor rows: a workflow has one run at a time, a run ends once, and
its status tells whether a step failed for good.

**`TaskLifecycle`** - the task state machine. A call of `update_task`,
`resolve_task`, `approve_task`, `reject_task` or the create tool is a `Begin...`
(the unlocked SELECT and every check) and a `Commit` (the UPDATE with the row
lock, the history record and the commit), with anything of other calls in
between, because that is what READ COMMITTED allows. A task is created by one of
three routes: the engine's tool, which looks everywhere for the thread id, the
bridge, which looks among one agent's open tasks, or a caller that does not look
(the MCP server). Deletion, a new body (`Edit`) and a new assignee change what the
lookups see; `past` records what happened to a task behind their back.

**`ToolGate`** - a tool call's way to its tool: blocking hooks by priority, with
their chain mode, then the policies in order, then the human. `Call` begins a
call, `Act` is the next thing the run does, `Delivered` a prompt that reaches
the human, `Press` a button, at any time and more than once; `pressed` and
`expired` say what became of a request, `grants` are the session's "Approve
All". `Managers` says whether the permission manager exists at all.

**`ChatSession`** - one session. A POST starts a task (`chat_send`, `plan_start`,
`plan_approve`, `plan_iterate`), `active` is the last one started, `Step` what a
task does between two awaits. `plan`, its status and hash, the history and the
row in the database are changed by the tasks and by `plan_reject`, `chat_clear`,
`chat_inject`, `chat_abort`, `Expire`; writes are in `saves` until they `Land`,
in any order, or fail; `Restart` loads the row.

**`MemoryFacts`** - the table `memory_facts`. A fact `says` a set of claims: its
own, or those of the facts it summarises. `IngestStep` finds and stores, replaces
or confirms a fact; `DreamStep` takes a consolidation run from its lock through
pruning, merging and the sweep to the release; `night` and `idle` are the
maintenance lock and the autodream lock in Redis, which may lapse. An ingestion
may bring what a fact says already, or what was replaced: nothing in the code
stops that, and `repeated` records it.

**`McpPool`** - one server. A session has its pipes (`stdin`, `stdout`), the
order in which calls wait for its lock (`line`), whether a frame was read in part
(`torn`), how many answers it is `behind` and how many requests the server
`skipped`. Calls start, wait, write, drain, receive, time out and are cancelled; the
server answers, leaves out, speaks unasked, stops reading or dies. A write whose
drain does not return at once waits at a place of its own, under the lock.

## The runs

| run | instance | states | shows |
|---|---|---|---|
| `locks` | 2 runs of one agent, any kinds; threshold 1; database outages; crashes; fair | 293k | `KeysSound`: two runs share a key only if the reaper released it, heartbeats never do, no lock leaks. `BreakerHolds`. `TracesSettle`: locks drain, rows settle |
| `spawns` | 3 sub-agents, helpers among them, depth 2, 1 permit, batches of 2, retried verifications, tool timeouts; fair | 240k | `DepthBounded`: below the home of its context; `ClaimsSound`: permits and keys are held by those who need them; `SpawnsEnd` although parents keep permits |
| `spawn_depth` | the same with 3 permits; violated | - | finds a run three levels down where two are allowed: `LevelsLimited`, the documented limit, does not survive a retried verification |
| `watchdog` | 2 runs, side by side or nested; stall limit 2, hard timeout 4, cap 3; fair | 506k | `NoStrayWatchdog`, `LatestKilledOnlyIfIdle`, `RunsEnd` |
| `loop` | plan mode with a helper, with checkpoints and without a read-only tool; hard budget, checkpoints, feedback; batches of 2; fair | 465k | `ConversationSound`: calls answered in order, only todo_write overwrites, notes inside a batch have a cause. `LimitsBind`, `PlanReadsOnly`, `EndsRecorded`, `RunEnds` |
| `hooks` | 2 events, a trigger with a downstream agent, 1 retry, crashes, Redis errors; fair | 957k | `RetriesEnd`; `NoEntryLost`: nothing skipped or stranded but by faults, failures live on; `EventAccounted`; `EveryEventSettles` |
| `workflow` | 2 calls of a straight, a looping and a missing workflow; outages; crash; fair | 125k | `LocksSound`, `OneStory`, `AbortStops`, `RunsProgress`, and `KeepsPromise`, the refinement of `WorkflowPromise` |
| `tasks` | 2 tasks, 3 overlapping calls, every route of creation, changes of key and assignee | 1.1M | `TrailTells`: records are arrows and match the status. `ResolvedWasDone`, `DuplicatesAccounted`, `OnlyStaleCallsBreak` |
| `gate` | 2 runs of one agent, 2 chain hooks and a short-circuit one, 3 policies, with and without a manager; fair | 85k | `Consent`, `ObjectionsHeard`, `GateOpens` |
| `chat` | 3 requests, 2 live at once, 1 clear, restart or failed write | 1.8M | `RemovalsStick`, `ExecutesApproved`, `AbortReaches`, `PendingPlanKept` |
| `memory` | 2 facts, 1 ingestion that repeats one of them, 2 consolidation runs (light or nightly, intraday or deep), 1 claim pruned, 1 lapsed lock | 2.8M | `KnowledgeKept`: nothing forgotten, lineage sound. `BeliefsExplained`: copies have a cause, what is outdated stays out. `LocksHold` |
| `mcp` | 3 calls, 2 processes, 1 message unasked or left out; fair | 1.6M | `AnswersInStep`: a call gets its own answer until a request is given up. `ProcessesPooled`; `CallsEnd`: unless blocked in a drain, or behind one |

Every property has a mutant in `PROJECT.json`: a change of one mapped definition,
as a bug would make it, that breaks it in its run.

Why the bounds are enough. Exclusion, overlap of calls, a task beside another,
two consolidation runs, old against new watchdog are about pairs: two runs, or
three calls so that a third one meets the damage of two, show every order of
their steps. Two locking runs with a threshold of 1 reach the breaker and pass
it. Two events, one retry and batches of two give a batch with a failed first and
a good second entry, a copy behind a new event, and a dead letter. Depth 2 with
three sub-agents has a child with a child beside another child, which with one
permit is the deadlock of the semaphore, and a helper or a retry at each level.
Tasks begin `IN_PROGRESS` there (`Initial`), from where every other status is
one call away. The thresholds of
`loop` are scaled down so that two or three iterations cross each of them. The
memory instance has a fact to replace, one to merge and a decision that pruning
must not touch; three facts make a group with a summary of a summary. Two
ingestions beside two runs have more than 20 million states; the theorems are for
any number. Three calls on two MCP processes give a queue, a restart and a call that
comes too late. For safety none of these bounds matters any more where a theorem is
listed below.
Symmetry is used for safety only. Deadlock checking is off for the models that
come to an end when every call or run is used up; the others have a step in every
state.

### Fairness

Only steps the code drives itself are fair. Runs end because every await of a
run is under a hard, stall or safety timeout; the reaper runs every 20 minutes;
systemd restarts the daemon (strong fairness of `Restart`, and of `Start` in
`EventHooks`); the database and Redis answer again and again (strong fairness of
`Reap` and `Read`). A spawned run is granted a permit by a FIFO semaphore (strong
fairness of `Start` in `SpawnTree`), and tool timeouts fire. In `StallWatchdog`
time passes, watchdogs look and the loop goes on, but no model or tool ever has
to answer. In `AgentLoop` model calls and tools end by timeouts of their own. In
`Workflow` a run goes on until it waits; steps end and timers fire whenever the
event loop is free often enough (strong fairness). In `ToolGate` handlers, tools
and the wait for the human are bounded, the human does nothing in particular. In
`McpPool` the client goes on, its timeouts fire, and a drain ends when the server
has read everything or is dead (`Held`); the server owes nothing, not even to read,
and nobody has to cancel.

## The proofs

55 theorems in eight modules. They hold for any sets and numbers that satisfy the
named assumptions of the modules: caps and bounds are naturals, thresholds
positive, `None`, `Nobody` and the like outside the sets they complete, agents'
tools among the tools, steps of a workflow that jump within it. Every safety
invariant and every action property that a run checks is
stated by a theorem, and so is the refinement `KeepsPromise`.

**`RunnerProofs`** is about the four modules of the runner.

*RunLocks.* `KeysAreSound` and its parts `ExclusionUntilReaped`, `NoLockLeaks`,
`HeartbeatExclusion` from `LockInv`. `ExclusiveUntilReaped` alone is not
inductive: that a run may not begin while its key is taken helps only if each
holder's key is still in the set. `HolderRegistered` adds that, up to the keys the
reaper has released, and `ReapedOrdinary` that these are never heartbeat keys.
`BreakerThreshold` needs `CountBelow`: a scheduled run under way on a key that is
neither reaped nor taken blindly found the count below the threshold, and
exclusion keeps anybody else from raising it since.

*SpawnTree.* `ClaimsAreSound` with `PermitBound` and `KeyExclusion`, inductions
over who executes and who holds a key of which name space: the home of every
context is the top-level run or one that was retried (`HomesKnown`), so two runs
with one key stand in different name spaces. `DepthLimit`: the code compares the
limit with a depth it reads from whatever context the task's variable names at the
moment, and a child executed in its parent's task overwrites it. `DepthInv` says
that no context a run is given, or reads, is less deep than the run is below the
home of that context (`GivenDeepEnough`, `CurrentDeepEnough`), and that a task
names only contexts of runs that were spawned or retried (`CurrentsKnown`).
Everything that shares a task lies on one path of the tree (`TaskIsPath` in
`TreeInv`) whose runs are all alive (`ParentRuns`): the overwritten variable can
refuse a spawn too early, never too late. The levels of the whole tree are not
bounded: see `spawn_depth`.

*StallWatchdog.* `WatchdogsEnd` (`NoStrayWatchdog`), and `LatestKilledFairly`
from `LatestInv`: nothing executes in the task of the run that began last but
itself (`LatestAlone`, from `NotYetParent`), its watchdog never counts more idle
time than the run has had (`IdleIsQuiet`), and once flagged it is at the top of
its loop until it sees the flag (`FlaggedOverdue`).

*AgentLoop.* `LoopInv` has four parts. `LoopBase` has the types, that an
iteration goes on below the cap only, that between two calls one is left to
answer, and that a helper is asked for below its limit. `Conversation` gives
`ConversationsAreSound`: the lemmas `Recording` and `Overwriting` say what
`record_tool_call` and the interception of todo_write do to a batch, `Answering`
joins them, and `TailSteps` sorts the steps of the loop into those that keep the
batch, take one or answer a call. `Overruns` and `ErrorCount` give
`LimitsAreBinding`: an answer past the budget has an iteration behind it that
`pastIters` counts, and during a batch the errors are fewer than the limit plus
the calls answered so far. `PlansOnlyRead` needs `PlanInv`: the loop of the
verification is not told of plan mode, but keeps the schemas, so that a run of
plan mode executes nothing else itself; an empty set of tools guards nothing, but
then the model is offered none. A helper does execute others, and is asked for in
that loop only. `EndsAreRecorded` is
inductive as it stands.

**`EventHooksProofs`.** `NoEntriesLost`, with `OnlyFaultsStrand`,
`NoEntrySkipped` (`StreamInv`) and `FailuresLiveOn` (`CopyAtHand`: a failed entry
about to be acknowledged has its copy, or the reason why it has none).
`RetriesAllEnd`, with `RetriesBounded` and `DeadLettersExhausted`, rests on
`RetryInv`: an event is never alive twice (`AliveOnce`), the entry that is alive
has its highest attempt, and the dispatches counted so far do not exceed that
attempt; crashes end lives and begin none, since nothing pending is read again.
`DeadInv` adds that every attempt below an entry's own had a failing trigger.
`EventsAccounted` joins them with `HandInv` in `AccountInv`: an event with no
entry that is unread or pending is closed.

**`TaskLifecycleProofs`.** `TrailTellsStatus` (with `TrailIsArrows`,
`StatusIsRecorded`) and `ResolvedMeansDone` rest on `TrailInv`. Its core is
`PlansSound`, what remains true of a decided call whatever the others do in the
meantime: it takes an arrow or keeps its status, stamps `resolved_at` with DONE
only, and if it saw DONE the trail says so for good. `StaleCallsOnly` proves the
action property from the same invariant. `DuplicatesExplained` adds `KeyInv`: an
open task with `resolved_at` was reopened (`ReopenedSeen`), and of two live keyed
tasks without it one got its key unseen, or was looked up among another agent's
tasks only (`KeysSeen`).

**`WorkflowProofs`.** One invariant, `WorkflowInv`, for all of it. `Held`: a run
under way has its workflow's key in the set, and an agent step its agent's unless
the reaper took it, which gives `WorkflowLocks`. `Recorded`, `RowsTold`,
`VerdictTrue`, `RowTrue` and `RowComplete` follow a step's result from memory to
the rows and to the returned status (`StoriesAgree`); `AbortedOver`: a run with
an aborting failure is over (`AbortsAreFinal`). `EngineKeepsPromise` maps the
runs to the promise's and shows that every step of the engine is a step of the
promise or stutters: `Refuse` and `Unknown` need `Held`, an ending the agreement
of the verdict with the recorded steps.

**`ToolGateProofs`.** `OnlyWithConsent`: that an approved request was approved by
the first press in time helps only if nobody pressed, answered or gave up on it
before it was asked (`Fresh`), and if what is open was never pressed and what has
expired is not pending (`Answered`). `NothingPassedOver` needs what the hooks
said from the first hook on (`HooksNoted`), the objections of a call from the
moment it is checked (`PoliciesNoted`), and that an idle run has none (`Quiet`).

**`ChatSessionProofs`.** `ApprovedIsExecuted` needs that a plan's hash is that of
the text it was proposed with, missing only after a restart (`HashKept`), that a
plan being carried out is not pending (`Decided`), and that until an approved task
begins the plan's text is the approved one or a revision that came before
(`TextApproved`). `RemovalsAreFinal` needs `GoneInv`: a plan that was taken away is
over and not current, and nothing under way or stored makes it pending unless a
removal is still to land; and `OldInv`, the same of a cleared exchange.
`LoneTaskReached` and `PendingPlansStay` are action properties over the same base:
tasks aim at the plans they began with (`Aimed`) and begin in the order in which
they were created (`BegunInOrder`).

**`MemoryFactsProofs`.** The lemmas `RowSteps` and `BeliefSteps` reduce every step
to what it does to the rows (one added, dropped or replaced) and to what is
believed (told, summed up, kept or outdated); the invariants are then about those
few shapes. `BeliefsAreExplained` needs `Heirs`: while a summary takes over from
its sources, only they share a claim with it, unless the claim is among the
`Excused` (a merge failed half way or came late, or an ingestion brought what was
said or replaced before). It assumes nothing about what ingestions bring.
`KnowledgeIsKept` uses `Remembered` and `LineageSound`, `LocksAreHeld` that until it
lapses a lock is held by whoever does what it guards (`NightHeld`, `IdleHeld`).

**`McpPoolProofs`.** `AnswersStayInStep` from `Sound`, a statement about one
session and the calls in its line: what is in the pipes is what its holder has
asked for, if it has, behind the answers nobody waits for, less those the server
skipped. The lemmas are about one
session before and after a step. `ProcessesArePooled` needs the places of calls
that are starting a process.

What stays with TLC: everything temporal under fairness (`TracesSettle`,
`SpawnsEnd`, `RunsEnd`, `RunEnds`, `EveryEventSettles`, `RunsProgress`,
`GateOpens`, `CallsEnd`), because the prover reaches neither liveness under
fairness nor ENABLED.

## Seen while modelling

The properties say what the code does keep. Where it keeps less than a comment, a
docstring or a reader would expect, they carry the exception; these are the ones
worth a look.

*Runs.* The reaper releases the lock of the agent of each overdue row
(`engine/daemon.py:85`), also when the run still works, so two runs of one agent
may overlap. A run that is responding may be killed because its responses touch
the watchdog of a run that started later (`engine/runner.py:475`). The children
of a batch each get all that is left of a budget, and nothing left counts as no
limit (`spawn.py:181`, `runner.py:460`). After `spawn_agent` has returned, the
parent's context variable names the child's context (`runner.py:906`). A child
whose verification is retried loses the context it was given
(`runner.py:663`, `2390`): it goes on at depth 0 and in a name space of its own
(`runner.py:907`), so its tree may be deeper than `docs/agents/schema.yaml` says,
and the same sub-agent may run twice at once. A recovery helper takes no permit
and no key, and its depth is not checked (`runner.py:2115`). A run that
leaves its loop by the watchdog's flag is recorded as completed
(`runner.py:1001`). Rows of runs that reached their first model call are reaped
with the message that they did not (`daemon.py:76`).

*The loop.* The nudge of plan mode "only fires once" but repeats, as its path
skips the iteration counter (`runner.py:1253`). The interception of todo_write
writes into the message before its own result (`runner.py:1542`). A note about a
failing tool lands between the results of a batch. The checkpoint test
`success_count % 5 == 0` can be jumped over by a batch; helpers that fail are not
counted. The verification runs outside the handler, without plan mode and without
the hard budget: a run cancelled there stays `running`, and a hard budget allows
as much as a soft one. In a plan run it may start a recovery helper with all its
tools (`runner.py:1697`), and where plan mode leaves no tool at all the names are
not checked any more (`runner.py:1316`: an empty set guards nothing). Resuming
drops the new user message and does not ask whether the run is over.

*Events and tasks.* An agent that is busy when its event comes up is skipped and
the event acknowledged (`engine/hooks.py:261`). Two overlapping calls can move a
task from DONE to REVIEW (`crm/dal.py:1219`). Only `resolve_task` looks at
`requires_human` (`dal.py:1205`). A task reopened more than 72 hours after it was
resolved is invisible to deduplication (`dal.py:943`). The MCP server's
create_task looks for no duplicate (`api/mcp.py:1230`); the bridge looks among one
agent's open tasks (`src/crm/bridge/routers/notes_tasks.py:128`), which
`test_dal_tasks.py:281` wants so; and an update may put any thread id into a body.

*Workflows.* `retry` is accepted as a failure policy and never retries
(`engine/models.py`, around 510). Nothing cleans up rows left `running` by a
crash. A cycle of steps that never wait blocks the event loop.

*Tool calls.* Nothing creates the permission manager
(`permission_escalation.py:252` has no caller), so sensitive tools run although
`guardrails.py:56` asks for explicit approval; the `gate` run has both cases, and
`Consent` is about the one with a manager. A comment says that an unanswered
request is approved (`models.py:259`); it is denied. Grants last for the process.
The first policy that objects decides alone.

*Chat.* A revision changes the text of a plan but not the hash its approval is
checked against (`chat.py:1079`, `plan_approve` answers 409), so a plan that was
shown revised cannot be approved. `plan_approve` does not look at the status: two
approvals execute twice. A task that ends resets `active_task` even if it names
another; a task cancelled before its first step never ends its stream. A restart
forgets hash and mode of a plan.

*Memory.* The lock "to prevent concurrent consolidation runs" is taken by the
nightly and idle ones only. Pruning spares decisions and preferences by the
category of the row, and a summary has the category of its first fact, so what a
decision said can be pruned with a summary. Consolidation mixes tenants; the sweep
marks facts that were stored meanwhile; closing releases the maintenance lock
whoever holds it; a fact whose source cannot be recorded is stored twice, and so is
one that two ingestions bring at once or that the model misjudges
(`facts.py:286` inserts without a look).

*MCP.* A cancellation between header and body of a frame leaves the pipe torn, and
every later request fails until the process dies. A request given up leaves the
session behind for good; `registry.py:78` gives up after 5 seconds where the
session waits 30. The loser of two simultaneous starts is never stopped, and
nothing calls the pool's shutdown. `timeout_seconds` does not cover the write
(`mcp_client.py:101` drains under the lock): a server that stops reading blocks the
holder, and everybody behind it, until somebody cancels.

*Elsewhere.* `get_connection` (`db/connection.py`) may lose a connection that its
helper thread obtains after the timeout.

## Not modelled

- Vision: its loop and the changes of mode race (a disarm during an await clears
  the presence the loop is about to pop; alerts repeat while an id is new).
- Federation: journal, conflict resolution and hybrid clock have no caller in the
  engine; CRM statuses are not in the order its lattice knows.
- The subscribe loop of the event bus, MCP over HTTP, draining of background tasks
  at shutdown, registration of schedules, roles of users, people, notes, routines
  and notifications of the CRM, embeddings and scores of the memory, the chat
  front ends with their own plan code.
- The fleet pool, which nothing uses.
- Prompts, model choice and compaction, formatting and delivery, tools that are
  input and output, configuration parsing, CLI, TUI and the web application:
  sequential code or external services, where a model would restate the code.

Next on the plan: an abstract lock (one holder per key) implemented by `RunLocks`
between two reaps, and an abstract answer channel implemented by `McpPool` until a
request is given up; both need nothing but the invariants proved here.
