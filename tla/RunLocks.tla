------------------------------ MODULE RunLocks ------------------------------
(***************************************************************************)
(* Who may run an agent, and who takes that permission away.               *)
(*                                                                         *)
(* The engine keeps one in-memory set of running agents (engine/dedup.py). *)
(* Cron, heartbeat, hook and workflow runs put their key in it before they *)
(* execute and take it out when they end; interactive and sub-agent runs   *)
(* never use the agent's key.  Every run also has a row in the table       *)
(* agent_runs, which a reaper thread (daemon._cleanup_stale_runs) turns    *)
(* from 'running' to 'timeout' once it is 30 minutes old, releasing the    *)
(* lock of the row's agent whoever holds it.  The scheduler counts         *)
(* consecutive errors per key and skips a key whose count has reached the  *)
(* circuit-breaker threshold.                                              *)
(*                                                                         *)
(* A run id is used once.  Time appears only as the row status "overdue":  *)
(* 'running', and older than the reaper's 30 minutes, whatever the run is  *)
(* doing (timeouts of up to 24 hours can be configured).                   *)
(***************************************************************************)
EXTENDS Runs, Naturals

CONSTANTS
  Agent,      \* agent ids
  Threshold,  \* CIRCUIT_BREAKER_THRESHOLD
  Outages     \* TRUE when a database call may fail after its retries

ASSUME ThresholdAssumption == Threshold \in Nat \ {0}
ASSUME OutagesAssumption == Outages \in BOOLEAN

VARIABLES
  up,       \* the daemon process is up
  kind,     \* kind[r]: what triggers run r (never changes)
  agent,    \* agent[r]: the agent that run r runs (never changes)
  stage,    \* stage[r]: where run r is
  result,   \* result[r]: the status of r in memory, set when execute() returns
  unsaved,  \* runs whose background persistence has not run yet
  row,      \* row[r]: status of r in agent_runs, "none" when it has no row
  running,  \* dedup._running, the set of locked keys
  reaping,  \* agents whose lock the reaper thread is about to release
  reaped,   \* history: keys the reaper has released since the daemon started
  errors,   \* errors[k]: consecutive_errors of key k in agent_schedules
  blind     \* history: open keys a run took, having no answer about them

lockVars == <<up, kind, agent, stage, result, unsaved, row, running,
          reaping, reaped, errors, blind>>

Kind == {"cron", "heartbeat", "event", "direct"}
Stage == {"new", "setup", "recorded", "looping", "finished", "done", "dead"}
Outcome == {"completed", "failed", "timeout"}

\* A heartbeat locks "<id>:heartbeat", every other locking run "<id>".
LockKey == Agent \X {"runs", "heartbeat"}
KeyOf(r) == <<agent[r], IF kind[r] = "heartbeat" THEN "heartbeat" ELSE "runs">>

Locks(r) == kind[r] # "direct"
Scheduled(r) == kind[r] \in {"cron", "heartbeat"}

\* Between try_acquire and the release in its finally block.
Holds(r) == Locks(r) /\ stage[r] \in {"setup", "recorded", "looping", "finished"}

DbOk == IF Outages THEN BOOLEAN ELSE {TRUE}

\* Mutant: the reaper only looks at runs of its own process.
StaleRowsOfThisProcess == {r \in Run : row[r] = "overdue" /\ stage[r] # "dead"}
StaleRows == {r \in Run : row[r] = "overdue"}

ReapedRows == [r \in Run |-> IF r \in StaleRows THEN "timeout" ELSE row[r]]

\* release_sync(agent_id): the key of ordinary runs only.
ReaperKeys(a) == {<<a, "runs">>}

LockTypeOK ==
  /\ up \in BOOLEAN
  /\ kind \in [Run -> Kind]
  /\ agent \in [Run -> Agent]
  /\ stage \in [Run -> Stage]
  /\ result \in [Run -> Outcome \cup {"running"}]
  /\ unsaved \in SUBSET Run
  /\ row \in [Run -> Outcome \cup {"none", "running", "overdue"}]
  /\ running \in SUBSET LockKey
  /\ reaping \in SUBSET Agent
  /\ reaped \in SUBSET LockKey
  /\ errors \in [LockKey -> Nat]
  /\ blind \in SUBSET LockKey

LockInit ==
  /\ up = TRUE
  /\ kind \in [Run -> Kind]
  /\ agent \in [Run -> Agent]
  /\ stage = [r \in Run |-> "new"]
  /\ result = [r \in Run |-> "running"]
  /\ unsaved = {}
  /\ row = [r \in Run |-> "none"]
  /\ running = {}
  /\ reaping = {}
  /\ reaped = {}
  /\ errors = [k \in LockKey |-> 0]
  /\ blind = {}

-----------------------------------------------------------------------------
(* Starting a run *)

\* Mutant: the set is not consulted.
MayAcquireAlways(r) == TRUE
MayAcquire(r) == Locks(r) => KeyOf(r) \notin running

\* Mutant: off by one.
BreakerOpenLate(r, readOk) ==
  Scheduled(r) /\ readOk /\ errors[KeyOf(r)] > Threshold
\* A scheduled run finds its breaker open; a failed read counts as closed.
BreakerOpen(r, readOk) ==
  Scheduled(r) /\ readOk /\ errors[KeyOf(r)] >= Threshold

\* try_acquire finds the key taken: the trigger is dropped.
Skip(r) ==
  /\ up /\ stage[r] = "new"
  /\ ~MayAcquire(r)
  /\ stage' = [stage EXCEPT ![r] = "done"]
  /\ UNCHANGED <<up, kind, agent, result, unsaved, row, running,
                 reaping, reaped, errors, blind>>

\* The breaker check follows the acquisition with no suspension between
\* them, and its early return releases the key again.
BreakerSkip(r) ==
  /\ up /\ stage[r] = "new"
  /\ MayAcquire(r)
  /\ \E readOk \in DbOk : BreakerOpen(r, readOk)
  /\ stage' = [stage EXCEPT ![r] = "done"]
  /\ UNCHANGED <<up, kind, agent, result, unsaved, row, running,
                 reaping, reaped, errors, blind>>

Acquire(r) ==
  /\ up /\ stage[r] = "new"
  /\ MayAcquire(r)
  /\ \E readOk \in DbOk : ~BreakerOpen(r, readOk)
  /\ blind' = IF BreakerOpen(r, TRUE) THEN blind \cup {KeyOf(r)} ELSE blind
  /\ stage' = [stage EXCEPT ![r] = "setup"]
  /\ running' = IF Locks(r) THEN running \cup {KeyOf(r)} ELSE running
  /\ UNCHANGED <<up, kind, agent, result, unsaved, row, reaping,
                 reaped, errors>>

\* create_run; a run whose row cannot be inserted executes all the same.
Record(r) ==
  /\ stage[r] = "setup"
  /\ stage' = [stage EXCEPT ![r] = "recorded"]
  /\ \E ok \in DbOk : row' = IF ok THEN [row EXCEPT ![r] = "running"] ELSE row
  /\ UNCHANGED <<up, kind, agent, result, unsaved, running, reaping,
                 reaped, errors, blind>>

\* Routing, planning and sandbox are done; the first model call is made.
FirstCall(r) ==
  /\ stage[r] = "recorded"
  /\ stage' = [stage EXCEPT ![r] = "looping"]
  /\ UNCHANGED <<up, kind, agent, result, unsaved, row, running,
                 reaping, reaped, errors, blind>>

-----------------------------------------------------------------------------
(* Ending a run *)

Release(r) == running' = IF Locks(r) THEN running \ {KeyOf(r)} ELSE running

\* The error count the schedule row gets: a failed read of the row restarts
\* it at 1, a failed write leaves it as it is.
CountRun(r, failed) ==
  \E readOk, writeOk \in DbOk :
    errors' = IF ~(Scheduled(r) /\ writeOk)
                THEN errors
                ELSE [errors EXCEPT ![KeyOf(r)] =
                        IF ~failed THEN 0 ELSE IF readOk THEN @ + 1 ELSE 1]

\* An exception before the try block of execute(): nothing is counted.
SetupRaises(r) ==
  /\ stage[r] = "setup"
  /\ stage' = [stage EXCEPT ![r] = "done"]
  /\ Release(r)
  /\ UNCHANGED <<up, kind, agent, result, unsaved, row, reaping,
                 reaped, errors, blind>>

\* execute() returns an AgentRun; its row is written by a background task.
Finish(r) ==
  /\ stage[r] \in {"recorded", "looping"}
  /\ \E s \in Outcome : result' = [result EXCEPT ![r] = s]
  /\ stage' = [stage EXCEPT ![r] = "finished"]
  /\ unsaved' = unsaved \cup {r}
  /\ UNCHANGED <<up, kind, agent, row, running, reaping, reaped,
                 errors, blind>>

\* UPDATE agent_runs ... WHERE id: whatever status the row has by now.
Persist(r) ==
  /\ r \in unsaved
  /\ unsaved' = unsaved \ {r}
  /\ \E ok \in DbOk :
       row' = IF ok /\ row[r] # "none" THEN [row EXCEPT ![r] = result[r]]
                                       ELSE row
  /\ UNCHANGED <<up, kind, agent, stage, result, running, reaping,
                 reaped, errors, blind>>

\* After delivery: schedule state, then the finally block.
Settle(r) ==
  /\ stage[r] = "finished"
  /\ stage' = [stage EXCEPT ![r] = "done"]
  /\ CountRun(r, result[r] # "completed")
  /\ Release(r)
  /\ UNCHANGED <<up, kind, agent, result, unsaved, row, reaping,
                 reaped, blind>>

\* The scheduler's timeout_seconds + 120 cuts a scheduled run outside the
\* part of execute() that turns a cancellation into a result.
SafetyTimeout(r) ==
  /\ Scheduled(r) /\ stage[r] \in {"setup", "finished"}
  /\ stage' = [stage EXCEPT ![r] = "done"]
  /\ CountRun(r, TRUE)
  /\ Release(r)
  /\ UNCHANGED <<up, kind, agent, result, unsaved, row, reaping,
                 reaped, blind>>

-----------------------------------------------------------------------------
(* The reaper thread, and the process *)

\* Thirty minutes after started_at.
Age(r) ==
  /\ row[r] = "running"
  /\ row' = [row EXCEPT ![r] = "overdue"]
  /\ UNCHANGED <<up, kind, agent, stage, result, unsaved, running, reaping,
                 reaped, errors, blind>>

\* The UPDATE ... RETURNING of the reaper commits.
Reap ==
  /\ up /\ reaping = {} /\ StaleRows # {}
  /\ row' = ReapedRows
  /\ reaping' = {agent[r] : r \in StaleRows}
  /\ UNCHANGED <<up, kind, agent, stage, result, unsaved, running,
                 reaped, errors, blind>>

\* release_sync(agent_id), once per agent of a returned row.
ReapRelease(a) ==
  /\ a \in reaping
  /\ reaping' = reaping \ {a}
  /\ running' = running \ ReaperKeys(a)
  /\ reaped' = reaped \cup ReaperKeys(a)
  /\ UNCHANGED <<up, kind, agent, stage, result, unsaved, row, errors, blind>>

\* The process dies: everything in memory is gone, the rows stay.
Crash ==
  /\ up
  /\ up' = FALSE
  /\ stage' = [r \in Run |-> IF stage[r] \in {"new", "done"} THEN stage[r] ELSE "dead"]
  /\ unsaved' = {}
  /\ running' = {}
  /\ reaping' = {}
  /\ reaped' = {}
  /\ blind' = {}
  /\ UNCHANGED <<kind, agent, result, row, errors>>

\* Startup reaps the rows that are stale by now before anything can run.
Restart(ok) ==
  /\ ~up
  /\ up' = TRUE
  /\ row' = IF ok THEN ReapedRows ELSE row
  /\ UNCHANGED <<kind, agent, stage, result, unsaved, running, reaping,
                 reaped, errors, blind>>

-----------------------------------------------------------------------------
RunStep(r) ==
  \/ Skip(r) \/ BreakerSkip(r) \/ Acquire(r) \/ Record(r) \/ FirstCall(r)
  \/ SetupRaises(r) \/ Finish(r) \/ Persist(r) \/ Settle(r)
  \/ SafetyTimeout(r) \/ Age(r)

LockNext ==
  \/ \E r \in Run : RunStep(r)
  \/ Reap
  \/ \E a \in Agent : ReapRelease(a)
  \/ Crash
  \/ \E ok \in DbOk : Restart(ok)

LockSpec == LockInit /\ [][LockNext]_lockVars

\* Every await of a run is bounded (hard, stall and safety timeouts), rows
\* grow old, the watchdog reaps every 20 minutes, the service manager
\* restarts the daemon and the database is reachable again and again.
LockFairness ==
  /\ \A r \in Run : /\ WF_lockVars(Record(r) \/ SetupRaises(r))
                    /\ WF_lockVars(FirstCall(r) \/ Finish(r))
                    /\ WF_lockVars(Settle(r) \/ SafetyTimeout(r))
                    /\ WF_lockVars(Persist(r))
                    /\ WF_lockVars(Age(r))
  /\ \A a \in Agent : WF_lockVars(ReapRelease(a))
  /\ SF_lockVars(Reap)
  /\ SF_lockVars(Restart(TRUE))

LockFairSpec == LockSpec /\ LockFairness

-----------------------------------------------------------------------------
(* Properties *)

\* Two runs hold the same key at the same time.
Overlap(p, q) == p # q /\ Holds(p) /\ Holds(q) /\ KeyOf(p) = KeyOf(q)

\* dedup.py "prevents concurrent runs of the same agent", and only the reaper
\* breaks it: two runs of one key overlap only when the reaper has released
\* that key since the daemon started, whichever of cron, hook, workflow or
\* downstream trigger started them and however they ended.
ExclusiveUntilReaped ==
  \A p, q \in Run : Overlap(p, q) => KeyOf(p) \in reaped

\* Heartbeats never overlap: no reaper releases "<id>:heartbeat".
HeartbeatsExclusive ==
  \A p, q \in Run : Overlap(p, q) => kind[p] # "heartbeat"

\* A locked key always has a run that will release it in a finally block:
\* skips, breaker returns, raising setups and safety timeouts leak nothing.
NoLeakedLock == \A k \in running : \E r \in Run : Holds(r) /\ KeyOf(r) = k

\* The keys exclude, with and without the reaper, and every key has a holder.
KeysSound == ExclusiveUntilReaped /\ HeartbeatsExclusive /\ NoLeakedLock

\* The error count of a key grows past the threshold only through a run that
\* was already under way when the breaker opened, so never while the lock is
\* intact, or through a run that got no answer about the breaker.
BreakerHolds ==
  [][\A k \in LockKey : errors'[k] > errors[k] /\ errors'[k] > Threshold
                       => k \in reaped \cup blind]_lockVars

\* No agent stays locked for ever.
LocksDrain == \A k \in LockKey : k \in running ~> k \notin running

\* No row stays 'running' for ever, although its run crashed or its final
\* update failed.
RowsSettle ==
  \A r \in Run : row[r] = "running" ~> row[r] \notin {"running", "overdue"}

\* Neither locks nor rows outlast the runs they stand for.
TracesSettle == LocksDrain /\ RowsSettle

=============================================================================
