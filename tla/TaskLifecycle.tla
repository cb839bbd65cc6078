---------------------------- MODULE TaskLifecycle ----------------------------
(***************************************************************************)
(* The task state machine of the CRM (crm/dal.py) as the tool handlers,    *)
(* the bridge, the MCP server and the engine's auto-tasks drive it.        *)
(*                                                                         *)
(* Every operation that depends on the task's state is a SELECT that       *)
(* decides, followed in the same READ COMMITTED transaction by an UPDATE   *)
(* whose WHERE clause does not repeat the decision: Begin... and Commit.   *)
(* The UPDATE takes the row lock, so it and the commit are one step.       *)
(* A call is used once.  The dedup key is one thread id: a task is keyed   *)
(* while its body says "threadId: <id>".  started_at, the SLA deadline,    *)
(* who made a recorded change, the subtask warning and what is published   *)
(* or audited after the commit are left out.                               *)
(***************************************************************************)
EXTENDS Naturals, Sequences

CONSTANTS
  Task,       \* task ids; their number bounds the model
  Call,       \* calls of the operations; likewise
  Agent,      \* callers
  Owner,      \* the callers that resolve_task accepts for a human's task
  Assignee,   \* what assigned_to_agent may hold
  Nobody,     \* its value for a task that is assigned to no agent
  NoTask,     \* value of tasks[t] before t is created
  Initial     \* the statuses that tasks are created with (any, in the code): a bound

ASSUME OwnerAssumption == Owner \subseteq Agent
ASSUME NobodyAssumption == Nobody \in Assignee

VARIABLES
  tasks,    \* crm_tasks
  history,  \* crm_task_history, per task
  call,     \* call[c]: what call c has decided to do
  silent,   \* history: tasks whose status was last written by a Resaved update
  past      \* history: what has happened to a task behind the dedup lookups

vars == <<tasks, history, call, silent, past>>

Status == {"TODO", "IN_PROGRESS", "REVIEW", "DONE"}

ASSUME InitialAssumption == Initial \subseteq Status

TaskRow == [status : Status, resolved : {"no", "recent", "old"},
            human : BOOLEAN, keyed : BOOLEAN, agent : Assignee, deleted : BOOLEAN]
Record == [from : Status \cup {"none"}, to : Status]

ASSUME NoTaskAssumption == NoTask \notin TaskRow

\* Who creates a task: the engine's create_task tool, the bridge's POST for
\* an assigned task, or a caller of the DAL that looks for no other task (the
\* MCP server, the bridge for an unassigned task, the engine itself).
Route == {"tool", "bridge", "plain"}

\* Why a lookup may have missed a task: it left DONE with resolved_at still
\* set; no lookup was made for its key, or another task got the key during
\* the lookup; only its agent's tasks were looked at; it changed its agent.
\* The first two hide the others.
Mark == {"reopened", "unseen", "scoped", "moved"}

\* What a call in progress will write.
Plan == [pc : {"decided"}, op : {"update", "resolve", "approve", "reject"},
         task : Task, from : Status, to : Status, stamp : BOOLEAN]
CreatePlan == [pc : {"decided"}, op : {"create"}, row : TaskRow, via : Route]
New == [pc |-> "new"]
Done == [pc |-> "done"]

TypeOK ==
  /\ tasks \in [Task -> TaskRow \cup {NoTask}]
  /\ history \in [Task -> Seq(Record)]
  /\ call \in [Call -> Plan \cup CreatePlan \cup {New, Done}]
  /\ silent \in SUBSET Task
  /\ past \in [Task -> SUBSET Mark]

Exists(t) == tasks[t] # NoTask
Live(t) == Exists(t) /\ ~tasks[t].deleted
Open(t) == Live(t) /\ tasks[t].status # "DONE"

NewRow(s, h, k, a) ==
  [status |-> s, resolved |-> "no", human |-> h, keyed |-> k, agent |-> a,
   deleted |-> FALSE]

\* The engine's database starts with no task; the model also starts with one
\* that was just created.
Init ==
  /\ \/ /\ tasks = [t \in Task |-> NoTask]
        /\ history = [t \in Task |-> <<>>]
     \/ \E t \in Task, s \in Initial, h, k \in BOOLEAN, a \in Assignee :
          /\ tasks = [u \in Task |->
                        IF u = t THEN NewRow(s, h, k, a) ELSE NoTask]
          /\ history = [u \in Task |->
                          IF u = t THEN <<[from |-> "none", to |-> s]>> ELSE <<>>]
  /\ call = [c \in Call |-> New]
  /\ silent = {}
  /\ past = [t \in Task |-> {}]

-----------------------------------------------------------------------------
(* The state machine *)

\* Mutant: a task may skip the work.
AllowedSkippingWork(s) ==
  CASE s = "TODO"        -> {"IN_PROGRESS", "DONE"}
    [] s = "IN_PROGRESS" -> {"REVIEW", "TODO", "DONE"}
    [] s = "REVIEW"      -> {"DONE", "IN_PROGRESS", "TODO"}
    [] s = "DONE"        -> {"TODO"}
Allowed(s) ==
  CASE s = "TODO"        -> {"IN_PROGRESS"}
    [] s = "IN_PROGRESS" -> {"REVIEW", "TODO", "DONE"}
    [] s = "REVIEW"      -> {"DONE", "IN_PROGRESS", "TODO"}
    [] s = "DONE"        -> {"TODO"}

ValidTransition(from, to, resolution) ==
  /\ to \in Allowed(from)
  /\ from = "REVIEW" /\ to = "DONE" => resolution

Decide(c, op, t, to, stamp) ==
  /\ call' = [call EXCEPT ![c] =
                [pc |-> "decided", op |-> op, task |-> t,
                 from |-> tasks[t].status, to |-> to, stamp |-> stamp]]
  /\ UNCHANGED <<tasks, history, silent, past>>

\* update_task with a status; the bridge also sends resolved_at with DONE.
BeginUpdate(c, t) ==
  /\ call[c] = New /\ Live(t)
  /\ \E to \in Status, resolution, bridge \in BOOLEAN :
       /\ \/ to = tasks[t].status
          \/ ValidTransition(tasks[t].status, to, resolution)
       /\ Decide(c, "update", t, to, bridge /\ to = "DONE")

\* Mutant: any open task may be resolved.
ResolvableOpen == {"TODO", "IN_PROGRESS", "REVIEW"}
Resolvable == {"IN_PROGRESS", "REVIEW"}

\* resolve_task, also by the engine for the auto-task of a completed run.
BeginResolve(c, t, by) ==
  /\ call[c] = New /\ Live(t)
  /\ tasks[t].status \in Resolvable
  /\ tasks[t].human => by \in Owner
  /\ Decide(c, "resolve", t, "DONE", TRUE)

BeginApprove(c, t, by) ==
  /\ call[c] = New /\ Live(t)
  /\ tasks[t].status = "REVIEW"
  /\ by # tasks[t].agent
  /\ Decide(c, "approve", t, "DONE", TRUE)

BeginReject(c, t) ==
  /\ call[c] = New /\ Live(t)
  /\ tasks[t].status = "REVIEW"
  /\ Decide(c, "reject", t, "IN_PROGRESS", FALSE)

-----------------------------------------------------------------------------
(* What is written *)

\* The WHERE clauses of update_task and resolve_task skip deleted tasks,
\* those of approve_task and reject_task do not.
RowFound(p) == p.op \in {"update", "resolve"} => ~tasks[p.task].deleted

\* An update to the status that it saw.
Resaved(p) == p.op = "update" /\ p.from = p.to

\* Only a change of status writes a transition record.
Recorded(p) == p.op = "update" => p.from # p.to

\* update_task sets any of the other columns in the same UPDATE.
Columns == [human : BOOLEAN, keyed : BOOLEAN, agent : Assignee]
Edited(t) ==
  {[tasks[t] EXCEPT !.human = e.human, !.keyed = e.keyed, !.agent = e.agent] :
     e \in Columns}
Edits(p) == IF p.op = "update" THEN Edited(p.task) ELSE {tasks[p.task]}

\* What is to be remembered of t when an UPDATE leaves r's other columns.
EditedPast(t, r) ==
  IF "reopened" \in past[t] THEN {"reopened"}
  ELSE IF ~r.keyed THEN {}
  ELSE IF ~tasks[t].keyed \/ "unseen" \in past[t] THEN {"unseen"}
  ELSE past[t] \cup {m \in {"moved"} : r.agent # tasks[t].agent}

\* Mutant: every update stamps resolved_at.
WrittenStamped(p, r) == [r EXCEPT !.status = p.to, !.resolved = "recent"]
Written(p, r) ==
  [r EXCEPT !.status = p.to, !.resolved = IF p.stamp THEN "recent" ELSE @]

WrittenPast(p, r) ==
  IF p.to # "DONE" /\ tasks[p.task].resolved # "no"
    THEN {"reopened"} ELSE EditedPast(p.task, r)

Fresh == {t \in Task : ~Exists(t)}

\* A rejection may turn a change request into a subtask, without a record.
Subtasks(p) ==
  {{}} \cup (IF p.op = "reject" THEN {{t} : t \in Fresh} ELSE {})

Commit(c) ==
  LET p == call[c] IN
  /\ p.pc = "decided" /\ p.op # "create"
  /\ RowFound(p)
  /\ \E S \in Subtasks(p), r \in Edits(p) :
       /\ tasks' = [t \in Task |->
                      IF t = p.task THEN Written(p, r)
                      ELSE IF t \in S
                        THEN NewRow("TODO", FALSE, FALSE, tasks[p.task].agent)
                      ELSE tasks[t]]
       /\ past' = [past EXCEPT ![p.task] = WrittenPast(p, r)]
  /\ history' = IF Recorded(p)
                  THEN [history EXCEPT ![p.task] =
                          Append(@, [from |-> p.from, to |-> p.to])]
                  ELSE history
  /\ call' = [call EXCEPT ![c] = Done]
  /\ silent' = IF Resaved(p) THEN silent \cup {p.task} ELSE silent \ {p.task}

\* The row is gone, or the statement fails and is rolled back.
Abort(c) ==
  /\ call[c].pc = "decided"
  /\ call' = [call EXCEPT ![c] = Done]
  /\ UNCHANGED <<tasks, history, silent, past>>

\* update_task without a status: one UPDATE.  It may rewrite the body that
\* holds the key or give the task to another agent.
Edit(t) ==
  /\ Live(t)
  /\ \E r \in Edited(t) :
       /\ tasks' = [tasks EXCEPT ![t] = r]
       /\ past' = [past EXCEPT ![t] = EditedPast(t, r)]
  /\ UNCHANGED <<history, call, silent>>

Delete(t) ==
  /\ Live(t)
  /\ tasks' = [tasks EXCEPT ![t].deleted = TRUE]
  /\ UNCHANGED <<history, call, silent, past>>

\* 72 hours after resolved_at.
Age(t) ==
  /\ Exists(t) /\ tasks[t].resolved = "recent"
  /\ tasks' = [tasks EXCEPT ![t].resolved = "old"]
  /\ UNCHANGED <<history, call, silent, past>>

-----------------------------------------------------------------------------
(* Creation *)

\* Mutant: only tasks nobody has started are looked at.
FoundTodo(via, a) ==
  {t \in Task : Live(t) /\ tasks[t].keyed /\ tasks[t].status = "TODO"
                 /\ via = "tool"}
\* find_task_by_dedup_key: the tool includes what was resolved within 72 hours
\* and looks at every agent's tasks, the bridge at the assignee's unresolved
\* ones.
FoundByKey(via, a) ==
  {t \in Task :
     /\ Live(t) /\ tasks[t].keyed
     /\ \/ via = "tool" /\ tasks[t].resolved # "old"
        \/ via = "bridge" /\ tasks[t].agent = a /\ tasks[t].resolved = "no"}

\* A caller with a key looks first for a task that has it.
BeginCreate(c) ==
  /\ call[c] = New
  /\ \E via \in Route, s \in Initial, h, k \in BOOLEAN, a \in Assignee :
       /\ via = "bridge" => ~h /\ a # Nobody
       /\ k => FoundByKey(via, a) = {}
       /\ call' = [call EXCEPT ![c] = [pc |-> "decided", op |-> "create",
                                       row |-> NewRow(s, h, k, a),
                                       via |-> via]]
  /\ UNCHANGED <<tasks, history, silent, past>>

\* What is to be remembered of the task that p creates.
CreatedPast(p) ==
  IF ~p.row.keyed THEN {}
  ELSE IF p.via = "plain" \/ FoundByKey(p.via, p.row.agent) # {} THEN {"unseen"}
  ELSE {m \in {"scoped"} : p.via = "bridge"}

CommitCreate(c) ==
  LET p == call[c] IN
  /\ p.pc = "decided" /\ p.op = "create"
  /\ \E t \in Fresh :
       /\ tasks' = [tasks EXCEPT ![t] = p.row]
       /\ history' = [history EXCEPT ![t] =
            <<[from |-> "none", to |-> p.row.status]>>]
       /\ past' = [past EXCEPT ![t] = CreatedPast(p)]
  /\ call' = [call EXCEPT ![c] = Done]
  /\ UNCHANGED silent

-----------------------------------------------------------------------------
Next ==
  \/ \E c \in Call, t \in Task :
       \/ BeginUpdate(c, t) \/ BeginReject(c, t)
       \/ \E by \in Agent : BeginResolve(c, t, by) \/ BeginApprove(c, t, by)
  \/ \E c \in Call : BeginCreate(c) \/ Commit(c) \/ CommitCreate(c) \/ Abort(c)
  \/ \E t \in Task : Edit(t) \/ Delete(t) \/ Age(t)

Spec == Init /\ [][Next]_vars

-----------------------------------------------------------------------------
(* Properties *)

\* "Valid status transitions": the documented arrows of the state machine.
Arrow ==
  {<<"TODO", "IN_PROGRESS">>, <<"IN_PROGRESS", "REVIEW">>,
   <<"IN_PROGRESS", "TODO">>, <<"IN_PROGRESS", "DONE">>, <<"REVIEW", "DONE">>,
   <<"REVIEW", "IN_PROGRESS">>, <<"REVIEW", "TODO">>, <<"DONE", "TODO">>}

LastRecord(t) == history[t][Len(history[t])]

\* Whatever calls overlap, each transition record is a creation, which comes
\* first, or an arrow of the state machine.
RecordsAreArrows ==
  \A t \in Task : \A i \in DOMAIN history[t] :
    LET h == history[t][i] IN
    IF h.from = "none" THEN i = 1 ELSE <<h.from, h.to>> \in Arrow

\* Whatever calls overlap, the status and its record are written together:
\* the status is that of the last record, unless an update that saw the
\* status it was to write has overwritten somebody else's transition since.
StatusMatchesRecord ==
  \A t \in Task : Exists(t) /\ t \notin silent =>
    tasks[t].status = IF history[t] = <<>> THEN "TODO" ELSE LastRecord(t).to

\* The audit trail is legal and tells the status.
TrailTells == RecordsAreArrows /\ StatusMatchesRecord

\* Whatever calls overlap, resolved_at is only ever set on a task that has
\* been DONE: SLA and inbox queries that trust it hide no untouched task.
ResolvedWasDone ==
  \A t \in Task : Exists(t) /\ tasks[t].resolved # "no" =>
    \E i \in DOMAIN history[t] : history[t][i].to = "DONE"

\* The bridge's lookup is kept to one agent's tasks, and the two tasks are,
\* or were, of different agents.
Apart(t, u) ==
  /\ "scoped" \in past[t] \cup past[u]
  /\ tasks[t].agent # tasks[u].agent \/ "moved" \in past[t] \cup past[u]

\* Two open tasks hold the same thread id only if one of them left DONE with
\* its resolved_at, got the key from a caller that looks for nothing (the MCP
\* server, an update of the body), was looked up while the other was being
\* written, or was looked up among another agent's tasks only.
DuplicatesAccounted ==
  \A t, u \in Task :
    t # u /\ Open(t) /\ Open(u) /\ tasks[t].keyed /\ tasks[u].keyed =>
      \/ {"reopened", "unseen"} \cap (past[t] \cup past[u]) # {}
      \/ Apart(t, u)

\* A call on t that decided on a status t no longer has is committing.
StaleCommit(t) ==
  \E c \in Call :
    /\ call[c].pc = "decided" /\ call[c].op # "create" /\ call[c].task = t
    /\ call'[c] = Done
    /\ call[c].from # tasks[t].status

OnArrow(t) ==
  \/ tasks'[t].status = tasks[t].status
  \/ <<tasks[t].status, tasks'[t].status>> \in Arrow

\* The audit trail of t grows by a record that starts where the last ended.
Chains(t) ==
  history'[t] # history[t] /\ history[t] # <<>>
    => LastRecord(t)'.from = LastRecord(t).to

\* Whatever calls overlap, a status leaves the arrows, or the audit trail
\* breaks, only when the call that does it decided on a status that another
\* call has replaced since (or an unrecorded write replaced it before).
OnlyStaleCallsBreak ==
  [][\A t \in Task :
       Exists(t) /\ ~StaleCommit(t)
         => OnArrow(t) /\ (t \in silent \/ Chains(t))]_vars
=============================================================================
