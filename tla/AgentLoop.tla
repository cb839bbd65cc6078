----------------------------- MODULE AgentLoop -----------------------------
(***************************************************************************)
(* The conversation loop of a run (_run_loop of engine/runner.py) with     *)
(* what execute wraps around it: the verification that may run the loop a  *)
(* second time, cancellation, and a later run that resumes from the last   *)
(* checkpoint.                                                             *)
(*                                                                         *)
(* Of the conversation only the last assistant message that called tools   *)
(* is kept, with what follows it until the batch is over; older messages   *)
(* never change but to be shortened.  Replanning, compaction, reminders    *)
(* and summaries only add or shorten messages and are left out.            *)
(***************************************************************************)
EXTENDS Naturals, Sequences

CONSTANTS
  Tools, ReadOnly,            \* all tools, READONLY_TOOLS
  Todo,                       \* todo_write
  Configs,                    \* settings of the agent and of the call
  MaxCalls,                   \* tool calls in one answer (a bound)
  Grace,                      \* iterations with tools past a soft budget
  NoteAfter,                  \* failures of a tool before the model is told
  AbortErrors,                \* HARD_ABORT_TOTAL_ERRORS
  MaxHelpers,                 \* MAX_HELPER_SPAWNS
  Interval                    \* CHECKPOINT_INTERVAL

Config == [plan : BOOLEAN, hard : BOOLEAN, verify : BOOLEAN, feedback : BOOLEAN,
           saves : BOOLEAN, helpers : BOOLEAN, safetyCap : Nat \ {0},
           allowed : SUBSET Tools]  \* the tools of the agent

ASSUME LoopAssumption ==
  /\ ReadOnly \subseteq Tools
  /\ Todo \in Tools
  /\ Configs \subseteq Config
  /\ MaxCalls \in Nat \ {0} /\ NoteAfter \in Nat \ {0} /\ AbortErrors \in Nat \ {0}
  /\ Interval \in Nat \ {0} /\ Grace \in Nat /\ MaxHelpers \in Nat

VARIABLES
  config,
  phase,      \* the loop runs for the first time, after it, or again
  at, status, \* where the run is, and run.status
  iteration,  \* _iteration
  offered,    \* tool_schemas is not empty
  tail,       \* the last calls and what was appended after them
  iterErrors, \* iteration_errors with an error type, still to be looked at
  failures,   \* _tool_failures, counted up to NoteAfter
  consec, total, \* counters of the EscalationManager
  helped,     \* _helper_spawns_used
  successes,  \* counter of the CheckpointManager
  saved,      \* the messages of the last checkpoint
  exhausted,  \* check_budget says exhausted
  noticed, pastIters, \* run.budget_exhausted, _budget_exhausted_iters up to Grace + 1
  aborting,   \* should_abort of the watchdog the runner holds
  resumed,    \* this is the run that resumes
  strayed,    \* history: who has executed a tool outside READONLY_TOOLS in plan mode
  overrun     \* history: answers with tool calls after the budget was exhausted

locals == <<iteration, offered, iterErrors, failures, consec, total, helped, successes>>
ledger == <<exhausted, noticed, pastIters>>
history == <<strayed, overrun>>
loopVars == <<config, phase, at, status, tail, locals, saved, ledger, aborting, resumed, history>>

ErrorKinds == {"plain", "stuck", "missing"}
Batches == UNION {[1..n -> Tools] : n \in 1..MaxCalls}

\* The result of a call, whether it still says so, and the note of the engine that
\* may follow it: there, or overwritten.
Entry == [of : Nat, own : BOOLEAN, note : {"none", "own", "lost"}]
TailOf == [calls : Seq(Tools), own : BOOLEAN, after : Seq(Entry)]
NoTail == [calls |-> <<>>, own |-> TRUE, after |-> <<>>]
AllAnswered(t) == Len(t.after) = Len(t.calls)

LoopTypeOK ==
  /\ config \in Config
  /\ phase \in {"first", "verify", "retry"}
  /\ at \in {"head", "model", "tools", "recover", "helper", "wrapup", "verify", "gone", "dead"}
  /\ status \in {"running", "completed", "failed", "timeout"}
  /\ iteration \in 0..config.safetyCap
  /\ offered \in BOOLEAN
  /\ tail \in TailOf /\ saved \in TailOf
  /\ iterErrors \in Seq(ErrorKinds)
  /\ failures \in [Tools -> 0..NoteAfter]
  /\ consec \in Nat /\ total \in Nat /\ consec <= total
  /\ helped \in 0..MaxHelpers
  /\ successes \in Nat
  /\ exhausted \in BOOLEAN /\ noticed \in BOOLEAN /\ aborting \in BOOLEAN
  /\ resumed \in BOOLEAN
  /\ strayed \subseteq {"run", "helper"}
  /\ pastIters \in 0..(Grace + 1)
  /\ overrun \in Nat

-----------------------------------------------------------------------------
(* Beginnings and ends of the loop *)

\* readonly_mode; the loop of the verification is called without it.
Readonly == config.plan /\ phase = "first"

\* The names in tool_schemas, _allowed_tool_set of both loops.
Schemas == IF config.plan THEN config.allowed \cap ReadOnly ELSE config.allowed

\* Locals of _run_loop and the managers it creates.
Fresh ==
  /\ at' = "head"
  /\ iteration' = 0 /\ offered' = (Schemas' # {}) /\ iterErrors' = <<>>
  /\ failures' = [t \in Tools |-> 0]
  /\ consec' = 0 /\ total' = 0 /\ helped' = 0 /\ successes' = 0

LoopInit ==
  /\ config \in Configs
  /\ phase = "first" /\ at = "head" /\ status = "running"
  /\ iteration = 0 /\ offered = (Schemas # {}) /\ iterErrors = <<>>
  /\ failures = [t \in Tools |-> 0]
  /\ consec = 0 /\ total = 0 /\ helped = 0 /\ successes = 0
  /\ tail = NoTail /\ saved = NoTail
  /\ exhausted = FALSE /\ noticed = FALSE /\ pastIters = 0
  /\ aborting = FALSE /\ resumed = FALSE
  /\ strayed = {} /\ overrun = 0

EndWith(s) ==
  /\ at' = "gone"
  /\ status' = s
  /\ UNCHANGED phase

\* The loop returns.
Leave ==
  IF phase = "first" /\ config.verify
    THEN at' = "verify" /\ phase' = "verify" /\ UNCHANGED status
    ELSE EndWith("completed")

\* A model call or a tool adds to the cost of the run.
Spend == \E more \in {exhausted, TRUE} : exhausted' = more

-----------------------------------------------------------------------------
(* The head of an iteration *)

LeaveFlagged ==
  /\ at = "head" /\ aborting
  /\ Leave
  /\ UNCHANGED <<config, tail, locals, saved, ledger, aborting, resumed, history>>

ReachCap ==
  /\ at = "head" /\ ~aborting /\ iteration = config.safetyCap
  /\ at' = "wrapup"
  /\ UNCHANGED <<config, phase, status, tail, locals, saved, ledger, aborting, resumed, history>>

HardLimit == exhausted /\ ~noticed /\ config.hard

HardStop ==
  /\ at = "head" /\ ~aborting /\ iteration < config.safetyCap /\ HardLimit
  /\ noticed' = TRUE
  /\ at' = "wrapup"
  /\ UNCHANGED <<config, phase, status, tail, locals, saved, exhausted, pastIters, aborting,
                 resumed, history>>

Past == IF pastIters > Grace THEN Grace + 1 ELSE pastIters + 1

\* The projected cost of the next call strips the tools of a hard budget.
Ask ==
  /\ at = "head" /\ ~aborting /\ iteration < config.safetyCap /\ ~HardLimit
  /\ noticed' = (noticed \/ exhausted)
  /\ pastIters' = IF noticed' THEN Past ELSE pastIters
  /\ \E stripped \in {FALSE, config.hard} :
       offered' = (offered /\ pastIters' <= Grace /\ ~stripped)
  /\ at' = "model"
  /\ UNCHANGED <<config, phase, status, tail, iteration, iterErrors, failures, consec, total,
                 helped, successes, saved, exhausted, aborting, resumed, history>>

-----------------------------------------------------------------------------
(* The model answers *)

\* No model responds, or with no choices: the loop raises.  The verification
\* swallows it.
NoAnswer ==
  /\ at = "model"
  /\ EndWith(IF phase = "first" THEN "failed" ELSE "completed")
  /\ UNCHANGED <<config, tail, locals, saved, ledger, aborting, resumed, history>>

Nudge ==
  /\ at = "model" /\ Readonly /\ iteration = 0
  /\ at' = "head"
  /\ tail' = NoTail
  /\ Spend
  /\ UNCHANGED <<config, phase, status, locals, saved, noticed, pastIters, aborting,
                 resumed, history>>

FinalText ==
  /\ at = "model" /\ ~(Readonly /\ iteration = 0)
  /\ Leave
  /\ tail' = NoTail
  /\ Spend
  /\ UNCHANGED <<config, locals, saved, noticed, pastIters, aborting, resumed, history>>

\* A model that is given no tools calls none.
Calls ==
  /\ at = "model" /\ offered
  /\ \E batch \in Batches : tail' = [NoTail EXCEPT !.calls = batch]
  /\ at' = "tools"
  /\ iterErrors' = <<>>
  /\ overrun' = IF noticed THEN overrun + 1 ELSE overrun
  /\ Spend
  /\ UNCHANGED <<config, phase, status, iteration, offered, failures, consec, total, helped,
                 successes, saved, noticed, pastIters, aborting, resumed, strayed>>

\* _force_wrapup: whatever comes back, the loop returns.
WrapUp ==
  /\ at = "wrapup"
  /\ tail' \in {tail, NoTail}
  /\ Leave
  /\ Spend
  /\ UNCHANGED <<config, locals, saved, noticed, pastIters, aborting, resumed, history>>

-----------------------------------------------------------------------------
(* The tool calls of an answer, one after the other *)

call == Len(tail.after) + 1
tool == tail.calls[call]

\* record_tool_call, and a note of the engine after it.
RecordCall(t, k, note) ==
  [t EXCEPT !.after = Append(@, [of |-> k, own |-> TRUE,
                                 note |-> IF note THEN "own" ELSE "none"])]

\* The interception of todo_write writes into messages[-1], before the result
\* of todo_write itself is appended.
Overwrite(t) ==
  LET n == Len(t.after) IN
  IF n = 0 THEN [t EXCEPT !.own = FALSE]
  ELSE IF t.after[n].note = "none" THEN [t EXCEPT !.after[n].own = FALSE]
  ELSE [t EXCEPT !.after[n].note = "lost"]

\* Mutant: the last call of a batch is left out.
NextCallShort == at' = IF call + 1 >= Len(tail.calls) THEN "recover" ELSE "tools"
NextCall == at' = IF call = Len(tail.calls) THEN "recover" ELSE "tools"

\* Mutant: only the guard of plan mode is left.
GuardedByMode(t) == Readonly /\ t \notin ReadOnly
\* An empty set of allowed tools guards nothing.
Guarded(t) == (Readonly /\ t \notin ReadOnly) \/ (Schemas # {} /\ t \notin Schemas)

Counted(failed) ==
  IF ~config.feedback THEN UNCHANGED <<consec, total>>
  ELSE IF failed THEN consec' = consec + 1 /\ total' = total + 1
  ELSE consec' = 0 /\ UNCHANGED total

\* Turned down by the guards or by a human: escalation does not hear of it.
TurnedDown ==
  /\ at = "tools"
  /\ tail' = RecordCall(tail, call, FALSE)
  /\ NextCall
  /\ UNCHANGED <<config, phase, status, locals, saved, ledger, aborting, resumed, history>>

\* Blocked by a PRE_TOOL_USE hook or by a guardrail.
Blocked ==
  /\ at = "tools" /\ ~Guarded(tool)
  /\ tail' = RecordCall(tail, call, FALSE)
  /\ Counted(TRUE)
  /\ NextCall
  /\ UNCHANGED <<config, phase, status, iteration, offered, iterErrors, failures, helped,
                 successes, saved, ledger, aborting, resumed, history>>

Succeeds ==
  /\ at = "tools" /\ ~Guarded(tool)
  /\ \E reminded \in {FALSE, tool = Todo} :
       tail' = RecordCall(IF tool = Todo THEN Overwrite(tail) ELSE tail, call, reminded)
  /\ strayed' = strayed \cup {who \in {"run"} : config.plan /\ tool \notin ReadOnly}
  /\ Counted(FALSE)
  /\ successes' = IF config.saves THEN successes + 1 ELSE successes
  /\ Spend
  /\ NextCall
  /\ UNCHANGED <<config, phase, status, iteration, offered, iterErrors, failures, helped, saved,
                 noticed, pastIters, aborting, resumed, overrun>>

Failed(t) == IF failures[t] = NoteAfter THEN NoteAfter ELSE failures[t] + 1

Fails ==
  /\ at = "tools" /\ ~Guarded(tool)
  /\ failures' = [failures EXCEPT ![tool] = Failed(tool)]
  /\ tail' = RecordCall(tail, call, Failed(tool) = NoteAfter)
  /\ strayed' = strayed \cup {who \in {"run"} : config.plan /\ tool \notin ReadOnly}
  /\ Counted(TRUE)
  /\ \E kind \in ErrorKinds : iterErrors' = Append(iterErrors, kind)
  /\ NextCall
  /\ UNCHANGED <<config, phase, status, iteration, offered, helped, successes, saved, ledger,
                 aborting, resumed, overrun>>

-----------------------------------------------------------------------------
(* After the tools: recovery, escalation, checkpoint *)

(* get_recovery_action asks for a helper at the second failure in a row    *)
(* (authentication, not found, timeout), at the first one when a           *)
(* dependency is missing.  Every other action only adds a message.         *)
WantsHelper(kind) ==
  /\ config.helpers /\ helped < MaxHelpers
  /\ \/ kind = "missing"
     \/ kind = "stuck" /\ config.feedback /\ consec >= 2

Recover ==
  /\ at = "recover" /\ iterErrors # <<>> /\ ~Readonly
  /\ IF WantsHelper(Head(iterErrors))
       THEN at' = "helper" /\ UNCHANGED iterErrors
       ELSE iterErrors' = Tail(iterErrors) /\ UNCHANGED at
  /\ UNCHANGED <<config, phase, status, tail, iteration, offered, failures, consec, total,
                 helped, successes, saved, ledger, aborting, resumed, history>>

\* The helper, an agent with tools of its own, knows nothing of plan mode.
HelperActs ==
  /\ at = "helper" /\ config.plan
  /\ strayed' = strayed \cup {"helper"}
  /\ UNCHANGED <<config, phase, at, status, tail, locals, saved, ledger, aborting, resumed,
                 overrun>>

\* The helper returns an output, or fails and is not counted.
HelperReturns ==
  /\ at = "helper"
  /\ helped' \in {helped, helped + 1}
  /\ iterErrors' = Tail(iterErrors)
  /\ at' = "recover"
  /\ UNCHANGED <<config, phase, status, tail, iteration, offered, failures, consec, total,
                 successes, saved, ledger, aborting, resumed, history>>

Recovered == at = "recover" /\ (iterErrors = <<>> \/ Readonly)
\* Mutant: errors in a row count instead of all errors.
ShouldAbortInARow == config.feedback /\ consec >= AbortErrors
ShouldAbort == config.feedback /\ total >= AbortErrors
ShouldCheckpoint == config.saves /\ successes > 0 /\ successes % Interval = 0

TooManyErrors ==
  /\ Recovered /\ ShouldAbort
  /\ at' = "wrapup"
  /\ UNCHANGED <<config, phase, status, tail, locals, saved, ledger, aborting, resumed, history>>

\* Mutant: no answer of the model counts as an iteration.
FollowingSame(i) == i
Following(i) == i + 1

\* A checkpoint that cannot be written is skipped.
EndIteration ==
  /\ Recovered /\ ~ShouldAbort
  /\ saved' \in (IF ShouldCheckpoint THEN {saved, tail} ELSE {saved})
  /\ iteration' = Following(iteration)
  /\ iterErrors' = <<>>
  /\ at' = "head"
  /\ UNCHANGED <<config, phase, status, tail, offered, failures, consec, total, helped,
                 successes, ledger, aborting, resumed, history>>

-----------------------------------------------------------------------------
(* Verification, cancellation, crash and resumption *)

\* The verifier accepts the output, or cannot be asked.
Accepted ==
  /\ at = "verify"
  /\ EndWith("completed")
  /\ UNCHANGED <<config, tail, locals, saved, ledger, aborting, resumed, history>>

Rejected ==
  /\ at = "verify"
  /\ phase' = "retry"
  /\ UNCHANGED <<config, status, tail, saved, ledger, aborting, resumed, history>>
  /\ Fresh

\* Set through the watchdog of the runner, which may be that of another run.
Flag ==
  /\ ~aborting /\ at \notin {"gone", "dead"}
  /\ aborting' = TRUE
  /\ UNCHANGED <<config, phase, at, status, tail, locals, saved, ledger, resumed, history>>

\* Mutant: the handler of execute lets the cancellation through.
VerdictNone == status
Verdict == IF phase = "first" THEN "timeout" ELSE status

(* The task is cancelled where it awaits, by a watchdog, a timeout or the  *)
(* user.  The handler of execute surrounds the first loop only.            *)
Cancelled ==
  /\ at \in {"model", "tools", "helper", "wrapup", "verify"}
  /\ EndWith(Verdict)
  /\ UNCHANGED <<config, tail, locals, saved, ledger, aborting, resumed, history>>

Dies ==
  /\ at \notin {"gone", "dead"}
  /\ at' = "dead"
  /\ UNCHANGED <<config, phase, status, tail, locals, saved, ledger, aborting, resumed, history>>

\* /api/runs/{run_id}/resume of a run that is over: a new run with its messages,
\* which is not told of plan mode either.
Resume ==
  /\ at \in {"gone", "dead"} /\ ~resumed /\ saved # NoTail
  /\ resumed' = TRUE
  /\ config' = [config EXCEPT !.plan = FALSE]
  /\ tail' = saved
  /\ phase' = "first" /\ status' = "running"
  /\ Fresh
  /\ saved' = NoTail
  /\ exhausted' = FALSE /\ noticed' = FALSE /\ pastIters' = 0 /\ aborting' = FALSE
  /\ strayed' = {} /\ overrun' = 0

Step ==
  \/ LeaveFlagged \/ ReachCap \/ HardStop \/ Ask
  \/ NoAnswer \/ Nudge \/ FinalText \/ Calls \/ WrapUp
  \/ TurnedDown \/ Blocked \/ Succeeds \/ Fails
  \/ Recover \/ HelperActs \/ HelperReturns \/ TooManyErrors \/ EndIteration
  \/ Accepted \/ Rejected

LoopNext == Step \/ Flag \/ Cancelled \/ Dies \/ Resume

LoopSpec == LoopInit /\ [][LoopNext]_loopVars

(* A model call ends (the HTTP timeout of litellm), a tool has its own      *)
(* timeout, and so has the run of a helper: an uncancelled loop moves on.   *)
LoopFairSpec == LoopSpec /\ WF_loopVars(Step)

-----------------------------------------------------------------------------
(* Properties *)

\* Whenever the model may be called again, and in every checkpoint, each tool
\* call has one result and the results are in the order of the calls, whatever
\* became of the calls: providers refuse a conversation that is not so.
InOrder(t) == \A k \in DOMAIN t.after : t.after[k].of = k
CallsAnswered ==
  /\ at \in {"head", "model", "wrapup", "verify"} => AllAnswered(tail) /\ InOrder(tail)
  /\ AllAnswered(saved) /\ InOrder(saved)

\* A message keeps the content it was appended with, unless the call answered
\* next is a todo_write: its interception overwrites the message before it.
ContentKept(t) ==
  /\ t.own \/ (Len(t.after) > 0 /\ t.calls[1] = Todo)
  /\ \A i \in DOMAIN t.after :
       \/ t.after[i].own /\ t.after[i].note # "lost"
       \/ i < Len(t.after) /\ t.calls[i + 1] = Todo
OnlyTodoOverwrites == ContentKept(tail) /\ ContentKept(saved)

\* A note stands between the results of one batch only after a tool has failed
\* NoteAfter times, or after a todo_write.
BatchUnbroken ==
  at = "tools" => \A i \in DOMAIN tail.after : tail.after[i].note # "none" =>
    tail.calls[i] = Todo \/ failures[tail.calls[i]] = NoteAfter

\* What a provider is sent is a conversation it takes, and it says what was said.
ConversationSound == CallsAnswered /\ OnlyTodoOverwrites /\ BatchUnbroken

\* A budget once exhausted allows Grace more answers with tool calls, the loop
\* of the verification included; a hard budget none in the first loop.
BudgetBounds ==
  /\ overrun <= Grace
  /\ config.hard /\ phase = "first" => overrun = 0

\* Escalation stops a loop before the batch after the one in which the errors
\* became AbortErrors; successes in between do not put it off.
ErrorsBounded == total < AbortErrors + MaxCalls

\* Neither money nor errors run past their limits by more than that.
LimitsBind == BudgetBounds /\ ErrorsBounded

\* In plan mode the run executes nothing but read-only tools, also in the loop of
\* the verification, which is not told of plan mode; but that loop may start a
\* recovery helper, which executes whatever it likes.
PlanReadsOnly ==
  /\ "run" \notin strayed
  /\ "helper" \in strayed => phase = "retry" /\ config.helpers

\* A run that leaves execute has a final status, unless it was cancelled during
\* or after the verification: its row stays running.
EndsRecorded == at = "gone" /\ status = "running" => phase # "first"

\* A run ends, but for a plan-mode run that is nudged again and again because
\* the nudge does not count as an iteration.
RunEnds == []<>(at \in {"gone", "dead"}) \/ <>[](Readonly /\ iteration = 0)
=============================================================================
