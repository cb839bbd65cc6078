---------------------------- MODULE ChatSession ----------------------------
(***************************************************************************)
(* One chat session of engine/chat.py and its row in the database          *)
(* (engine/chat_store.py): messages, plan mode with its approval, deep     *)
(* mode, abort, clear, disconnects and the restart of the process.         *)
(*                                                                         *)
(* Every POST with an answer starts a background task; nothing keeps a     *)
(* second one from starting while the first runs, and active_task names    *)
(* the last one started.  Writes to the database happen in threads, in any *)
(* order, and a failed write is only logged.                               *)
(*                                                                         *)
(* A plan is named by the task that proposed it, its text by the task that *)
(* wrote it.  An exchange is named by its task, too; the order of messages *)
(* and the trimming of the history to MAX_HISTORY are left out, and only   *)
(* the exchanges of the tasks in Followed are kept.                        *)
(***************************************************************************)
EXTENDS Naturals, FiniteSets

CONSTANTS
  Kinds,        \* the endpoints the n-th request may be for (a bound)
  Followed,     \* tasks whose exchanges are followed: nothing depends on them
  MaxTasks, MaxLive,   \* bounds: requests, and those answered at once
  MaxEvents            \* bound: clears, restarts and failed writes

ASSUME ChatAssumption ==
  /\ Followed \subseteq Nat
  /\ {MaxTasks, MaxLive, MaxEvents} \subseteq Nat
  /\ Kinds \in [1..MaxTasks -> SUBSET {"send", "deep", "inject", "plan", "approve", "iterate"}]

Tasks == 1..MaxTasks
None == 0
Plans == {None} \cup Tasks
Statuses == {"none", "pending", "approved", "rejected", "expired", "superseded"}

VARIABLES
  started,     \* requests accepted so far
  kind,        \* the endpoint of a task
  target,      \* the plan a task executes or revises
  pc,          \* created, running, saving its plan, over, or silent: cancelled
               \* before it ran
  cancelled,   \* live tasks cancel() was called on
  active,      \* session.active_task, None when reset
  history,     \* exchanges in session.history
  plan,        \* session.active_plan
  status, text, hash, \* of a plan; hash is the text it was taken of
  saves,       \* writes under way in threads
  messages,    \* exchanges in chat_messages
  row,         \* column plan_state
  expired,     \* plans older than PLAN_TTL_SECONDS
  events,      \* clears, restarts and failed writes so far
  approval,    \* history: the text a task's approval was given for
  ran,         \* history: the text a task executes
  gone,        \* history: plans rejected, cleared away or carried out while no
               \* write of them was under way; none when a removal is lost
  old          \* history: exchanges the last clear found written, likewise

session == <<active, history>>
plans == <<plan, status, text, hash>>
store == <<messages, row>>
ghosts == <<approval, ran, gone, old>>
tasks == <<started, kind, target>>
vars == <<tasks, pc, cancelled, session, plans, saves, store, expired, events, ghosts>>

Live(t) == pc[t] \in {"created", "running", "saving"}
LiveTasks == {t \in Tasks : Live(t)}
NoRow == [id |-> None, text |-> None, status |-> "none"]
Write(op, of, p) == [op |-> op, of |-> of, plan |-> p]
\* _plan_to_dict: what is saved of a plan.
Dict(p, written, as) == [id |-> p, text |-> written, status |-> as]
Waiting(p) == p # None /\ status[p] = "pending"
IsExpired(p) == p \in expired

TypeOK ==
  /\ started \in 0..MaxTasks
  /\ \A u \in Tasks : kind[u] \in Kinds[u] \cup {"none"}
  /\ target \in [Tasks -> Plans]
  /\ pc \in [Tasks -> {"none", "created", "running", "saving", "over", "silent"}]
  /\ cancelled \subseteq LiveTasks /\ active \in Plans
  /\ history \subseteq Tasks /\ messages \subseteq Tasks
  /\ plan \in Plans
  /\ status \in [Plans -> Statuses] /\ text \in [Plans -> Plans] /\ hash \in [Plans -> Plans]
  /\ row \in [id : Plans, text : Plans, status : Statuses]
  /\ expired \subseteq Plans
  /\ \A t \in Tasks : (t > started) = (pc[t] = "none")
  /\ active # None => active <= started
  /\ Waiting(plan) => text[plan] # None

Init ==
  /\ started = 0
  /\ kind = [t \in Tasks |-> "none"]
  /\ target = [t \in Tasks |-> None]
  /\ pc = [t \in Tasks |-> "none"]
  /\ cancelled = {} /\ active = None /\ history = {}
  /\ plan = None
  /\ status = [p \in Plans |-> "none"]
  /\ text = [p \in Plans |-> None]
  /\ hash = [p \in Plans |-> None]
  /\ saves = {} /\ messages = {} /\ row = NoRow
  /\ expired = {}
  /\ events = 0
  /\ approval = [t \in Tasks |-> None] /\ ran = [t \in Tasks |-> None]
  /\ gone = {} /\ old = {}

-----------------------------------------------------------------------------
(* The handlers: each runs to its end without awaiting.                    *)

\* Mutant: the new task is not noted.
ActiveOnceMore(t) == active
Active(t) == t

\* asyncio.create_task, and active_task is the new one, whatever it was.
Accept(k, p) ==
  LET t == started + 1
  IN /\ started < MaxTasks /\ k \in Kinds[t] /\ Cardinality(LiveTasks) < MaxLive
     /\ started' = t
     /\ kind' = [kind EXCEPT ![t] = k]
     /\ target' = [target EXCEPT ![t] = p]
     /\ pc' = [pc EXCEPT ![t] = "created"]
     /\ active' = Active(t)
     /\ UNCHANGED <<cancelled, history, saves, store, expired, events>>

\* chat_send and deep_start
chat_send == \E k \in {"send", "deep"} : Accept(k, None) /\ UNCHANGED <<plans, ghosts>>

\* Mutant: the plan keeps its status.
DropsSilently(p, to) == plan' = None /\ status' = status
Drops(p, to) == plan' = None /\ status' = [status EXCEPT ![p] = to]

\* An expired plan or a pending one makes room, an approved one stays.
plan_start ==
  /\ Accept("plan", None)
  /\ IF IsExpired(plan) THEN Drops(plan, "expired")
     ELSE IF Waiting(plan) THEN Drops(plan, "superseded") ELSE UNCHANGED <<plan, status>>
  /\ UNCHANGED <<text, hash, ghosts>>

\* Mutant: the text is not compared.
IntactAlways(p) == TRUE
\* Without a hash there is nothing to compare.
Intact(p) == hash[p] \in {None, text[p]}

\* The status is not looked at: an approved plan can be approved again.
plan_approve ==
  /\ plan # None /\ ~IsExpired(plan) /\ Intact(plan)
  /\ Accept("approve", plan)
  /\ status' = [status EXCEPT ![plan] = "approved"]
  /\ approval' = [approval EXCEPT ![started'] = text[plan]]
  /\ UNCHANGED <<plan, text, hash, ran, gone, old>>

plan_iterate ==
  /\ plan # None /\ ~IsExpired(plan)
  /\ Accept("iterate", plan)
  /\ UNCHANGED <<plans, ghosts>>

\* plan_status, plan_approve and plan_iterate drop a plan they find expired.
DropExpired ==
  /\ plan # None /\ IsExpired(plan)
  /\ Drops(plan, "expired")
  /\ UNCHANGED <<tasks, pc, cancelled, session, text, hash, saves, store, expired, events, ghosts>>

Pending(p) == \E s \in saves : s.plan.id = p /\ s.plan.status = "pending"

(* Plan p goes for good, if no write of it under way can come after.       *)
Goes(p) == gone' = IF Pending(p) THEN gone \ {p} ELSE gone \cup {p}

\* Mutant: rejecting a plan leaves the row alone.
ForgetNot(of) == {}
\* clear_plan_state_async
Forget(of) == {Write("forget", of, NoRow)}

plan_reject ==
  /\ plan # None
  /\ Drops(plan, "rejected")
  /\ saves' = saves \cup Forget(plan)
  /\ Goes(plan)
  /\ UNCHANGED <<tasks, pc, cancelled, session, text, hash, store, expired, events,
                 approval, ran, old>>

\* save_exchange_async, save_message_async
Exchange(t, outcome) ==
  IF outcome = "output" /\ t \in Followed THEN {Write("exchange", t, NoRow)} ELSE {}

\* A system message is an exchange without a task.
chat_inject ==
  /\ started < MaxTasks /\ "inject" \in Kinds[started + 1]
  /\ started' = started + 1
  /\ pc' = [pc EXCEPT ![started'] = "over"]
  /\ history' = history \cup ({started'} \cap Followed)
  /\ saves' = saves \cup Exchange(started', "output")
  /\ UNCHANGED <<kind, target, cancelled, active, plans, store, expired, events, ghosts>>

CancelActive == cancelled' = cancelled \cup ({active} \cap LiveTasks)

chat_abort ==
  /\ active \in LiveTasks \ cancelled
  /\ CancelActive
  /\ UNCHANGED <<tasks, pc, session, plans, saves, store, expired, events, ghosts>>

Revised(p) == \E t \in LiveTasks : kind[t] = "iterate" /\ target[t] = p

Emptied == {}

chat_clear ==
  /\ events < MaxEvents
  /\ events' = events + 1
  /\ CancelActive
  /\ history' = Emptied
  /\ plan' = None
  /\ saves' = saves \cup {Write("clear", events', NoRow)}
  /\ old' = {t \in (1..started) \cap Followed : ~Live(t) /\ \A s \in saves : s.op = "exchange" => s.of # t}
  /\ gone' = IF plan = None \/ Pending(plan) \/ Revised(plan) THEN gone \ {plan}
             ELSE gone \cup {plan}
  /\ UNCHANGED <<tasks, pc, active, status, text, hash, store, expired, approval, ran>>

\* The client of an SSE stream disconnects: its task is cancelled.
Disconnect(t) ==
  /\ t \in LiveTasks \ cancelled
  /\ cancelled' = cancelled \cup {t}
  /\ UNCHANGED <<tasks, pc, session, plans, saves, store, expired, events, ghosts>>

\* Half an hour passes.
Expire(p) ==
  /\ p = plan /\ p \notin expired \cup {None}
  /\ expired' = expired \cup {p}
  /\ UNCHANGED <<tasks, pc, cancelled, session, plans, saves, store, events, ghosts>>

-----------------------------------------------------------------------------
(* The background tasks                                                    *)

\* Tasks take their first step in the order they were created.
First(t) == pc[t] = "created" /\ \A u \in Tasks : u < t => pc[u] # "created"

\* run_approved reads the text of the plan here, not in the handler.
Begin(t) ==
  /\ First(t) /\ t \notin cancelled
  /\ pc' = [pc EXCEPT ![t] = "running"]
  /\ ran' = [ran EXCEPT ![t] = IF kind[t] = "approve" THEN text[target[t]] ELSE None]
  /\ UNCHANGED <<tasks, cancelled, session, plans, saves, store, expired, events,
                 approval, gone, old>>

Over(t, how) ==
  /\ pc' = [pc EXCEPT ![t] = how]
  /\ kind' = [kind EXCEPT ![t] = "none"]
  /\ target' = [target EXCEPT ![t] = None]
  /\ cancelled' = cancelled \ {t}
  /\ approval' = [approval EXCEPT ![t] = None]
  /\ ran' = [ran EXCEPT ![t] = None]
  /\ UNCHANGED started

\* Cancelled before its first step, none of the task's code runs: active_task
\* keeps naming it and its stream gets no end.
NeverRuns(t) ==
  /\ First(t) /\ t \in cancelled
  /\ Over(t, "silent")
  /\ UNCHANGED <<session, plans, saves, store, expired, events, gone, old>>

\* The finally block resets active_task, whichever task it names.
Done(t) == Over(t, "over") /\ active' = None

\* execute turns a cancellation into a run without output; what it raises
\* leaves no trace but in chat_send.
Ends(t, outcome) ==
  /\ pc[t] = "running"
  /\ outcome = "cancelled" => t \in cancelled
  /\ history' = IF outcome \in {"output", "error"} \/ (outcome = "raised" /\ kind[t] = "send")
                  THEN history \cup ({t} \cap Followed) ELSE history

\* run_agent and run_deep; and what raises or is cancelled in the others.
Answers(t, outcome) ==
  /\ kind[t] \in {"send", "deep"} \/ outcome \in {"raised", "cancelled"}
     \/ (kind[t] # "approve" /\ outcome = "error")
  /\ Ends(t, outcome) /\ Done(t)
  /\ saves' = saves \cup Exchange(t, outcome)
  /\ UNCHANGED <<plans, store, expired, events, gone, old>>

\* run_plan_agent: the plan is offered before it is saved, and the task waits
\* for the write.
Proposes(t) ==
  /\ kind[t] = "plan" /\ Ends(t, "output")
  /\ plan' = t
  /\ status' = [status EXCEPT ![t] = "pending"]
  /\ text' = [text EXCEPT ![t] = t]
  /\ hash' = [hash EXCEPT ![t] = t]
  /\ saves' = saves \cup Exchange(t, "output")
                    \cup {Write("plan", t, Dict(t, t, "pending"))}
  /\ pc' = [pc EXCEPT ![t] = "saving"]
  /\ UNCHANGED <<tasks, cancelled, active, store, expired, events, ghosts>>

Written(t) == \A s \in saves : s.op = "plan" => s.of # t

\* save_plan_state_async returns, the plan written or not.
Saved(t) ==
  /\ pc[t] = "saving"
  /\ Written(t) \/ t \in cancelled
  /\ Done(t)
  /\ UNCHANGED <<history, plans, saves, store, expired, events, gone, old>>

\* run_iteration: the text changes, the hash does not.
Revises(t) ==
  /\ kind[t] = "iterate" /\ Ends(t, "output") /\ Done(t)
  /\ text' = [text EXCEPT ![target[t]] = t]
  /\ saves' = saves \cup Exchange(t, "output")
                    \cup {Write("plan", t, Dict(target[t], t, status[target[t]]))}
  /\ UNCHANGED <<plan, status, hash, store, expired, events, gone, old>>

\* run_approved: whichever plan is active by now is dropped.
Executes(t, outcome) ==
  /\ kind[t] = "approve" /\ outcome \in {"output", "error"}
  /\ Ends(t, outcome) /\ Done(t)
  /\ plan' = None
  /\ saves' = saves \cup Exchange(t, outcome) \cup {Write("forget", t, NoRow)}
  /\ Goes(target[t])
  /\ UNCHANGED <<status, text, hash, store, expired, events, old>>

-----------------------------------------------------------------------------
(* The database, and the process                                           *)

Land(s) ==
  /\ s \in saves
  /\ saves' = saves \ {s}
  /\ messages' = CASE s.op = "exchange" -> messages \cup {s.of}
                   [] s.op = "clear" -> {}
                   [] OTHER -> messages
  /\ row' = CASE s.op = "plan" -> s.plan
              [] s.op \in {"forget", "clear"} -> NoRow
              [] OTHER -> row
  /\ UNCHANGED <<tasks, pc, cancelled, session, plans, expired, events, ghosts>>

Removals == {s \in saves : s.op \in {"forget", "clear"}}
Keeps(all) == gone' = (IF all THEN gone ELSE {}) /\ old' = (IF all THEN old ELSE {})

\* The wrappers of chat_store log what fails.
LandFails(s) ==
  /\ s \in saves /\ events < MaxEvents
  /\ events' = events + 1
  /\ saves' = saves \ {s}
  /\ Keeps(s \notin Removals)
  /\ UNCHANGED <<tasks, pc, cancelled, session, plans, store, expired, approval, ran>>

(* The process ends with all that is under way; the new one restores the   *)
(* last messages and a pending plan, the latter without its hash           *)
(* (_restore_sessions).                                                    *)
Restart ==
  /\ events < MaxEvents
  /\ events' = events + 1
  /\ pc' = [t \in Tasks |-> IF Live(t) THEN "over" ELSE pc[t]]
  /\ kind' = [t \in Tasks |-> "none"]
  /\ target' = [t \in Tasks |-> None]
  /\ approval' = [t \in Tasks |-> None]
  /\ ran' = [t \in Tasks |-> None]
  /\ cancelled' = {} /\ active' = None /\ saves' = {}
  /\ history' = messages
  /\ IF row.status = "pending" /\ ~IsExpired(row.id)
       THEN /\ plan' = row.id
            /\ status' = [status EXCEPT ![row.id] = row.status]
            /\ text' = [text EXCEPT ![row.id] = row.text]
            /\ hash' = [hash EXCEPT ![row.id] = None]
       ELSE plan' = None /\ UNCHANGED <<status, text, hash>>
  /\ Keeps(Removals = {})
  /\ UNCHANGED <<started, store, expired>>

Outcomes == {"output", "error", "raised", "cancelled"}
Step(t) ==
  \/ Begin(t) \/ NeverRuns(t) \/ Proposes(t) \/ Saved(t) \/ Revises(t)
  \/ \E o \in Outcomes : Answers(t, o) \/ Executes(t, o)

Next ==
  \/ chat_send \/ plan_start \/ plan_approve \/ plan_iterate
  \/ DropExpired \/ plan_reject \/ chat_inject \/ chat_abort \/ chat_clear
  \/ \E t \in Tasks : Step(t) \/ Disconnect(t)
  \/ \E p \in Plans : Expire(p)
  \/ \E s \in saves : Land(s) \/ LandFails(s)
  \/ Restart

Spec == Init /\ [][Next]_vars

-----------------------------------------------------------------------------
(* Properties *)

\* The only live task of the session is the one that abort and clear cancel,
\* unless it was live together with another one, which reset active_task.
AbortReaches ==
  [][\A t \in Tasks : LiveTasks' = {t} /\ active' # t =>
       LiveTasks \ {t} # {} \/ (LiveTasks = {t} /\ active # t)]_vars

\* A plan that was rejected, cleared away or carried out is neither offered nor
\* kept as pending in the database once its removal has been carried out, unless
\* that was lost or a write of the plan was under way.
GoneStaysGone ==
  \A p \in gone :
    plan # p /\ (row.id = p /\ row.status = "pending" => Removals # {})

\* An exchange that was written when the session was cleared does not come back
\* to the history, nor stay in the database once the deletion is carried out,
\* unless the deletion was lost.
ClearedStaysCleared ==
  \A t \in old :
    t \notin history /\ (t \in messages => Removals # {})

\* What the user took away does not come back.
RemovalsStick == GoneStaysGone /\ ClearedStaysCleared

\* What is approved is the text as proposed, until a restart forgets the hash;
\* what is executed is what was approved, or a revision that was being written
\* when the approval came.
ExecutesApproved ==
  \A t \in Tasks :
    /\ approval[t] # None =>
         approval[t] = target[t] \/ (hash[target[t]] = None /\ events > 0)
    /\ ran[t] # None => ran[t] = approval[t] \/ (ran[t] # target[t] /\ ran[t] < t)

\* A plan that waits for its decision is taken away undecided only by a clear, a
\* restart, a plan whose exploration ran at the same time, or the end of the
\* execution of another plan.
PendingPlanKept ==
  [][Waiting(plan) /\ plan' # plan =>
       \/ status'[plan] \in {"rejected", "expired", "superseded"}
       \/ events' # events
       \/ plan' # None /\ pc'[plan'] = "saving"
       \/ \E t \in LiveTasks : kind[t] = "approve" /\ ~Live(t)' /\ target[t] # plan]_vars
=============================================================================
