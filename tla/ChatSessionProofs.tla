------------------------- MODULE ChatSessionProofs -------------------------
(***************************************************************************)
(* Proofs about ChatSession, for any number of requests, followed          *)
(* exchanges, live tasks, clears, restarts and failed writes: what was     *)
(* taken away does not come back, what is executed is what was approved,   *)
(* a task that lives alone can be aborted, and a plan that waits for its   *)
(* decision is not dropped without a reason.                               *)
(***************************************************************************)
EXTENDS ChatSession, TLAPS

Pcs == {"none", "created", "running", "saving", "over", "silent"}
Endpoints == {"send", "deep", "inject", "plan", "approve", "iterate"}
Rows == [id : Plans, text : Plans, status : Statuses]
Ops == {"exchange", "plan", "forget", "clear"}
Writes == [op : Ops, of : Nat, plan : Rows]

\* A plan with a status is one that a task has written.
Authored(p, written, as) == as # "none" => p \in Tasks /\ written \in Tasks
AuthoredRow(d) == Authored(d.id, d.text, d.status)

TasksTyped ==
  /\ started \in 0 .. MaxTasks
  /\ kind \in [Tasks -> Endpoints \cup {"none"}]
  /\ \A u \in Tasks : kind[u] \in Kinds[u] \cup {"none"}
  /\ target \in [Tasks -> Plans]
  /\ pc \in [Tasks -> Pcs]
  /\ cancelled \subseteq LiveTasks
  /\ active \in Plans /\ active <= started
  /\ \A t \in Tasks : (t > started) <=> pc[t] = "none"

PlansTyped ==
  /\ plan \in Plans /\ expired \subseteq Tasks
  /\ status \in [Plans -> Statuses] /\ text \in [Plans -> Plans] /\ hash \in [Plans -> Plans]
  /\ saves \subseteq Writes /\ row \in Rows
  /\ \A s \in saves : s.op = "exchange" => s.of \in Tasks

RecordsTyped ==
  /\ history \subseteq Tasks /\ messages \subseteq Tasks
  /\ events \in Nat
  /\ approval \in [Tasks -> Plans] /\ ran \in [Tasks -> Plans]

AllAuthored ==
  /\ \A p \in Plans : Authored(p, text[p], status[p])
  /\ plan # None => text[plan] \in Tasks
  /\ \A s \in saves : AuthoredRow(s.plan)
  /\ AuthoredRow(row)

Typed == TasksTyped /\ PlansTyped /\ RecordsTyped

\* Plans there are: their tasks have proposed them, or at least are over.
Offered == {p \in Tasks : pc[p] \in {"saving", "over"}}
Existing(p) == p = None \/ p \in Offered

PlansExist ==
  /\ Existing(plan) /\ Existing(row.id)
  /\ \A s \in saves : Existing(s.plan.id)
  /\ \A t \in Tasks : target[t] = None \/ (target[t] \in Offered /\ target[t] < t)

\* Only a live task has a kind, a target and an approval.
IdleBlank == \A t \in Tasks : ~Live(t) =>
               kind[t] = "none" /\ target[t] = None /\ approval[t] = None /\ ran[t] = None
Aimed == \A t \in Tasks : kind[t] \in {"approve", "iterate"} <=> target[t] # None

\* Tasks begin in the order they were created.
BegunInOrder ==
  \A t, u \in Tasks : pc[t] = "created" /\ pc[u] \in {"running", "saving"} => u < t

-----------------------------------------------------------------------------
(* Writes *)

LEMMA TaskFacts ==
  /\ Tasks \subseteq Nat \ {0} /\ MaxTasks \in Nat /\ None \notin Tasks /\ None \in Plans
  /\ Tasks \subseteq Plans /\ Plans \subseteq Nat /\ \A p \in Plans : p # None => p \in Tasks
  BY ChatAssumption DEF Tasks, Plans, None

LEMMA KindFacts == \A t \in Tasks : Kinds[t] \subseteq Endpoints
  BY ChatAssumption DEF Tasks, Endpoints

LEMMA DictFacts ==
  ASSUME NEW p \in Plans, NEW q \in Plans, NEW a \in Statuses
  PROVE  /\ Dict(p, q, a) \in Rows
         /\ Dict(p, q, a).id = p /\ Dict(p, q, a).text = q /\ Dict(p, q, a).status = a
  BY DEF Dict, Rows

LEMMA WriteFacts ==
  ASSUME NEW o \in Ops, NEW n \in Nat, NEW d \in Rows
  PROVE  /\ Write(o, n, d) \in Writes
         /\ Write(o, n, d).op = o /\ Write(o, n, d).of = n /\ Write(o, n, d).plan = d
  BY DEF Write, Writes

LEMMA NoRowFacts ==
  NoRow \in Rows /\ NoRow.id = None /\ NoRow.text = None /\ NoRow.status = "none"
  BY DEF NoRow, Rows, Plans, None, Statuses

LEMMA ExchangeFacts ==
  ASSUME NEW t \in Tasks, NEW o, NEW s \in Exchange(t, o)
  PROVE  s \in Writes /\ s.op = "exchange" /\ s.of = t /\ s.plan = NoRow
<1>1. s = Write("exchange", t, NoRow) /\ "exchange" \in Ops /\ t \in Nat
  BY TaskFacts DEF Exchange, Ops
<1>2. QED BY <1>1, NoRowFacts, WriteFacts

LEMMA ForgetFacts ==
  ASSUME NEW p \in Plans, NEW s \in Forget(p)
  PROVE  s \in Writes /\ s.op = "forget" /\ s.of = p /\ s.plan = NoRow
<1>1. s = Write("forget", p, NoRow) /\ "forget" \in Ops /\ p \in Nat
  BY TaskFacts DEF Forget, Ops
<1>2. QED BY <1>1, NoRowFacts, WriteFacts

LEMMA RemovalFacts ==
  ASSUME NEW n \in Nat, NEW o \in {"forget", "clear"}
  PROVE  /\ Write(o, n, NoRow) \in Writes /\ Write(o, n, NoRow).op = o
         /\ Write(o, n, NoRow).plan = NoRow /\ Write(o, n, NoRow).of = n
  BY NoRowFacts, WriteFacts DEF Ops

\* The write of plan p as it is now, by task t.
LEMMA PlanWriteFacts ==
  ASSUME NEW t \in Tasks, NEW p \in Plans, NEW a \in Statuses
  PROVE  /\ Write("plan", t, Dict(p, t, a)) \in Writes
         /\ Write("plan", t, Dict(p, t, a)).op = "plan"
         /\ Write("plan", t, Dict(p, t, a)).of = t
         /\ Write("plan", t, Dict(p, t, a)).plan = Dict(p, t, a)
         /\ Write("plan", t, Dict(p, t, a)).plan.id = p
         /\ Write("plan", t, Dict(p, t, a)).plan.text = t
         /\ Write("plan", t, Dict(p, t, a)).plan.status = a
<1>1. t \in Plans /\ t \in Nat /\ "plan" \in Ops BY TaskFacts DEF Ops
<1>2. QED BY <1>1, DictFacts, WriteFacts

LEMMA PlansTypedStep == Typed /\ Aimed /\ [Next]_vars => PlansTyped'
<1> SUFFICES ASSUME Typed /\ Aimed, [Next]_vars PROVE PlansTyped'
  OBVIOUS
<1> USE TaskFacts DEF PlansTyped, session, plans, store, ghosts, tasks
<1>1. ASSUME UNCHANGED <<plans, saves, row, expired>> PROVE PlansTyped'
  BY <1>1 DEF Typed
<1>2. ASSUME plan_start PROVE PlansTyped'
  BY <1>2 DEF plan_start, Accept, Active, Drops, Typed, Statuses
<1>3. ASSUME plan_approve PROVE PlansTyped'
  BY <1>3 DEF plan_approve, Accept, Active, Typed, Statuses
<1>4. ASSUME DropExpired PROVE PlansTyped'
  BY <1>4 DEF DropExpired, Drops, Typed, Statuses
<1>5. ASSUME plan_reject PROVE PlansTyped'
  BY <1>5, ForgetFacts DEF plan_reject, Drops, Typed, Statuses
<1>6. ASSUME chat_inject PROVE PlansTyped'
  BY <1>6, ExchangeFacts DEF chat_inject, Typed, TasksTyped, Tasks
<1>7. ASSUME chat_clear PROVE PlansTyped'
  BY <1>7, RemovalFacts DEF chat_clear, CancelActive, Emptied, Typed, RecordsTyped
<1>8. ASSUME NEW t \in Tasks, Proposes(t) PROVE PlansTyped'
  BY <1>8, ExchangeFacts, PlanWriteFacts DEF Proposes, Ends, Typed, Statuses
<1>9. ASSUME NEW t \in Tasks, Revises(t) PROVE PlansTyped'
  <2> DEFINE w == Write("plan", t, Dict(target[t], t, status[target[t]]))
  <2>1. target[t] \in Plans /\ status[target[t]] \in Statuses
    BY DEF Typed, TasksTyped
  <2>2. w \in Writes /\ w.op = "plan"
    <3>1. Dict(target[t], t, status[target[t]]) \in Rows BY <2>1, TaskFacts, DictFacts
    <3>2. t \in Nat /\ "plan" \in Ops BY TaskFacts DEF Ops
    <3> HIDE TaskFacts
    <3>3. QED BY <3>1, <3>2, WriteFacts
  <2>3. saves' = saves \cup Exchange(t, "output") \cup {w}
    BY <1>9 DEF Revises
  <2> HIDE DEF w
  <2>4. saves' \subseteq Writes /\ \A s \in saves' : s.op = "exchange" => s.of \in Tasks
    BY <2>2, <2>3, ExchangeFacts DEF Typed
  <2>5. QED BY <1>9, <2>4 DEF Revises, Typed, TasksTyped, Done, Over
<1>10. ASSUME NEW t \in Tasks, NEW o \in Outcomes, Answers(t, o) PROVE PlansTyped'
  BY <1>10, ExchangeFacts DEF Answers, Ends, Done, Over, Typed
<1>11. ASSUME NEW t \in Tasks, NEW o \in Outcomes, Executes(t, o) PROVE PlansTyped'
  BY <1>11, ExchangeFacts, RemovalFacts DEF Executes, Ends, Done, Over, Typed
<1>12. ASSUME NEW p \in Plans, Expire(p) PROVE PlansTyped'
  BY <1>12 DEF Expire, Typed
<1>13. ASSUME NEW s \in saves, Land(s) PROVE PlansTyped'
  BY <1>13, NoRowFacts DEF Land, Typed, Writes
<1>14. ASSUME NEW s \in saves, LandFails(s) PROVE PlansTyped'
  BY <1>14 DEF LandFails, Keeps, Typed
<1>15. ASSUME Restart PROVE PlansTyped'
  BY <1>15 DEF Restart, Keeps, Typed, Rows
<1> QED
  BY <1>1, <1>2, <1>3, <1>4, <1>5, <1>6, <1>7, <1>8, <1>9, <1>10, <1>11, <1>12, <1>13, <1>14,
     <1>15
  DEF Next, Step, vars, tasks, session, plans, store, ghosts, Accept, Active, Begin, CancelActive,
      Disconnect, Done, First, NeverRuns, Over, Saved, Written, chat_abort, chat_send,
      plan_iterate

LEMMA RecordsTypedStep == Typed /\ [Next]_vars => RecordsTyped'
<1> SUFFICES ASSUME Typed, [Next]_vars PROVE RecordsTyped'
  OBVIOUS
<1> USE TaskFacts DEF RecordsTyped, session, plans, store, ghosts, tasks
<1>1. ASSUME UNCHANGED <<history, messages, events, approval, ran>> PROVE RecordsTyped'
  BY <1>1 DEF Typed
<1>2. ASSUME plan_approve PROVE RecordsTyped'
  BY <1>2 DEF plan_approve, Accept, Active, Typed, PlansTyped, TasksTyped
<1>3. ASSUME chat_inject PROVE RecordsTyped'
  <2>1. started' \in Tasks BY <1>3 DEF chat_inject, Typed, TasksTyped, Tasks
  <2>2. QED BY <1>3, <2>1 DEF chat_inject, Typed
<1>4. ASSUME chat_clear PROVE RecordsTyped'
  BY <1>4 DEF chat_clear, CancelActive, Emptied, Typed
<1>5. ASSUME NEW t \in Tasks, Begin(t) PROVE RecordsTyped'
  BY <1>5 DEF Begin, First, Typed, PlansTyped, TasksTyped
<1>6. ASSUME NEW t \in Tasks, NeverRuns(t) PROVE RecordsTyped'
  BY <1>6 DEF NeverRuns, First, Over, Typed
<1>7. ASSUME NEW t \in Tasks, Proposes(t) PROVE RecordsTyped'
  BY <1>7 DEF Proposes, Ends, Typed
<1>8. ASSUME NEW t \in Tasks, Saved(t) PROVE RecordsTyped'
  BY <1>8 DEF Saved, Done, Over, Written, Typed
<1>9. ASSUME NEW t \in Tasks, Revises(t) PROVE RecordsTyped'
  BY <1>9 DEF Revises, Ends, Done, Over, Typed
<1>10. ASSUME NEW t \in Tasks, NEW o \in Outcomes, Answers(t, o) PROVE RecordsTyped'
  BY <1>10 DEF Answers, Ends, Done, Over, Typed
<1>11. ASSUME NEW t \in Tasks, NEW o \in Outcomes, Executes(t, o) PROVE RecordsTyped'
  BY <1>11 DEF Executes, Ends, Done, Over, Typed
<1>12. ASSUME NEW s \in saves, Land(s) PROVE RecordsTyped'
  BY <1>12 DEF Land, Typed, PlansTyped
<1>13. ASSUME NEW s \in saves, LandFails(s) PROVE RecordsTyped'
  BY <1>13 DEF LandFails, Keeps, Typed
<1>14. ASSUME Restart PROVE RecordsTyped'
  BY <1>14 DEF Restart, Keeps, Typed
<1> QED
  BY <1>1, <1>2, <1>3, <1>4, <1>5, <1>6, <1>7, <1>8, <1>9, <1>10, <1>11, <1>12, <1>13, <1>14
  DEF Next, Step, vars, tasks, session, plans, store, ghosts, Accept, Active, CancelActive,
      Disconnect, DropExpired, Drops, Expire, chat_abort, chat_send, plan_iterate, plan_reject,
      plan_start

LEMMA AcceptTyped ==
  ASSUME Typed, NEW k, NEW p \in Plans, Accept(k, p)
  PROVE  TasksTyped' /\ started' \in Tasks /\ started' = started + 1
<1> DEFINE n == started + 1
<1> USE TaskFacts DEF Typed, TasksTyped, Accept
<1>1. n \in Tasks /\ started' = n /\ k \in Kinds[n] /\ k \in Endpoints
  BY KindFacts DEF Tasks
<1>2. /\ kind' \in [Tasks -> Endpoints \cup {"none"}] /\ target' \in [Tasks -> Plans]
      /\ \A u \in Tasks : kind'[u] \in Kinds[u] \cup {"none"}
  BY <1>1
<1>3. pc' \in [Tasks -> Pcs] /\ \A u \in Tasks : (u > started') <=> pc'[u] = "none"
  BY <1>1 DEF Pcs
<1>4. cancelled' \subseteq LiveTasks'
  BY <1>1 DEF LiveTasks, Live
<1>5. active' \in Plans /\ active' <= started'
  BY <1>1 DEF Active
<1>6. QED BY <1>1, <1>2, <1>3, <1>4, <1>5

LEMMA OverTyped ==
  ASSUME Typed, NEW t \in Tasks, pc[t] \in {"created", "running", "saving"},
         NEW how \in {"over", "silent"}, Over(t, how), active' \in {active, None}
  PROVE  TasksTyped'
<1> USE TaskFacts DEF Typed, TasksTyped, Over
<1>1. /\ started' = started /\ pc' = [pc EXCEPT ![t] = how]
      /\ kind' = [kind EXCEPT ![t] = "none"] /\ target' = [target EXCEPT ![t] = None]
      /\ cancelled' = cancelled \ {t}
  OBVIOUS
<1>2. /\ kind' \in [Tasks -> Endpoints \cup {"none"}] /\ target' \in [Tasks -> Plans]
      /\ \A u \in Tasks : kind'[u] \in Kinds[u] \cup {"none"}
  BY <1>1 DEF LiveTasks, Live
<1>3. pc' \in [Tasks -> Pcs] /\ \A u \in Tasks : pc'[u] = "none" <=> pc[u] = "none"
  BY <1>1 DEF Pcs
<1>4. cancelled' \subseteq LiveTasks'
  BY <1>1 DEF LiveTasks, Live
<1>5. active' \in Plans /\ active' <= started
  BY DEF None
<1>6. QED BY <1>1, <1>2, <1>3, <1>4, <1>5

LEMMA TasksTypedStep == Typed /\ [Next]_vars => TasksTyped'
<1> SUFFICES ASSUME Typed, [Next]_vars PROVE TasksTyped'
  OBVIOUS
<1> USE TaskFacts DEF Typed, TasksTyped, session, plans, store, ghosts, tasks
<1>1. ASSUME UNCHANGED <<tasks, pc, cancelled, active>> PROVE TasksTyped'
  BY <1>1 DEF LiveTasks, Live
<1>2. ASSUME chat_send PROVE TasksTyped'
  BY <1>2, AcceptTyped DEF chat_send, PlansTyped
<1>3. ASSUME plan_start PROVE TasksTyped'
  BY <1>3, AcceptTyped DEF plan_start, PlansTyped
<1>4. ASSUME plan_approve PROVE TasksTyped'
  BY <1>4, AcceptTyped DEF plan_approve, PlansTyped
<1>5. ASSUME plan_iterate PROVE TasksTyped'
  BY <1>5, AcceptTyped DEF plan_iterate, PlansTyped
<1>6. ASSUME chat_inject PROVE TasksTyped'
  BY <1>6 DEF chat_inject, LiveTasks, Live, Pcs, Tasks
<1>7. ASSUME chat_abort PROVE TasksTyped'
  BY <1>7 DEF chat_abort, CancelActive, LiveTasks, Live, Pcs
<1>8. ASSUME chat_clear PROVE TasksTyped'
  BY <1>8 DEF chat_clear, CancelActive, Emptied, LiveTasks, Live, Pcs
<1>9. ASSUME NEW t \in Tasks, Begin(t) PROVE TasksTyped'
  BY <1>9 DEF Begin, First, LiveTasks, Live, Pcs
<1>10. ASSUME NEW t \in Tasks, NeverRuns(t) PROVE TasksTyped'
  BY <1>10 DEF NeverRuns, First, Over, LiveTasks, Live, Pcs
<1>11. ASSUME NEW t \in Tasks, Proposes(t) PROVE TasksTyped'
  BY <1>11 DEF Proposes, Ends, LiveTasks, Live, Pcs
<1>12. ASSUME NEW t \in Tasks, Saved(t) PROVE TasksTyped'
  BY <1>12, OverTyped DEF Saved, Done, Over, Written, LiveTasks, Live, Pcs
<1>13. ASSUME NEW t \in Tasks, Revises(t) PROVE TasksTyped'
  BY <1>13, OverTyped DEF Revises, Ends, Done, Over, LiveTasks, Live, Pcs
<1>14. ASSUME NEW t \in Tasks, NEW o \in Outcomes, Answers(t, o) PROVE TasksTyped'
  BY <1>14, OverTyped DEF Answers, Ends, Done, Over, LiveTasks, Live, Pcs
<1>15. ASSUME NEW t \in Tasks, NEW o \in Outcomes, Executes(t, o) PROVE TasksTyped'
  BY <1>15, OverTyped DEF Executes, Ends, Done, Over, LiveTasks, Live, Pcs
<1>16. ASSUME NEW t \in Tasks, Disconnect(t) PROVE TasksTyped'
  BY <1>16 DEF Disconnect, LiveTasks, Live, Pcs
<1>17. ASSUME Restart PROVE TasksTyped'
  <2>1. /\ kind' \in [Tasks -> Endpoints \cup {"none"}]
        /\ \A u \in Tasks : kind'[u] \in Kinds[u] \cup {"none"}
        /\ target' \in [Tasks -> Plans]
    BY <1>17 DEF Restart
  <2>2. pc' \in [Tasks -> Pcs] /\ \A t \in Tasks : pc'[t] = "none" <=> pc[t] = "none"
    BY <1>17 DEF Restart, Live, Pcs
  <2>3. started' = started /\ cancelled' = {} /\ active' = None /\ None <= started
    BY <1>17 DEF Restart, None
  <2>4. QED BY <2>1, <2>2, <2>3
<1> QED
  BY <1>1, <1>2, <1>3, <1>4, <1>5, <1>6, <1>7, <1>8, <1>9, <1>10, <1>11, <1>12, <1>13, <1>14,
     <1>15, <1>16, <1>17
  DEF Next, Step, vars, tasks, session, plans, store, ghosts, DropExpired, Drops, Expire, Keeps,
      Land, LandFails, plan_reject

LEMMA AllAuthoredStep == Typed /\ Aimed /\ AllAuthored /\ [Next]_vars => AllAuthored'
<1> SUFFICES ASSUME Typed /\ Aimed /\ AllAuthored, [Next]_vars PROVE AllAuthored'
  OBVIOUS
<1> USE TaskFacts DEF AllAuthored, session, plans, store, ghosts, tasks
<1>1. ASSUME UNCHANGED <<plan, status, text, saves, row>> PROVE AllAuthored'
  BY <1>1 DEF AuthoredRow
<1>2. ASSUME plan_start PROVE AllAuthored'
  BY <1>2 DEF plan_start, Accept, Active, Drops, Typed, PlansTyped, Authored, Waiting, IsExpired
<1>3. ASSUME plan_approve PROVE AllAuthored'
  BY <1>3 DEF plan_approve, Accept, Active, Typed, PlansTyped, Authored, Intact
<1>4. ASSUME DropExpired PROVE AllAuthored'
  BY <1>4 DEF DropExpired, Drops, Typed, PlansTyped, Authored, IsExpired
<1>5. ASSUME plan_reject PROVE AllAuthored'
  BY <1>5, ForgetFacts, NoRowFacts
  DEF plan_reject, Drops, Typed, PlansTyped, Authored, AuthoredRow
<1>6. ASSUME chat_inject PROVE AllAuthored'
  BY <1>6, ExchangeFacts, NoRowFacts
  DEF chat_inject, Typed, PlansTyped, Authored, AuthoredRow, TasksTyped, Tasks
<1>7. ASSUME chat_clear PROVE AllAuthored'
  BY <1>7, RemovalFacts, NoRowFacts
  DEF chat_clear, CancelActive, Emptied, Typed, PlansTyped, Authored, AuthoredRow, RecordsTyped
<1>8. ASSUME NEW t \in Tasks, Proposes(t) PROVE AllAuthored'
  BY <1>8, ExchangeFacts, NoRowFacts, PlanWriteFacts
  DEF Proposes, Ends, Typed, PlansTyped, Authored, AuthoredRow, Statuses
<1>9. ASSUME NEW t \in Tasks, Revises(t) PROVE AllAuthored'
  <2>1. /\ target[t] \in Tasks /\ status[target[t]] \in Statuses
        /\ t \in Plans
    BY <1>9 DEF Revises, Typed, TasksTyped, PlansTyped, Aimed
  <2> DEFINE w == Write("plan", t, Dict(target[t], t, status[target[t]]))
  <2>6. w.plan.id = target[t] /\ w.plan.text = t BY DEF Write, Dict
  <2>2. AuthoredRow(w.plan)
    BY <2>1, <2>6 DEF AuthoredRow, Authored
  <2>3. \A s \in saves' : AuthoredRow(s.plan)
    BY <1>9, <2>2, ExchangeFacts, NoRowFacts DEF Revises, AuthoredRow, Authored
  <2>4. text' = [text EXCEPT ![target[t]] = t] /\ plan' = plan /\ status' = status /\ row' = row
    BY <1>9 DEF Revises
  <2>5. QED BY <2>1, <2>3, <2>4 DEF Typed, PlansTyped, Authored, AuthoredRow
<1>10. ASSUME NEW t \in Tasks, NEW o \in Outcomes, Answers(t, o) PROVE AllAuthored'
  BY <1>10, ExchangeFacts, NoRowFacts
  DEF Answers, Ends, Done, Over, Typed, PlansTyped, Authored, AuthoredRow
<1>11. ASSUME NEW t \in Tasks, NEW o \in Outcomes, Executes(t, o) PROVE AllAuthored'
  BY <1>11, ExchangeFacts, RemovalFacts, NoRowFacts
  DEF Executes, Ends, Done, Over, Typed, PlansTyped, Authored, AuthoredRow
<1>12. ASSUME NEW s \in saves, Land(s) PROVE AllAuthored'
  BY <1>12, NoRowFacts DEF Land, Typed, PlansTyped, Authored, AuthoredRow, Writes
<1>13. ASSUME NEW s \in saves, LandFails(s) PROVE AllAuthored'
  BY <1>13 DEF LandFails, Keeps, Typed, PlansTyped, Authored, AuthoredRow
<1>14. ASSUME Restart PROVE AllAuthored'
  BY <1>14 DEF Restart, Keeps, Typed, PlansTyped, Authored, AuthoredRow, Rows
<1> QED
  BY <1>1, <1>2, <1>3, <1>4, <1>5, <1>6, <1>7, <1>8, <1>9, <1>10, <1>11, <1>12, <1>13, <1>14
  DEF Next, Step, vars, tasks, session, plans, store, ghosts, Accept, Active, Begin, CancelActive,
      Disconnect, Done, Expire, First, NeverRuns, Over, Saved, Written, chat_abort, chat_send,
      plan_iterate

-----------------------------------------------------------------------------
(* Plans and the tasks they belong to *)

LEMMA OfferedStays == Typed /\ [Next]_vars => Offered \subseteq Offered'
<1> SUFFICES ASSUME Typed, [Next]_vars PROVE Offered \subseteq Offered'
  OBVIOUS
<1> USE TaskFacts DEF session, plans, store, ghosts, tasks
<1>1. ASSUME UNCHANGED <<pc>> PROVE Offered \subseteq Offered'
  BY <1>1 DEF Offered
<1>2. ASSUME chat_send PROVE Offered \subseteq Offered'
  BY <1>2 DEF chat_send, Accept, Active, Typed, TasksTyped, Offered, Live, Pcs
<1>3. ASSUME plan_start PROVE Offered \subseteq Offered'
  BY <1>3 DEF plan_start, Accept, Active, Drops, Typed, TasksTyped, Offered, Live, Pcs
<1>4. ASSUME plan_approve PROVE Offered \subseteq Offered'
  BY <1>4 DEF plan_approve, Accept, Active, Typed, TasksTyped, Offered, Live, Pcs
<1>5. ASSUME plan_iterate PROVE Offered \subseteq Offered'
  BY <1>5 DEF plan_iterate, Accept, Active, Typed, TasksTyped, Offered, Live, Pcs
<1>6. ASSUME chat_inject PROVE Offered \subseteq Offered'
  BY <1>6 DEF chat_inject, Typed, TasksTyped, Offered, Live, Pcs
<1>7. ASSUME NEW t \in Tasks, Begin(t) PROVE Offered \subseteq Offered'
  BY <1>7 DEF Begin, First, Typed, TasksTyped, Offered, Live, Pcs
<1>8. ASSUME NEW t \in Tasks, NeverRuns(t) PROVE Offered \subseteq Offered'
  BY <1>8 DEF NeverRuns, First, Over, Typed, TasksTyped, Offered, Live, Pcs
<1>9. ASSUME NEW t \in Tasks, Proposes(t) PROVE Offered \subseteq Offered'
  BY <1>9 DEF Proposes, Ends, Typed, TasksTyped, Offered, Live, Pcs
<1>10. ASSUME NEW t \in Tasks, Saved(t) PROVE Offered \subseteq Offered'
  BY <1>10 DEF Saved, Done, Over, Written, Typed, TasksTyped, Offered, Live, Pcs
<1>11. ASSUME NEW t \in Tasks, Revises(t) PROVE Offered \subseteq Offered'
  BY <1>11 DEF Revises, Ends, Done, Over, Typed, TasksTyped, Offered, Live, Pcs
<1>12. ASSUME NEW t \in Tasks, NEW o \in Outcomes, Answers(t, o) PROVE Offered \subseteq Offered'
  BY <1>12 DEF Answers, Ends, Done, Over, Typed, TasksTyped, Offered, Live, Pcs
<1>13. ASSUME NEW t \in Tasks, NEW o \in Outcomes, Executes(t, o) PROVE Offered \subseteq Offered'
  BY <1>13 DEF Executes, Ends, Done, Over, Typed, TasksTyped, Offered, Live, Pcs
<1>14. ASSUME Restart PROVE Offered \subseteq Offered'
  BY <1>14 DEF Restart, Keeps, Typed, TasksTyped, Offered, Live, Pcs
<1> QED
  BY <1>1, <1>2, <1>3, <1>4, <1>5, <1>6, <1>7, <1>8, <1>9, <1>10, <1>11, <1>12, <1>13, <1>14
  DEF Next, Step, vars, tasks, session, plans, store, ghosts, CancelActive, Disconnect,
      DropExpired, Drops, Emptied, Expire, Keeps, Land, LandFails, chat_abort, chat_clear,
      plan_reject

LEMMA PlansExistStep == Typed /\ Aimed /\ PlansExist /\ [Next]_vars => PlansExist'
<1> SUFFICES ASSUME Typed /\ Aimed /\ PlansExist, [Next]_vars PROVE PlansExist'
  OBVIOUS
<1> USE TaskFacts DEF session, plans, store, ghosts, tasks
<1>0. Offered \subseteq Offered' BY OfferedStays
<1> USE <1>0
<1>1. ASSUME UNCHANGED <<plan, saves, row, target, pc>> PROVE PlansExist'
  BY <1>1 DEF PlansExist, Existing, Offered
<1>2. ASSUME chat_send PROVE PlansExist'
  BY <1>2, AcceptTyped
  DEF chat_send, Accept, Active, Typed, TasksTyped, PlansTyped, PlansExist, Existing, Tasks
<1>3. ASSUME plan_start PROVE PlansExist'
  BY <1>3, AcceptTyped
  DEF plan_start, Accept, Active, Drops, Typed, TasksTyped, PlansTyped, PlansExist, Existing,
      Tasks
<1>4. ASSUME plan_approve PROVE PlansExist'
  BY <1>4, AcceptTyped
  DEF plan_approve, Accept, Active, Typed, TasksTyped, PlansTyped, PlansExist, Existing, Offered,
      Tasks
<1>5. ASSUME plan_iterate PROVE PlansExist'
  BY <1>5, AcceptTyped
  DEF plan_iterate, Accept, Active, Typed, TasksTyped, PlansTyped, PlansExist, Existing, Offered,
      Tasks
<1>6. ASSUME DropExpired PROVE PlansExist'
  BY <1>6 DEF DropExpired, Drops, Typed, TasksTyped, PlansTyped, PlansExist, Existing
<1>7. ASSUME plan_reject PROVE PlansExist'
  BY <1>7, ForgetFacts, NoRowFacts
  DEF plan_reject, Drops, Typed, TasksTyped, PlansTyped, PlansExist, Existing
<1>8. ASSUME chat_inject PROVE PlansExist'
  BY <1>8, ExchangeFacts, NoRowFacts
  DEF chat_inject, Typed, TasksTyped, PlansTyped, PlansExist, Existing, Tasks
<1>9. ASSUME chat_clear PROVE PlansExist'
  BY <1>9, RemovalFacts, NoRowFacts
  DEF chat_clear, CancelActive, Emptied, Typed, TasksTyped, PlansTyped, PlansExist, Existing,
      RecordsTyped
<1>10. ASSUME NEW t \in Tasks, Begin(t) PROVE PlansExist'
  BY <1>10 DEF Begin, First, Typed, TasksTyped, PlansTyped, PlansExist, Existing
<1>11. ASSUME NEW t \in Tasks, NeverRuns(t) PROVE PlansExist'
  BY <1>11 DEF NeverRuns, First, Over, Typed, TasksTyped, PlansTyped, PlansExist, Existing
<1>12. ASSUME NEW t \in Tasks, Proposes(t) PROVE PlansExist'
  BY <1>12, ExchangeFacts, NoRowFacts, PlanWriteFacts
  DEF Proposes, Ends, Typed, TasksTyped, PlansTyped, PlansExist, Existing, Offered, Statuses
<1>13. ASSUME NEW t \in Tasks, Saved(t) PROVE PlansExist'
  BY <1>13 DEF Saved, Done, Over, Written, Typed, TasksTyped, PlansTyped, PlansExist, Existing
<1>14. ASSUME NEW t \in Tasks, Revises(t) PROVE PlansExist'
  <2> DEFINE w == Write("plan", t, Dict(target[t], t, status[target[t]]))
  <2>1. w.plan.id = target[t] BY DEF Write, Dict
  <2>2. saves' = saves \cup Exchange(t, "output") \cup {w} BY <1>14 DEF Revises
  <2> HIDE DEF w
  <2>3. \A s \in saves' : Existing(s.plan.id)'
    <3> SUFFICES ASSUME NEW s \in saves' PROVE Existing(s.plan.id)'
      OBVIOUS
    <3>1. CASE s \in saves BY <3>1 DEF PlansExist, Existing
    <3>2. CASE s \in Exchange(t, "output")
      BY <3>2, ExchangeFacts, NoRowFacts DEF Existing
    <3>3. CASE s = w BY <2>1, <3>3 DEF PlansExist, Existing
    <3>4. QED BY <2>2, <3>1, <3>2, <3>3
  <2>4. QED
    BY <1>14, <2>3 DEF Revises, Done, Over, Typed, TasksTyped, PlansExist, Existing
<1>15. ASSUME NEW t \in Tasks, NEW o \in Outcomes, Answers(t, o) PROVE PlansExist'
  BY <1>15, ExchangeFacts, NoRowFacts
  DEF Answers, Ends, Done, Over, Typed, TasksTyped, PlansTyped, PlansExist, Existing
<1>16. ASSUME NEW t \in Tasks, NEW o \in Outcomes, Executes(t, o) PROVE PlansExist'
  BY <1>16, ExchangeFacts, RemovalFacts, NoRowFacts
  DEF Executes, Ends, Done, Over, Typed, TasksTyped, PlansTyped, PlansExist, Existing
<1>17. ASSUME NEW s \in saves, Land(s) PROVE PlansExist'
  BY <1>17, NoRowFacts DEF Land, Typed, TasksTyped, PlansTyped, PlansExist, Existing
<1>18. ASSUME NEW s \in saves, LandFails(s) PROVE PlansExist'
  BY <1>18 DEF LandFails, Keeps, Typed, TasksTyped, PlansTyped, PlansExist, Existing
<1>19. ASSUME Restart PROVE PlansExist'
  BY <1>19 DEF Restart, Keeps, Typed, TasksTyped, PlansTyped, PlansExist, Existing
<1> QED
  BY <1>1, <1>2, <1>3, <1>4, <1>5, <1>6, <1>7, <1>8, <1>9, <1>10, <1>11, <1>12, <1>13, <1>14,
     <1>15, <1>16, <1>17, <1>18, <1>19
  DEF Next, Step, vars, tasks, session, plans, store, ghosts, CancelActive, Disconnect, Expire,
      chat_abort

LEMMA IdleBlankStep == Typed /\ IdleBlank /\ [Next]_vars => IdleBlank'
<1> SUFFICES ASSUME Typed /\ IdleBlank, [Next]_vars PROVE IdleBlank'
  OBVIOUS
<1> USE TaskFacts DEF session, plans, store, ghosts, tasks
<1>1. ASSUME UNCHANGED <<kind, target, pc, approval, ran>> PROVE IdleBlank'
  BY <1>1 DEF IdleBlank, Live
<1>2. ASSUME chat_send PROVE IdleBlank'
  BY <1>2, AcceptTyped
  DEF chat_send, Accept, Active, Typed, TasksTyped, RecordsTyped, IdleBlank, Live
<1>3. ASSUME plan_start PROVE IdleBlank'
  BY <1>3, AcceptTyped
  DEF plan_start, Accept, Active, Drops, Typed, TasksTyped, RecordsTyped, IdleBlank, Live
<1>4. ASSUME plan_approve PROVE IdleBlank'
  BY <1>4, AcceptTyped
  DEF plan_approve, Accept, Active, Typed, TasksTyped, RecordsTyped, IdleBlank, Live
<1>5. ASSUME plan_iterate PROVE IdleBlank'
  BY <1>5, AcceptTyped
  DEF plan_iterate, Accept, Active, Typed, TasksTyped, RecordsTyped, IdleBlank, Live
<1>6. ASSUME chat_inject PROVE IdleBlank'
  BY <1>6 DEF chat_inject, Typed, TasksTyped, RecordsTyped, IdleBlank, Live, Tasks
<1>7. ASSUME NEW t \in Tasks, Begin(t) PROVE IdleBlank'
  BY <1>7 DEF Begin, First, Typed, TasksTyped, RecordsTyped, IdleBlank, Live
<1>8. ASSUME NEW t \in Tasks, NeverRuns(t) PROVE IdleBlank'
  BY <1>8 DEF NeverRuns, First, Over, Typed, TasksTyped, RecordsTyped, IdleBlank, Live
<1>9. ASSUME NEW t \in Tasks, Proposes(t) PROVE IdleBlank'
  BY <1>9 DEF Proposes, Ends, Typed, TasksTyped, RecordsTyped, IdleBlank, Live
<1>10. ASSUME NEW t \in Tasks, Saved(t) PROVE IdleBlank'
  BY <1>10 DEF Saved, Done, Over, Written, Typed, TasksTyped, RecordsTyped, IdleBlank, Live
<1>11. ASSUME NEW t \in Tasks, Revises(t) PROVE IdleBlank'
  BY <1>11 DEF Revises, Ends, Done, Over, Typed, TasksTyped, RecordsTyped, IdleBlank, Live
<1>12. ASSUME NEW t \in Tasks, NEW o \in Outcomes, Answers(t, o) PROVE IdleBlank'
  BY <1>12 DEF Answers, Ends, Done, Over, Typed, TasksTyped, RecordsTyped, IdleBlank, Live
<1>13. ASSUME NEW t \in Tasks, NEW o \in Outcomes, Executes(t, o) PROVE IdleBlank'
  BY <1>13 DEF Executes, Ends, Done, Over, Typed, TasksTyped, RecordsTyped, IdleBlank, Live
<1>14. ASSUME Restart PROVE IdleBlank'
  BY <1>14 DEF Restart, Keeps, Typed, TasksTyped, RecordsTyped, IdleBlank, Live
<1> QED
  BY <1>1, <1>2, <1>3, <1>4, <1>5, <1>6, <1>7, <1>8, <1>9, <1>10, <1>11, <1>12, <1>13, <1>14
  DEF Next, Step, vars, tasks, session, plans, store, ghosts, CancelActive, Disconnect,
      DropExpired, Drops, Emptied, Expire, Keeps, Land, LandFails, chat_abort, chat_clear,
      plan_reject

LEMMA AimedStep == Typed /\ Aimed /\ [Next]_vars => Aimed'
<1> SUFFICES ASSUME Typed /\ Aimed, [Next]_vars PROVE Aimed'
  OBVIOUS
<1> USE TaskFacts DEF session, plans, store, ghosts, tasks
<1>1. ASSUME UNCHANGED <<kind, target>> PROVE Aimed'
  BY <1>1 DEF Aimed
<1>2. ASSUME chat_send PROVE Aimed'
  BY <1>2, AcceptTyped DEF chat_send, Accept, Active, Typed, TasksTyped, Aimed
<1>3. ASSUME plan_start PROVE Aimed'
  BY <1>3, AcceptTyped DEF plan_start, Accept, Active, Drops, Typed, TasksTyped, Aimed
<1>4. ASSUME plan_approve PROVE Aimed'
  BY <1>4, AcceptTyped DEF plan_approve, Accept, Active, Typed, TasksTyped, Aimed
<1>5. ASSUME plan_iterate PROVE Aimed'
  BY <1>5, AcceptTyped DEF plan_iterate, Accept, Active, Typed, TasksTyped, Aimed
<1>6. ASSUME NEW t \in Tasks, NeverRuns(t) PROVE Aimed'
  BY <1>6 DEF NeverRuns, First, Over, Typed, TasksTyped, Aimed
<1>7. ASSUME NEW t \in Tasks, Saved(t) PROVE Aimed'
  BY <1>7 DEF Saved, Done, Over, Written, Typed, TasksTyped, Aimed
<1>8. ASSUME NEW t \in Tasks, Revises(t) PROVE Aimed'
  BY <1>8 DEF Revises, Ends, Done, Over, Typed, TasksTyped, Aimed
<1>9. ASSUME NEW t \in Tasks, NEW o \in Outcomes, Answers(t, o) PROVE Aimed'
  BY <1>9 DEF Answers, Ends, Done, Over, Typed, TasksTyped, Aimed
<1>10. ASSUME NEW t \in Tasks, NEW o \in Outcomes, Executes(t, o) PROVE Aimed'
  BY <1>10 DEF Executes, Ends, Done, Over, Typed, TasksTyped, Aimed
<1>11. ASSUME Restart PROVE Aimed'
  BY <1>11 DEF Restart, Keeps, Typed, TasksTyped, Aimed
<1> QED
  BY <1>1, <1>2, <1>3, <1>4, <1>5, <1>6, <1>7, <1>8, <1>9, <1>10, <1>11
  DEF Next, Step, vars, tasks, session, plans, store, ghosts, Begin, CancelActive, Disconnect,
      DropExpired, Drops, Emptied, Ends, Expire, First, Keeps, Land, LandFails, Proposes,
      chat_abort, chat_clear, chat_inject, plan_reject

LEMMA AcceptOrder ==
  ASSUME Typed, BegunInOrder, NEW k, NEW p \in Plans, Accept(k, p)
  PROVE  BegunInOrder'
<1>1. PICK n \in Tasks : n = started + 1 /\ pc' = [pc EXCEPT ![n] = "created"]
  BY AcceptTyped DEF Accept
<1>2. \A u \in Tasks : pc[u] # "none" => u < n
  BY <1>1, TaskFacts DEF Typed, TasksTyped
<1>3. QED BY <1>1, <1>2 DEF Typed, TasksTyped, BegunInOrder

LEMMA OrderStep == Typed /\ BegunInOrder /\ [Next]_vars => BegunInOrder'
<1> SUFFICES ASSUME Typed /\ BegunInOrder, [Next]_vars PROVE BegunInOrder'
  OBVIOUS
<1> USE TaskFacts DEF session, plans, store, ghosts, tasks
<1>1. ASSUME UNCHANGED <<pc>> PROVE BegunInOrder'
  BY <1>1 DEF BegunInOrder
<1>2. ASSUME chat_send PROVE BegunInOrder'
  BY <1>2, AcceptOrder DEF chat_send, Typed, PlansTyped
<1>3. ASSUME plan_start PROVE BegunInOrder'
  BY <1>3, AcceptOrder DEF plan_start, Typed, PlansTyped
<1>4. ASSUME plan_approve PROVE BegunInOrder'
  BY <1>4, AcceptOrder DEF plan_approve, Typed, PlansTyped
<1>5. ASSUME plan_iterate PROVE BegunInOrder'
  BY <1>5, AcceptOrder DEF plan_iterate, Typed, PlansTyped
<1>6. ASSUME chat_inject PROVE BegunInOrder'
  BY <1>6 DEF chat_inject, Typed, TasksTyped, BegunInOrder, Pcs
<1>7. ASSUME NEW t \in Tasks, Begin(t) PROVE BegunInOrder'
  BY <1>7 DEF Begin, First, Typed, TasksTyped, BegunInOrder, Pcs
<1>8. ASSUME NEW t \in Tasks, NeverRuns(t) PROVE BegunInOrder'
  BY <1>8 DEF NeverRuns, First, Over, Typed, TasksTyped, BegunInOrder, Pcs
<1>9. ASSUME NEW t \in Tasks, Proposes(t) PROVE BegunInOrder'
  BY <1>9 DEF Proposes, Ends, Typed, TasksTyped, BegunInOrder, Pcs
<1>10. ASSUME NEW t \in Tasks, Saved(t) PROVE BegunInOrder'
  BY <1>10 DEF Saved, Done, Over, Written, Typed, TasksTyped, BegunInOrder, Pcs
<1>11. ASSUME NEW t \in Tasks, Revises(t) PROVE BegunInOrder'
  BY <1>11 DEF Revises, Ends, Done, Over, Typed, TasksTyped, BegunInOrder, Pcs
<1>12. ASSUME NEW t \in Tasks, NEW o \in Outcomes, Answers(t, o) PROVE BegunInOrder'
  BY <1>12 DEF Answers, Ends, Done, Over, Typed, TasksTyped, BegunInOrder, Pcs
<1>13. ASSUME NEW t \in Tasks, NEW o \in Outcomes, Executes(t, o) PROVE BegunInOrder'
  BY <1>13 DEF Executes, Ends, Done, Over, Typed, TasksTyped, BegunInOrder, Pcs
<1>14. ASSUME Restart PROVE BegunInOrder'
  BY <1>14 DEF Restart, Keeps, Typed, TasksTyped, BegunInOrder, Pcs
<1> QED
  BY <1>1, <1>2, <1>3, <1>4, <1>5, <1>6, <1>7, <1>8, <1>9, <1>10, <1>11, <1>12, <1>13, <1>14
  DEF Next, Step, vars, tasks, session, plans, store, ghosts, CancelActive, Disconnect,
      DropExpired, Drops, Emptied, Expire, Keeps, Land, LandFails, chat_abort, chat_clear,
      plan_reject

-----------------------------------------------------------------------------
(* Approvals *)

BaseInv == Typed /\ AllAuthored /\ PlansExist /\ IdleBlank /\ Aimed /\ BegunInOrder

LEMMA BaseStart == Init => BaseInv
<1> SUFFICES ASSUME Init PROVE BaseInv
  OBVIOUS
<1> USE TaskFacts DEF Init
<1>1. TasksTyped
  BY DEF TasksTyped, Pcs, None
<1>2. PlansTyped /\ AllAuthored
  BY NoRowFacts DEF PlansTyped, AllAuthored, AuthoredRow, Authored, Statuses
<1>3. RecordsTyped BY DEF RecordsTyped
<1>4. PlansExist BY NoRowFacts DEF PlansExist, Existing
<1>5. IdleBlank /\ Aimed /\ BegunInOrder BY DEF IdleBlank, Aimed, BegunInOrder
<1>6. QED BY <1>1, <1>2, <1>3, <1>4, <1>5 DEF BaseInv, Typed

LEMMA BaseStep == BaseInv /\ [Next]_vars => BaseInv'
  BY TasksTypedStep, PlansTypedStep, RecordsTypedStep, AllAuthoredStep, PlansExistStep,
     IdleBlankStep, AimedStep, OrderStep DEF BaseInv, Typed

LEMMA AcceptFresh ==
  ASSUME BaseInv, NEW k, NEW p \in Plans, Accept(k, p)
  PROVE  \E n \in Tasks :
           /\ started' = n /\ n = started + 1 /\ pc[n] = "none" /\ kind[n] = "none"
           /\ target[n] = None /\ approval[n] = None /\ ran[n] = None
           /\ pc' = [pc EXCEPT ![n] = "created"] /\ kind' = [kind EXCEPT ![n] = k]
           /\ target' = [target EXCEPT ![n] = p]
<1>1. PICK n \in Tasks : started' = n /\ n = started + 1
  BY AcceptTyped DEF BaseInv
<1>2. pc[n] = "none" BY <1>1, TaskFacts DEF BaseInv, Typed, TasksTyped
<1>3. QED BY <1>1, <1>2 DEF BaseInv, IdleBlank, Live, Accept

\* The hash of a plan is the one of its proposal; that of the plan on offer is
\* missing only after a restart.
HashKept ==
  /\ \A p \in Plans : hash[p] \in {None, p}
  /\ plan # None => hash[plan] = plan \/ (hash[plan] = None /\ events > 0)

\* A plan that is being carried out does not wait for its decision.
Decided == \A t \in Tasks : kind[t] = "approve" => status[target[t]] # "pending"

RevisedBefore(t, s) == s # target[t] /\ s < t

\* Until the task begins, the text of its plan is the approved one or a revision.
TextApproved ==
  \A t \in Tasks : pc[t] = "created" /\ kind[t] = "approve" =>
     text[target[t]] = approval[t] \/ RevisedBefore(t, text[target[t]])

LEMMA HashStep == BaseInv /\ HashKept /\ [Next]_vars => HashKept'
<1> SUFFICES ASSUME BaseInv /\ HashKept, [Next]_vars PROVE HashKept'
  OBVIOUS
<1> USE TaskFacts DEF session, plans, store, ghosts, tasks
<1>1. ASSUME UNCHANGED <<plan, hash, events>> PROVE HashKept'
  BY <1>1 DEF HashKept
<1>2. ASSUME plan_start PROVE HashKept'
  BY <1>2
  DEF plan_start, Accept, Active, Drops, BaseInv, Typed, PlansTyped, RecordsTyped, HashKept
<1>3. ASSUME DropExpired PROVE HashKept'
  BY <1>3 DEF DropExpired, Drops, BaseInv, Typed, PlansTyped, RecordsTyped, HashKept
<1>4. ASSUME plan_reject PROVE HashKept'
  BY <1>4 DEF plan_reject, Drops, BaseInv, Typed, PlansTyped, RecordsTyped, HashKept
<1>5. ASSUME chat_clear PROVE HashKept'
  BY <1>5
  DEF chat_clear, CancelActive, Emptied, BaseInv, Typed, PlansTyped, RecordsTyped, HashKept
<1>6. ASSUME NEW t \in Tasks, Proposes(t) PROVE HashKept'
  BY <1>6 DEF Proposes, Ends, BaseInv, Typed, PlansTyped, RecordsTyped, HashKept
<1>7. ASSUME NEW t \in Tasks, Revises(t) PROVE HashKept'
  BY <1>7 DEF Revises, Ends, Done, Over, BaseInv, Typed, PlansTyped, RecordsTyped, HashKept
<1>8. ASSUME NEW t \in Tasks, NEW o \in Outcomes, Executes(t, o) PROVE HashKept'
  BY <1>8 DEF Executes, Ends, Done, Over, BaseInv, Typed, PlansTyped, RecordsTyped, HashKept
<1>9. ASSUME NEW s \in saves, LandFails(s) PROVE HashKept'
  BY <1>9 DEF LandFails, Keeps, BaseInv, Typed, PlansTyped, RecordsTyped, HashKept
<1>10. ASSUME Restart PROVE HashKept'
  <2>1. events' > 0 BY <1>10 DEF Restart, BaseInv, Typed, RecordsTyped
  <2>2. row.id \in Plans BY DEF BaseInv, Typed, PlansTyped, Rows
  <2>3. \/ plan' = row.id /\ hash' = [hash EXCEPT ![row.id] = None]
        \/ plan' = None /\ hash' = hash
    BY <1>10 DEF Restart
  <2>4. QED BY <2>1, <2>2, <2>3 DEF HashKept, BaseInv, Typed, PlansTyped
<1> QED
  BY <1>1, <1>2, <1>3, <1>4, <1>5, <1>6, <1>7, <1>8, <1>9, <1>10
  DEF Next, Step, vars, tasks, session, plans, store, ghosts, Accept, Active, Answers, Begin,
      CancelActive, Disconnect, Done, Ends, Expire, First, Land, NeverRuns, Over, Saved, Written,
      chat_abort, chat_inject, chat_send, plan_approve, plan_iterate

LEMMA DecidedStep == BaseInv /\ Decided /\ [Next]_vars => Decided'
<1> SUFFICES ASSUME BaseInv /\ Decided, [Next]_vars PROVE Decided'
  OBVIOUS
<1> USE TaskFacts DEF session, plans, store, ghosts, tasks
<1>1. ASSUME UNCHANGED <<status, kind, target>> PROVE Decided'
  BY <1>1 DEF Decided
<1>2. ASSUME chat_send PROVE Decided'
  BY <1>2, AcceptTyped
  DEF chat_send, Accept, Active, Decided, BaseInv, Typed, TasksTyped, PlansTyped, Aimed, Tasks
<1>3. ASSUME plan_start PROVE Decided'
  <2>1. \A t \in Tasks : kind'[t] = "approve" => kind[t] = "approve" /\ target'[t] = target[t]
    <3>1. Accept("plan", None) BY <1>3 DEF plan_start
    <3>2. PICK n \in Tasks : /\ kind' = [kind EXCEPT ![n] = "plan"]
                             /\ target' = [target EXCEPT ![n] = None]
      BY <3>1, AcceptFresh
    <3>3. QED BY <3>2 DEF BaseInv, Typed, TasksTyped
  <2>2. \/ status' = status
        \/ \E to \in {"expired", "superseded"} : status' = [status EXCEPT ![plan] = to]
    BY <1>3 DEF plan_start, Drops
  <2>3. \A p \in Plans : status'[p] = "pending" => status[p] = "pending"
    BY <2>2 DEF BaseInv, Typed, PlansTyped
  <2>4. SUFFICES ASSUME NEW t \in Tasks, kind'[t] = "approve"
                 PROVE  status'[target'[t]] # "pending"
    BY DEF Decided
  <2>5. target'[t] = target[t] /\ target[t] \in Plans /\ status[target[t]] # "pending"
    BY <2>1, <2>4 DEF Decided, BaseInv, Typed, TasksTyped
  <2>6. QED BY <2>3, <2>5
<1>4. ASSUME plan_approve PROVE Decided'
  BY <1>4, AcceptTyped
  DEF plan_approve, Accept, Active, Decided, BaseInv, Typed, TasksTyped, PlansTyped, Aimed, Tasks
<1>5. ASSUME plan_iterate PROVE Decided'
  BY <1>5, AcceptTyped
  DEF plan_iterate, Accept, Active, Decided, BaseInv, Typed, TasksTyped, PlansTyped, Aimed, Tasks
<1>6. ASSUME DropExpired PROVE Decided'
  BY <1>6 DEF DropExpired, Drops, Decided, BaseInv, Typed, TasksTyped, PlansTyped, Aimed
<1>7. ASSUME plan_reject PROVE Decided'
  BY <1>7 DEF plan_reject, Drops, Decided, BaseInv, Typed, TasksTyped, PlansTyped, Aimed
<1>8. ASSUME NEW t \in Tasks, NeverRuns(t) PROVE Decided'
  BY <1>8 DEF NeverRuns, First, Over, Decided, BaseInv, Typed, TasksTyped, PlansTyped, Aimed
<1>9. ASSUME NEW t \in Tasks, Proposes(t) PROVE Decided'
  BY <1>9
  DEF Proposes, Ends, Decided, BaseInv, Typed, TasksTyped, PlansTyped, Aimed, PlansExist, Offered
<1>10. ASSUME NEW t \in Tasks, Saved(t) PROVE Decided'
  BY <1>10 DEF Saved, Done, Over, Written, Decided, BaseInv, Typed, TasksTyped, PlansTyped, Aimed
<1>11. ASSUME NEW t \in Tasks, Revises(t) PROVE Decided'
  BY <1>11 DEF Revises, Ends, Done, Over, Decided, BaseInv, Typed, TasksTyped, PlansTyped, Aimed
<1>12. ASSUME NEW t \in Tasks, NEW o \in Outcomes, Answers(t, o) PROVE Decided'
  BY <1>12 DEF Answers, Ends, Done, Over, Decided, BaseInv, Typed, TasksTyped, PlansTyped, Aimed
<1>13. ASSUME NEW t \in Tasks, NEW o \in Outcomes, Executes(t, o) PROVE Decided'
  BY <1>13 DEF Executes, Ends, Done, Over, Decided, BaseInv, Typed, TasksTyped, PlansTyped, Aimed
<1>14. ASSUME Restart PROVE Decided'
  BY <1>14 DEF Restart, Keeps, Decided, BaseInv, Typed, TasksTyped, PlansTyped, Aimed
<1> QED
  BY <1>1, <1>2, <1>3, <1>4, <1>5, <1>6, <1>7, <1>8, <1>9, <1>10, <1>11, <1>12, <1>13, <1>14
  DEF Next, Step, vars, tasks, session, plans, store, ghosts, Begin, CancelActive, Disconnect,
      Emptied, Expire, First, Keeps, Land, LandFails, chat_abort, chat_clear, chat_inject

LEMMA TextApprovedStep == BaseInv /\ TextApproved /\ [Next]_vars => TextApproved'
<1> SUFFICES ASSUME BaseInv /\ TextApproved, [Next]_vars PROVE TextApproved'
  OBVIOUS
<1> USE TaskFacts DEF session, plans, store, ghosts, tasks
<1>1. ASSUME UNCHANGED <<pc, kind, target, text, approval>> PROVE TextApproved'
  BY <1>1 DEF TextApproved, RevisedBefore
<1>2. ASSUME chat_send PROVE TextApproved'
  BY <1>2, AcceptTyped
  DEF chat_send, Accept, Active, TextApproved, RevisedBefore, BaseInv, Typed, TasksTyped,
      PlansTyped, Aimed, RecordsTyped
<1>3. ASSUME plan_start PROVE TextApproved'
  BY <1>3, AcceptTyped
  DEF plan_start, Accept, Active, Drops, TextApproved, RevisedBefore, BaseInv, Typed, TasksTyped,
      PlansTyped, Aimed, RecordsTyped
<1>4. ASSUME plan_approve PROVE TextApproved'
  BY <1>4, AcceptTyped
  DEF plan_approve, Accept, Active, TextApproved, RevisedBefore, BaseInv, Typed, TasksTyped,
      PlansTyped, Aimed, RecordsTyped
<1>5. ASSUME plan_iterate PROVE TextApproved'
  BY <1>5, AcceptTyped
  DEF plan_iterate, Accept, Active, TextApproved, RevisedBefore, BaseInv, Typed, TasksTyped,
      PlansTyped, Aimed, RecordsTyped
<1>6. ASSUME NEW t \in Tasks, Begin(t) PROVE TextApproved'
  BY <1>6
  DEF Begin, First, TextApproved, RevisedBefore, BaseInv, Typed, TasksTyped, PlansTyped,
      RecordsTyped
<1>7. ASSUME NEW t \in Tasks, NeverRuns(t) PROVE TextApproved'
  BY <1>7
  DEF NeverRuns, First, Over, TextApproved, RevisedBefore, BaseInv, Typed, TasksTyped, PlansTyped,
      RecordsTyped
<1>8. ASSUME NEW t \in Tasks, Proposes(t) PROVE TextApproved'
  BY <1>8
  DEF Proposes, Ends, TextApproved, RevisedBefore, BaseInv, Typed, TasksTyped, PlansTyped, Aimed,
      PlansExist, Offered
<1>9. ASSUME NEW t \in Tasks, Saved(t) PROVE TextApproved'
  BY <1>9
  DEF Saved, Done, Over, Written, TextApproved, RevisedBefore, BaseInv, Typed, TasksTyped,
      PlansTyped, RecordsTyped
<1>10. ASSUME NEW t \in Tasks, Revises(t) PROVE TextApproved'
  BY <1>10
  DEF Revises, Ends, Done, Over, TextApproved, RevisedBefore, BaseInv, Typed, TasksTyped,
      PlansTyped, Aimed, PlansExist, BegunInOrder, RecordsTyped
<1>11. ASSUME NEW t \in Tasks, NEW o \in Outcomes, Answers(t, o) PROVE TextApproved'
  BY <1>11
  DEF Answers, Ends, Done, Over, TextApproved, RevisedBefore, BaseInv, Typed, TasksTyped,
      PlansTyped, RecordsTyped
<1>12. ASSUME NEW t \in Tasks, NEW o \in Outcomes, Executes(t, o) PROVE TextApproved'
  BY <1>12
  DEF Executes, Ends, Done, Over, TextApproved, RevisedBefore, BaseInv, Typed, TasksTyped,
      PlansTyped, RecordsTyped
<1>13. ASSUME Restart PROVE TextApproved'
  BY <1>13
  DEF Restart, Keeps, TextApproved, RevisedBefore, BaseInv, Typed, TasksTyped, PlansTyped,
      RecordsTyped
<1>14. ASSUME chat_inject PROVE TextApproved'
  BY <1>14 DEF chat_inject, TextApproved, RevisedBefore, BaseInv, Typed, TasksTyped
<1> QED
  BY <1>1, <1>2, <1>3, <1>4, <1>5, <1>6, <1>7, <1>8, <1>9, <1>10, <1>11, <1>12, <1>13, <1>14
  DEF Next, Step, vars, tasks, session, plans, store, ghosts, CancelActive, Disconnect,
      DropExpired, Drops, Emptied, Expire, Keeps, Land, LandFails, chat_abort, chat_clear,
      plan_reject

LEMMA ApprovedStep ==
  BaseInv /\ HashKept /\ TextApproved /\ ExecutesApproved /\ [Next]_vars => ExecutesApproved'
<1> SUFFICES ASSUME BaseInv, HashKept, TextApproved, ExecutesApproved, [Next]_vars
             PROVE  ExecutesApproved'
  OBVIOUS
<1> USE TaskFacts DEF session, plans, store, ghosts, tasks
<1>1. ASSUME UNCHANGED <<approval, ran, target, hash, events>> PROVE ExecutesApproved'
  BY <1>1 DEF ExecutesApproved
<1>2. ASSUME chat_send PROVE ExecutesApproved'
  <2>1. approval' = approval /\ ran' = ran /\ events' = events /\ hash' = hash
    BY <1>2 DEF chat_send, Accept
  <2>2. PICK p \in Plans, n \in Tasks :
          approval[n] = None /\ ran[n] = None /\ target' = [target EXCEPT ![n] = p]
    BY <1>2, AcceptFresh DEF chat_send, BaseInv, Typed, PlansTyped
  <2>3. QED BY <2>1, <2>2 DEF ExecutesApproved, BaseInv, Typed, TasksTyped
<1>3. ASSUME plan_start PROVE ExecutesApproved'
  <2>1. approval' = approval /\ ran' = ran /\ events' = events /\ hash' = hash
    BY <1>3 DEF plan_start, Accept, Drops
  <2>2. PICK p \in Plans, n \in Tasks :
          approval[n] = None /\ ran[n] = None /\ target' = [target EXCEPT ![n] = p]
    BY <1>3, AcceptFresh DEF plan_start, BaseInv, Typed, PlansTyped
  <2>3. QED BY <2>1, <2>2 DEF ExecutesApproved, BaseInv, Typed, TasksTyped
<1>4. ASSUME plan_approve PROVE ExecutesApproved'
  <2>0. PICK n \in Tasks : /\ started' = n /\ approval[n] = None /\ ran[n] = None
                           /\ target' = [target EXCEPT ![n] = plan]
    <3>1. Accept("approve", plan) /\ plan \in Plans
      BY <1>4 DEF plan_approve, BaseInv, Typed, PlansTyped
    <3>2. QED BY <3>1, AcceptFresh
  <2>1. approval' = [approval EXCEPT ![n] = text[plan]]
    BY <1>4, <2>0 DEF plan_approve
  <2>2. ran' = ran /\ events' = events /\ hash' = hash BY <1>4 DEF plan_approve, Accept
  <2>3. text[plan] = plan \/ (hash[plan] = None /\ events > 0)
    BY <1>4 DEF plan_approve, Intact, HashKept
  <2>4. QED
    BY <2>0, <2>1, <2>2, <2>3 DEF ExecutesApproved, BaseInv, Typed, TasksTyped, RecordsTyped
<1>5. ASSUME plan_iterate PROVE ExecutesApproved'
  <2>1. approval' = approval /\ ran' = ran /\ events' = events /\ hash' = hash
    BY <1>5 DEF plan_iterate, Accept
  <2>2. PICK p \in Plans, n \in Tasks :
          approval[n] = None /\ ran[n] = None /\ target' = [target EXCEPT ![n] = p]
    BY <1>5, AcceptFresh DEF plan_iterate, BaseInv, Typed, PlansTyped
  <2>3. QED BY <2>1, <2>2 DEF ExecutesApproved, BaseInv, Typed, TasksTyped
<1>6. ASSUME chat_clear PROVE ExecutesApproved'
  BY <1>6
  DEF chat_clear, CancelActive, Emptied, ExecutesApproved, BaseInv, Typed, TasksTyped, PlansTyped,
      RecordsTyped
<1>7. ASSUME NEW t \in Tasks, Begin(t) PROVE ExecutesApproved'
  BY <1>7
  DEF Begin, First, ExecutesApproved, BaseInv, Typed, TasksTyped, PlansTyped, RecordsTyped,
      TextApproved, RevisedBefore, Aimed
<1>8. ASSUME NEW t \in Tasks, NeverRuns(t) PROVE ExecutesApproved'
  BY <1>8
  DEF NeverRuns, First, Over, ExecutesApproved, BaseInv, Typed, TasksTyped, PlansTyped,
      RecordsTyped
<1>9. ASSUME NEW t \in Tasks, Saved(t) PROVE ExecutesApproved'
  BY <1>9
  DEF Saved, Done, Over, Written, ExecutesApproved, BaseInv, Typed, TasksTyped, PlansTyped,
      RecordsTyped
<1>10. ASSUME NEW t \in Tasks, Revises(t) PROVE ExecutesApproved'
  BY <1>10
  DEF Revises, Ends, Done, Over, ExecutesApproved, BaseInv, Typed, TasksTyped, PlansTyped,
      RecordsTyped
<1>11. ASSUME NEW t \in Tasks, NEW o \in Outcomes, Answers(t, o) PROVE ExecutesApproved'
  BY <1>11
  DEF Answers, Ends, Done, Over, ExecutesApproved, BaseInv, Typed, TasksTyped, PlansTyped,
      RecordsTyped
<1>12. ASSUME NEW t \in Tasks, NEW o \in Outcomes, Executes(t, o) PROVE ExecutesApproved'
  BY <1>12
  DEF Executes, Ends, Done, Over, ExecutesApproved, BaseInv, Typed, TasksTyped, PlansTyped,
      RecordsTyped
<1>13. ASSUME NEW s \in saves, LandFails(s) PROVE ExecutesApproved'
  BY <1>13
  DEF LandFails, Keeps, ExecutesApproved, BaseInv, Typed, TasksTyped, PlansTyped, RecordsTyped
<1>14. ASSUME Restart PROVE ExecutesApproved'
  BY <1>14
  DEF Restart, Keeps, ExecutesApproved, BaseInv, Typed, TasksTyped, PlansTyped, RecordsTyped
<1>15. ASSUME NEW t \in Tasks, Proposes(t) PROVE ExecutesApproved'
  <2>1. hash' = [hash EXCEPT ![t] = t] /\ UNCHANGED <<approval, ran, target, events>>
    BY <1>15 DEF Proposes
  <2>2. \A u \in Tasks : target[u] # t
    BY <1>15 DEF Proposes, Ends, BaseInv, PlansExist, Offered
  <2>3. QED BY <2>1, <2>2 DEF ExecutesApproved, BaseInv, Typed, TasksTyped, PlansTyped
<1> QED
  BY <1>1, <1>2, <1>3, <1>4, <1>5, <1>6, <1>7, <1>8, <1>9, <1>10, <1>11, <1>12, <1>13, <1>14,
     <1>15
  DEF Next, Step, vars, tasks, session, plans, store, ghosts, CancelActive, Disconnect,
      DropExpired, Drops, Expire, Land, chat_abort, chat_inject, plan_reject

-----------------------------------------------------------------------------
(* What was taken away *)

\* Nothing brings plan p back: no write of it is under way, no revision of it
\* will write it as pending, and a removal will take it out of the row.
GoneFor(p) ==
  /\ p \in Offered /\ plan # p /\ ~Pending(p)
  /\ status[p] = "pending" => ~Revised(p)
  /\ row.id = p /\ row.status = "pending" => Removals # {}
GoneInv == \A p \in gone : GoneFor(p)

\* Nothing brings exchange t back.
ClearedAway(t) ==
  /\ t \in 1 .. started /\ ~Live(t) /\ t \notin history
  /\ \A s \in saves : s.op = "exchange" => s.of # t
  /\ t \in messages => \E s \in saves : s.op = "clear"
OldInv == \A t \in old : ClearedAway(t)

\* A step that does nothing for plan p.
Harmless(p) ==
  /\ plan' # p /\ row' = row
  /\ status'[p] = "pending" => status[p] = "pending"
  /\ \A t \in Tasks : Live(t)' /\ kind'[t] = "iterate" /\ target'[t] = p =>
       Live(t) /\ kind[t] = "iterate" /\ target[t] = p
  /\ saves \subseteq saves'
  /\ \A s \in saves' \ saves : s.plan.status = "pending" => s.plan.id # p

LEMMA GoneKept ==
  ASSUME NEW p, GoneFor(p), Offered \subseteq Offered', Harmless(p)
  PROVE  GoneFor(p)'
<1>1. p \in Offered' /\ plan' # p BY DEF GoneFor, Harmless
<1>2. ~Pending(p)' BY DEF GoneFor, Harmless, Pending
<1>3. Revised(p)' => Revised(p) BY DEF Harmless, Revised, LiveTasks
<1>4. row' = row /\ (Removals # {} => Removals' # {}) BY DEF Harmless, Removals
<1>5. QED BY <1>1, <1>2, <1>3, <1>4 DEF GoneFor, Harmless

\* A task that is over or has just begun revises nothing more.
LEMMA LessRevised ==
  ASSUME BaseInv, NEW t \in Tasks, NEW how, Over(t, how), NEW u \in Tasks,
         how \in {"over", "silent"}, Live(u)'
  PROVE  Live(u) /\ kind'[u] = kind[u] /\ target'[u] = target[u]
  BY DEF Over, Live, BaseInv, Typed, TasksTyped

LEMMA GoneStep == BaseInv /\ Decided /\ GoneInv /\ [Next]_vars => GoneInv'
<1> SUFFICES ASSUME BaseInv /\ Decided /\ GoneInv, [Next]_vars PROVE GoneInv'
  OBVIOUS
<1> USE TaskFacts DEF session, plans, store, ghosts, tasks
<1>0. Offered \subseteq Offered' BY OfferedStays DEF BaseInv
<1> USE <1>0
<1>1. ASSUME UNCHANGED <<pc, kind, target, plan, status, saves, row, gone>> PROVE GoneInv'
  BY <1>1 DEF GoneInv, GoneFor, Pending, Removals, Revised, LiveTasks, Live, Offered
<1>2. ASSUME chat_send PROVE GoneInv'
  <2> SUFFICES ASSUME NEW p \in gone' PROVE GoneFor(p)'
    BY DEF GoneInv
  <2>1. p \in gone /\ GoneFor(p) BY <1>2 DEF chat_send, GoneInv
  <2>2. /\ plan' = plan /\ row' = row /\ saves' = saves
        /\ status'[p] = "pending" => status[p] = "pending"
    BY <1>2, <2>1 DEF chat_send, Accept, GoneFor, Offered, BaseInv, Typed, PlansTyped
  <2>3. \A t \in Tasks : Live(t)' /\ kind'[t] = "iterate" =>
          Live(t) /\ kind[t] = "iterate" /\ target'[t] = target[t]
    <3>1. PICK k \in {"send", "deep"} : Accept(k, None) BY <1>2 DEF chat_send
    <3>2. PICK n \in Tasks : /\ pc' = [pc EXCEPT ![n] = "created"]
                             /\ kind' = [kind EXCEPT ![n] = k]
                             /\ target' = [target EXCEPT ![n] = None]
      BY <3>1, AcceptFresh DEF BaseInv, Typed, PlansTyped
    <3>3. QED BY <3>1, <3>2 DEF Live, BaseInv, Typed, TasksTyped
  <2>4. Harmless(p) BY <2>1, <2>2, <2>3 DEF Harmless, GoneFor, Offered
  <2>5. QED BY <2>1, <2>4, GoneKept
<1>3. ASSUME plan_start PROVE GoneInv'
  <2> SUFFICES ASSUME NEW p \in gone' PROVE GoneFor(p)'
    BY DEF GoneInv
  <2>1. p \in gone /\ GoneFor(p) BY <1>3 DEF plan_start, GoneInv
  <2>2. /\ plan' \in {plan, None} /\ row' = row /\ saves' = saves
        /\ status'[p] = "pending" => status[p] = "pending"
    BY <1>3, <2>1 DEF plan_start, Accept, Drops, GoneFor, Offered, BaseInv, Typed, PlansTyped
  <2>3. \A t \in Tasks : Live(t)' /\ kind'[t] = "iterate" =>
          Live(t) /\ kind[t] = "iterate" /\ target'[t] = target[t]
    <3>1. Accept("plan", None) BY <1>3 DEF plan_start
    <3>2. PICK n \in Tasks : /\ pc' = [pc EXCEPT ![n] = "created"]
                             /\ kind' = [kind EXCEPT ![n] = "plan"]
                             /\ target' = [target EXCEPT ![n] = None]
      BY <3>1, AcceptFresh
    <3>3. QED BY <3>2 DEF Live, BaseInv, Typed, TasksTyped
  <2>4. Harmless(p) BY <2>1, <2>2, <2>3 DEF Harmless, GoneFor, Offered
  <2>5. QED BY <2>1, <2>4, GoneKept
<1>4. ASSUME plan_approve PROVE GoneInv'
  <2> SUFFICES ASSUME NEW p \in gone' PROVE GoneFor(p)'
    BY DEF GoneInv
  <2>1. p \in gone /\ GoneFor(p) BY <1>4 DEF plan_approve, GoneInv
  <2>2. /\ plan' = plan /\ row' = row /\ saves' = saves
        /\ status'[p] = "pending" => status[p] = "pending"
    BY <1>4, <2>1 DEF plan_approve, Accept, GoneFor, Offered, BaseInv, Typed, PlansTyped
  <2>3. \A t \in Tasks : Live(t)' /\ kind'[t] = "iterate" =>
          Live(t) /\ kind[t] = "iterate" /\ target'[t] = target[t]
    <3>1. PICK k \in {"approve"} : Accept(k, plan) BY <1>4 DEF plan_approve
    <3>2. PICK n \in Tasks : /\ pc' = [pc EXCEPT ![n] = "created"]
                             /\ kind' = [kind EXCEPT ![n] = k]
                             /\ target' = [target EXCEPT ![n] = plan]
      BY <3>1, AcceptFresh DEF BaseInv, Typed, PlansTyped
    <3>3. QED BY <3>1, <3>2 DEF Live, BaseInv, Typed, TasksTyped
  <2>4. Harmless(p) BY <2>1, <2>2, <2>3 DEF Harmless, GoneFor, Offered
  <2>5. QED BY <2>1, <2>4, GoneKept
<1>5. ASSUME plan_iterate PROVE GoneInv'
  BY <1>5, AcceptFresh
  DEF plan_iterate, Accept, Active, GoneInv, GoneFor, Pending, Removals, Revised, LiveTasks, Live,
      BaseInv, Typed, TasksTyped, PlansTyped
<1>6. ASSUME DropExpired PROVE GoneInv'
  <2> SUFFICES ASSUME NEW p \in gone' PROVE GoneFor(p)'
    BY DEF GoneInv
  <2>1. p \in gone /\ GoneFor(p) BY <1>6 DEF DropExpired, GoneInv
  <2>2. /\ plan' = None /\ row' = row /\ saves' = saves
        /\ status'[p] = "pending" => status[p] = "pending"
        /\ kind' = kind /\ target' = target /\ pc' = pc
    BY <1>6, <2>1 DEF DropExpired, Drops, GoneFor, Offered, BaseInv, Typed, PlansTyped
  <2>3. Harmless(p) BY <2>1, <2>2 DEF Harmless, GoneFor, Offered, Live
  <2>4. QED BY <2>1, <2>3, GoneKept
<1>7. ASSUME plan_reject PROVE GoneInv'
  <2> SUFFICES ASSUME NEW p \in gone' PROVE GoneFor(p)'
    BY DEF GoneInv
  <2>1. /\ plan' = None /\ row' = row /\ saves' = saves \cup Forget(plan)
        /\ status' = [status EXCEPT ![plan] = "rejected"]
        /\ kind' = kind /\ target' = target /\ pc' = pc
        /\ plan \in Offered /\ plan \in Plans
    BY <1>7 DEF plan_reject, Drops, BaseInv, Typed, PlansTyped, PlansExist, Existing
  <2>2. \A s \in saves' \ saves : s.plan.status # "pending"
    BY <2>1, ForgetFacts, NoRowFacts
  <2>3. CASE p \in gone /\ p # plan
    <3>1. GoneFor(p) BY <2>3 DEF GoneInv
    <3>2. Harmless(p)
      BY <2>1, <2>2, <3>1 DEF Harmless, GoneFor, Offered, Live, BaseInv, Typed, PlansTyped
    <3>3. QED BY <3>1, <3>2, GoneKept
  <2>4. CASE p = plan
    <3>1. ~Pending(p) BY <1>7, <2>4 DEF plan_reject, Goes
    <3>2. ~Pending(p)' BY <2>1, <2>2, <3>1 DEF Pending
    <3>3. status'[p] = "rejected" BY <2>1, <2>4 DEF BaseInv, Typed, PlansTyped
    <3>4. Write("forget", plan, NoRow) \in Removals' BY <2>1 DEF Forget, Removals, Write
    <3>5. QED BY <2>1, <2>4, <3>2, <3>3, <3>4 DEF GoneFor, Offered
  <2>5. QED BY <1>7, <2>3, <2>4 DEF plan_reject, Goes
<1>8. ASSUME chat_inject PROVE GoneInv'
  <2> SUFFICES ASSUME NEW p \in gone' PROVE GoneFor(p)'
    BY DEF GoneInv
  <2>1. p \in gone /\ GoneFor(p) BY <1>8 DEF chat_inject, GoneInv
  <2>2. PICK n \in Nat : n = started + 1 /\ started' = n /\ n \in Tasks
    BY <1>8 DEF chat_inject, BaseInv, Typed, TasksTyped, Tasks
  <2>3. /\ plan' = plan /\ row' = row /\ saves' = saves \cup Exchange(n, "output")
        /\ status' = status /\ kind' = kind /\ target' = target
        /\ pc' = [pc EXCEPT ![n] = "over"]
    BY <1>8, <2>2 DEF chat_inject
  <2>4. \A s \in saves' \ saves : s.plan.status # "pending"
    BY <2>2, <2>3, ExchangeFacts, NoRowFacts
  <2>5. Harmless(p)
    BY <2>1, <2>3, <2>4 DEF Harmless, GoneFor, Live, BaseInv, Typed, TasksTyped
  <2>6. QED BY <2>1, <2>5, GoneKept
<1>9. ASSUME chat_clear PROVE GoneInv'
  <2> SUFFICES ASSUME NEW p \in gone' PROVE GoneFor(p)'
    BY DEF GoneInv
  <2> DEFINE w == Write("clear", events', NoRow)
  <2>1. /\ plan' = None /\ row' = row /\ saves' = saves \cup {w}
        /\ status' = status /\ kind' = kind /\ target' = target /\ pc' = pc
    BY <1>9 DEF chat_clear
  <2>2. w.plan.status = "none" /\ w.op = "clear" BY DEF Write, NoRow
  <2> HIDE DEF w
  <2>3. CASE p \in gone
    <3>1. GoneFor(p) BY <2>3 DEF GoneInv
    <3>2. Harmless(p) BY <2>1, <2>2, <3>1 DEF Harmless, GoneFor, Offered, Live
    <3>3. QED BY <3>1, <3>2, GoneKept
  <2>4. CASE p = plan /\ p # None /\ ~Pending(p) /\ ~Revised(p)
    <3>1. p \in Offered BY <2>4 DEF BaseInv, PlansExist, Existing
    <3>2. ~Pending(p)' BY <2>1, <2>2, <2>4 DEF Pending
    <3>3. ~Revised(p)' BY <2>1, <2>4 DEF Revised, LiveTasks, Live
    <3>4. w \in Removals' BY <2>1, <2>2 DEF Removals
    <3>5. QED BY <2>1, <2>4, <3>1, <3>2, <3>3, <3>4 DEF GoneFor
  <2>5. QED BY <1>9, <2>3, <2>4 DEF chat_clear
<1>10. ASSUME NEW t \in Tasks, Begin(t) PROVE GoneInv'
  BY <1>10, NoRowFacts
  DEF Begin, First, GoneInv, GoneFor, Pending, Removals, Revised, LiveTasks, Live, BaseInv, Typed,
      TasksTyped, PlansTyped
<1>11. ASSUME NEW t \in Tasks, NeverRuns(t) PROVE GoneInv'
  BY <1>11, NoRowFacts
  DEF NeverRuns, First, Over, GoneInv, GoneFor, Pending, Removals, Revised, LiveTasks, Live,
      BaseInv, Typed, TasksTyped, PlansTyped
<1>12. ASSUME NEW t \in Tasks, Proposes(t) PROVE GoneInv'
  <2> SUFFICES ASSUME NEW p \in gone' PROVE GoneFor(p)'
    BY DEF GoneInv
  <2> DEFINE w == Write("plan", t, Dict(t, t, "pending"))
  <2>1. p \in gone /\ GoneFor(p) BY <1>12 DEF Proposes, GoneInv
  <2>2. p # t /\ p \in Plans
    BY <1>12, <2>1 DEF Proposes, Ends, GoneFor, Offered
  <2>3. /\ plan' = t /\ row' = row /\ saves' = saves \cup Exchange(t, "output") \cup {w}
        /\ status' = [status EXCEPT ![t] = "pending"] /\ kind' = kind /\ target' = target
        /\ pc' = [pc EXCEPT ![t] = "saving"] /\ pc[t] = "running"
    BY <1>12 DEF Proposes, Ends
  <2>4. w.plan.id = t BY DEF Write, Dict
  <2> HIDE DEF w
  <2>5. \A s \in saves' \ saves : s.plan.status = "pending" => s.plan.id # p
    BY <2>2, <2>3, <2>4, ExchangeFacts, NoRowFacts
  <2>6. Harmless(p)
    BY <2>1, <2>2, <2>3, <2>5 DEF Harmless, Live, BaseInv, Typed, TasksTyped, PlansTyped
  <2>7. QED BY <2>1, <2>6, GoneKept
<1>13. ASSUME NEW t \in Tasks, Saved(t) PROVE GoneInv'
  BY <1>13, NoRowFacts
  DEF Saved, Done, Over, Written, GoneInv, GoneFor, Pending, Removals, Revised, LiveTasks, Live,
      BaseInv, Typed, TasksTyped, PlansTyped
<1>14. ASSUME NEW t \in Tasks, Revises(t) PROVE GoneInv'
  BY <1>14, ExchangeFacts, NoRowFacts
  DEF Revises, Ends, Done, Over, GoneInv, GoneFor, Pending, Removals, Revised, LiveTasks, Live,
      BaseInv, Typed, TasksTyped, PlansTyped, Write, Dict
<1>15. ASSUME NEW t \in Tasks, NEW o \in Outcomes, Answers(t, o) PROVE GoneInv'
  <2> SUFFICES ASSUME NEW p \in gone' PROVE GoneFor(p)'
    BY DEF GoneInv
  <2>1. p \in gone /\ GoneFor(p) BY <1>15 DEF Answers, GoneInv
  <2>2. /\ plan' = plan /\ row' = row /\ saves' = saves \cup Exchange(t, o)
        /\ status' = status /\ Over(t, "over")
    BY <1>15 DEF Answers, Done
  <2>3. \A s \in saves' \ saves : s.plan.status # "pending"
    BY <2>2, ExchangeFacts, NoRowFacts
  <2>4. Harmless(p) BY <2>1, <2>2, <2>3, LessRevised DEF Harmless, GoneFor
  <2>5. QED BY <2>1, <2>4, GoneKept
<1>16. ASSUME NEW t \in Tasks, NEW o \in Outcomes, Executes(t, o) PROVE GoneInv'
  <2> SUFFICES ASSUME NEW p \in gone' PROVE GoneFor(p)'
    BY DEF GoneInv
  <2> DEFINE w == Write("forget", t, NoRow)
  <2>1. /\ plan' = None /\ row' = row /\ saves' = saves \cup Exchange(t, o) \cup {w}
        /\ status' = status /\ Over(t, "over") /\ kind[t] = "approve"
    BY <1>16 DEF Executes, Done
  <2>2. w.plan.status = "none" /\ w.op = "forget" BY DEF Write, NoRow
  <2> HIDE DEF w
  <2>3. \A s \in saves' \ saves : s.plan.status # "pending"
    BY <2>1, <2>2, ExchangeFacts, NoRowFacts
  <2>4. CASE p \in gone
    <3>1. GoneFor(p) BY <2>4 DEF GoneInv
    <3>2. Harmless(p)
      BY <2>1, <2>3, <3>1, LessRevised DEF Harmless, GoneFor, Offered
    <3>3. QED BY <3>1, <3>2, GoneKept
  <2>5. CASE p = target[t] /\ ~Pending(p)
    <3>1. p \in Offered /\ status[p] # "pending"
      BY <2>1, <2>5 DEF Decided, BaseInv, Aimed, PlansExist
    <3>2. ~Pending(p)' BY <2>3, <2>5 DEF Pending
    <3>3. w \in Removals' BY <2>1, <2>2 DEF Removals
    <3>4. QED BY <2>1, <3>1, <3>2, <3>3 DEF GoneFor, Offered
  <2>6. QED BY <1>16, <2>4, <2>5 DEF Executes, Goes
<1>17. ASSUME NEW s \in saves, Land(s) PROVE GoneInv'
  BY <1>17, NoRowFacts
  DEF Land, GoneInv, GoneFor, Pending, Removals, Revised, LiveTasks, Live, BaseInv, Typed,
      TasksTyped, PlansTyped
<1>18. ASSUME NEW s \in saves, LandFails(s) PROVE GoneInv'
  BY <1>18, NoRowFacts
  DEF LandFails, Keeps, GoneInv, GoneFor, Pending, Removals, Revised, LiveTasks, Live, BaseInv,
      Typed, TasksTyped, PlansTyped
<1>19. ASSUME Restart PROVE GoneInv'
  <2> SUFFICES ASSUME NEW p \in gone' PROVE GoneFor(p)'
    BY DEF GoneInv
  <2>1. p \in gone /\ Removals = {} BY <1>19 DEF Restart, Keeps
  <2>2. p \in Offered /\ ~(row.id = p /\ row.status = "pending")
    BY <2>1 DEF GoneInv, GoneFor
  <2>3. plan' # p /\ row' = row /\ saves' = {}
    BY <1>19, <2>2 DEF Restart, Offered
  <2>4. ~Revised(p)' BY <1>19 DEF Restart, Revised, LiveTasks
  <2>5. QED BY <2>2, <2>3, <2>4 DEF GoneFor, Pending
<1> QED
  BY <1>1, <1>2, <1>3, <1>4, <1>5, <1>6, <1>7, <1>8, <1>9, <1>10, <1>11, <1>12, <1>13, <1>14,
     <1>15, <1>16, <1>17, <1>18, <1>19
  DEF Next, Step, vars, tasks, session, plans, store, ghosts, CancelActive, Disconnect, Expire,
      chat_abort

LEMMA OldStep == BaseInv /\ OldInv /\ [Next]_vars => OldInv'
<1> SUFFICES ASSUME BaseInv /\ OldInv, [Next]_vars PROVE OldInv'
  OBVIOUS
<1> USE TaskFacts DEF session, plans, store, ghosts, tasks
<1>1. ASSUME UNCHANGED <<started, pc, history, saves, messages, old>> PROVE OldInv'
  BY <1>1 DEF OldInv, ClearedAway, Live
<1>2. ASSUME chat_send PROVE OldInv'
  BY <1>2, AcceptFresh
  DEF chat_send, Accept, Active, OldInv, ClearedAway, Live, Pcs, BaseInv, Typed, TasksTyped,
      PlansTyped
<1>3. ASSUME plan_start PROVE OldInv'
  BY <1>3, AcceptFresh
  DEF plan_start, Accept, Active, Drops, OldInv, ClearedAway, Live, Pcs, BaseInv, Typed,
      TasksTyped, PlansTyped
<1>4. ASSUME plan_approve PROVE OldInv'
  BY <1>4, AcceptFresh
  DEF plan_approve, Accept, Active, OldInv, ClearedAway, Live, Pcs, BaseInv, Typed, TasksTyped,
      PlansTyped
<1>5. ASSUME plan_iterate PROVE OldInv'
  BY <1>5, AcceptFresh
  DEF plan_iterate, Accept, Active, OldInv, ClearedAway, Live, Pcs, BaseInv, Typed, TasksTyped,
      PlansTyped
<1>6. ASSUME plan_reject PROVE OldInv'
  BY <1>6, ForgetFacts
  DEF plan_reject, Drops, OldInv, ClearedAway, Live, Pcs, BaseInv, Typed, TasksTyped, PlansTyped
<1>7. ASSUME chat_inject PROVE OldInv'
  BY <1>7, ExchangeFacts
  DEF chat_inject, OldInv, ClearedAway, Live, Pcs, BaseInv, Typed, TasksTyped, Tasks
<1>8. ASSUME chat_clear PROVE OldInv'
  BY <1>8, RemovalFacts
  DEF chat_clear, CancelActive, Emptied, OldInv, ClearedAway, Live, Pcs, BaseInv, Typed,
      TasksTyped, RecordsTyped, Tasks
<1>9. ASSUME NEW t \in Tasks, Begin(t) PROVE OldInv'
  BY <1>9 DEF Begin, First, OldInv, ClearedAway, Live, Pcs, BaseInv, Typed, TasksTyped
<1>10. ASSUME NEW t \in Tasks, NeverRuns(t) PROVE OldInv'
  BY <1>10 DEF NeverRuns, First, Over, OldInv, ClearedAway, Live, Pcs, BaseInv, Typed, TasksTyped
<1>11. ASSUME NEW t \in Tasks, Proposes(t) PROVE OldInv'
  BY <1>11, ExchangeFacts, PlanWriteFacts
  DEF Proposes, Ends, OldInv, ClearedAway, Live, Pcs, BaseInv, Typed, TasksTyped, Statuses
<1>12. ASSUME NEW t \in Tasks, Saved(t) PROVE OldInv'
  BY <1>12
  DEF Saved, Done, Over, Written, OldInv, ClearedAway, Live, Pcs, BaseInv, Typed, TasksTyped
<1>13. ASSUME NEW t \in Tasks, Revises(t) PROVE OldInv'
  BY <1>13, ExchangeFacts
  DEF Revises, Ends, Done, Over, OldInv, ClearedAway, Live, Pcs, BaseInv, Typed, TasksTyped,
      Write, Dict
<1>14. ASSUME NEW t \in Tasks, NEW o \in Outcomes, Answers(t, o) PROVE OldInv'
  <2>1. old' = old /\ saves' = saves \cup Exchange(t, o) /\ messages' = messages
        /\ started' = started /\ pc' = [pc EXCEPT ![t] = "over"] /\ pc[t] = "running"
        /\ history' \subseteq history \cup {t}
    BY <1>14 DEF Answers, Ends, Done, Over
  <2>2. \A s \in saves' \ saves : s.op = "exchange" => s.of = t
    BY <2>1, ExchangeFacts
  <2>3. t \notin old BY <2>1 DEF OldInv, ClearedAway, Live
  <2>4. QED BY <2>1, <2>2, <2>3 DEF OldInv, ClearedAway, Live, BaseInv, Typed, TasksTyped
<1>15. ASSUME NEW t \in Tasks, NEW o \in Outcomes, Executes(t, o) PROVE OldInv'
  BY <1>15, ExchangeFacts, RemovalFacts
  DEF Executes, Ends, Done, Over, OldInv, ClearedAway, Live, Pcs, BaseInv, Typed, TasksTyped
<1>16. ASSUME NEW s \in saves, Land(s) PROVE OldInv'
  BY <1>16 DEF Land, OldInv, ClearedAway, Live, Pcs, BaseInv, Typed, TasksTyped
<1>17. ASSUME NEW s \in saves, LandFails(s) PROVE OldInv'
  BY <1>17
  DEF LandFails, Keeps, OldInv, ClearedAway, Live, Pcs, BaseInv, Typed, TasksTyped, Removals
<1>18. ASSUME Restart PROVE OldInv'
  <2>1. \A t \in old' : t \in old /\ Removals = {} BY <1>18 DEF Restart, Keeps
  <2>2. \A t \in old' : t \notin messages /\ t \in 1 .. started /\ ~Live(t)
    BY <2>1 DEF OldInv, ClearedAway, Removals
  <2>3. /\ started' = started /\ saves' = {} /\ history' = messages /\ messages' = messages
        /\ \A t \in Tasks : ~Live(t)'
    BY <1>18 DEF Restart, Live, BaseInv, Typed, TasksTyped, Pcs
  <2>4. \A t \in old' : t \in Tasks BY <2>2 DEF BaseInv, Typed, TasksTyped, Tasks
  <2>5. QED BY <2>2, <2>3, <2>4 DEF OldInv, ClearedAway
<1> QED
  BY <1>1, <1>2, <1>3, <1>4, <1>5, <1>6, <1>7, <1>8, <1>9, <1>10, <1>11, <1>12, <1>13, <1>14,
     <1>15, <1>16, <1>17, <1>18
  DEF Next, Step, vars, tasks, session, plans, store, ghosts, CancelActive, Disconnect,
      DropExpired, Drops, Expire, chat_abort

-----------------------------------------------------------------------------
(* Steps *)

\* The body of AbortReaches ...
ReachesStep ==
  \A t \in Tasks : LiveTasks' = {t} /\ active' # t =>
    LiveTasks \ {t} # {} \/ (LiveTasks = {t} /\ active # t)

\* ... and that of PendingPlanKept.
KeptStep ==
  Waiting(plan) /\ plan' # plan =>
    \/ status'[plan] \in {"rejected", "expired", "superseded"}
    \/ events' # events
    \/ plan' # None /\ pc'[plan'] = "saving"
    \/ \E t \in LiveTasks : kind[t] = "approve" /\ ~Live(t)' /\ target[t] # plan

LEMMA AcceptReaches ==
  ASSUME BaseInv, NEW k, NEW p \in Plans, Accept(k, p)
  PROVE  ReachesStep
<1>1. PICK n \in Tasks : started' = n /\ pc' = [pc EXCEPT ![n] = "created"]
  BY AcceptFresh
<1>2. n \in LiveTasks' BY <1>1 DEF LiveTasks, Live, BaseInv, Typed, TasksTyped
<1>3. active' = n BY <1>1 DEF Accept, Active
<1>4. QED BY <1>2, <1>3 DEF ReachesStep

LEMMA AbortStep == BaseInv /\ [Next]_vars => ReachesStep
<1> SUFFICES ASSUME BaseInv, [Next]_vars PROVE ReachesStep
  OBVIOUS
<1> USE TaskFacts DEF session, plans, store, ghosts, tasks
<1>1. ASSUME UNCHANGED <<pc, active>> PROVE ReachesStep
  BY <1>1 DEF ReachesStep, LiveTasks, Live
<1>2. ASSUME chat_send PROVE ReachesStep
  BY <1>2, AcceptReaches DEF chat_send, BaseInv, Typed, PlansTyped
<1>3. ASSUME plan_start PROVE ReachesStep
  BY <1>3, AcceptReaches DEF plan_start, BaseInv, Typed, PlansTyped
<1>4. ASSUME plan_approve PROVE ReachesStep
  BY <1>4, AcceptReaches DEF plan_approve, BaseInv, Typed, PlansTyped
<1>5. ASSUME plan_iterate PROVE ReachesStep
  BY <1>5, AcceptReaches DEF plan_iterate, BaseInv, Typed, PlansTyped
<1>6. ASSUME chat_inject PROVE ReachesStep
  BY <1>6
  DEF chat_inject, ReachesStep, LiveTasks, Live, Pcs, BaseInv, Typed, TasksTyped, PlansTyped
<1>7. ASSUME NEW t \in Tasks, Begin(t) PROVE ReachesStep
  BY <1>7
  DEF Begin, First, ReachesStep, LiveTasks, Live, Pcs, BaseInv, Typed, TasksTyped, PlansTyped
<1>8. ASSUME NEW t \in Tasks, NeverRuns(t) PROVE ReachesStep
  BY <1>8
  DEF NeverRuns, First, Over, ReachesStep, LiveTasks, Live, Pcs, BaseInv, Typed, TasksTyped,
      PlansTyped
<1>9. ASSUME NEW t \in Tasks, Proposes(t) PROVE ReachesStep
  BY <1>9
  DEF Proposes, Ends, ReachesStep, LiveTasks, Live, Pcs, BaseInv, Typed, TasksTyped, PlansTyped
<1>10. ASSUME NEW t \in Tasks, Saved(t) PROVE ReachesStep
  BY <1>10
  DEF Saved, Done, Over, Written, ReachesStep, LiveTasks, Live, Pcs, BaseInv, Typed, TasksTyped,
      PlansTyped
<1>11. ASSUME NEW t \in Tasks, Revises(t) PROVE ReachesStep
  BY <1>11
  DEF Revises, Ends, Done, Over, ReachesStep, LiveTasks, Live, Pcs, BaseInv, Typed, TasksTyped,
      PlansTyped
<1>12. ASSUME NEW t \in Tasks, NEW o \in Outcomes, Answers(t, o) PROVE ReachesStep
  BY <1>12
  DEF Answers, Ends, Done, Over, ReachesStep, LiveTasks, Live, Pcs, BaseInv, Typed, TasksTyped,
      PlansTyped
<1>13. ASSUME NEW t \in Tasks, NEW o \in Outcomes, Executes(t, o) PROVE ReachesStep
  BY <1>13
  DEF Executes, Ends, Done, Over, ReachesStep, LiveTasks, Live, Pcs, BaseInv, Typed, TasksTyped,
      PlansTyped
<1>14. ASSUME Restart PROVE ReachesStep
  BY <1>14
  DEF Restart, Keeps, ReachesStep, LiveTasks, Live, Pcs, BaseInv, Typed, TasksTyped, PlansTyped
<1> QED
  BY <1>1, <1>2, <1>3, <1>4, <1>5, <1>6, <1>7, <1>8, <1>9, <1>10, <1>11, <1>12, <1>13, <1>14
  DEF Next, Step, vars, tasks, session, plans, store, ghosts, CancelActive, Disconnect,
      DropExpired, Drops, Emptied, Expire, Keeps, Land, LandFails, chat_abort, chat_clear,
      plan_reject

LEMMA PlanKeptStep == BaseInv /\ Decided /\ [Next]_vars => KeptStep
<1> SUFFICES ASSUME BaseInv /\ Decided, [Next]_vars PROVE KeptStep
  OBVIOUS
<1> USE TaskFacts DEF session, plans, store, ghosts, tasks
<1>1. ASSUME UNCHANGED <<plan>> PROVE KeptStep
  BY <1>1 DEF KeptStep
<1>2. ASSUME plan_start PROVE KeptStep
  BY <1>2
  DEF plan_start, Accept, Active, Drops, KeptStep, Waiting, BaseInv, Typed, TasksTyped,
      PlansTyped, IsExpired
<1>3. ASSUME DropExpired PROVE KeptStep
  BY <1>3 DEF DropExpired, Drops, KeptStep, Waiting, BaseInv, Typed, TasksTyped, PlansTyped
<1>4. ASSUME plan_reject PROVE KeptStep
  BY <1>4 DEF plan_reject, Drops, KeptStep, Waiting, BaseInv, Typed, TasksTyped, PlansTyped
<1>5. ASSUME chat_clear PROVE KeptStep
  BY <1>5 DEF chat_clear, KeptStep, BaseInv, Typed, RecordsTyped
<1>6. ASSUME NEW t \in Tasks, Proposes(t) PROVE KeptStep
  BY <1>6 DEF Proposes, Ends, KeptStep, Waiting, BaseInv, Typed, TasksTyped, PlansTyped
<1>7. ASSUME NEW t \in Tasks, NEW o \in Outcomes, Executes(t, o) PROVE KeptStep
  BY <1>7
  DEF Executes, Ends, Done, Over, KeptStep, Waiting, BaseInv, Typed, TasksTyped, PlansTyped,
      Decided, LiveTasks, Live
<1>8. ASSUME Restart PROVE KeptStep
  BY <1>8
  DEF Restart, Keeps, KeptStep, Waiting, BaseInv, Typed, TasksTyped, PlansTyped, RecordsTyped
<1> QED
  BY <1>1, <1>2, <1>3, <1>4, <1>5, <1>6, <1>7, <1>8
  DEF Next, Step, vars, tasks, session, plans, store, ghosts, Accept, Active, Answers, Begin,
      CancelActive, Disconnect, Done, Ends, Expire, First, Keeps, Land, LandFails, NeverRuns,
      Over, Revises, Saved, Written, chat_abort, chat_inject, chat_send, plan_approve,
      plan_iterate

-----------------------------------------------------------------------------
(* Theorems *)

ChatInv == /\ BaseInv /\ HashKept /\ Decided /\ TextApproved /\ ExecutesApproved
           /\ GoneInv /\ OldInv

LEMMA ChatInductive == Spec => []ChatInv
<1>1. Init => ChatInv
  BY BaseStart DEF Init, ChatInv, HashKept, Decided, TextApproved, ExecutesApproved, GoneInv,
                   OldInv
<1>2. ChatInv /\ [Next]_vars => ChatInv'
  BY BaseStep, HashStep, DecidedStep, TextApprovedStep, ApprovedStep, GoneStep, OldStep
  DEF ChatInv
<1>3. QED BY <1>1, <1>2, PTL DEF Spec

\* Every variable has its type in every reachable state.
THEOREM ChatTypeCorrect == Spec => []TypeOK
<1>1. ChatInv => TypeOK
  <2> SUFFICES ASSUME ChatInv PROVE TypeOK
    OBVIOUS
  <2>1. TasksTyped /\ PlansTyped /\ RecordsTyped /\ AllAuthored
    BY DEF ChatInv, BaseInv, Typed
  <2>2. \A t \in Tasks : (t > started) = (pc[t] = "none")
    <3> TAKE t \in Tasks
    <3>1. CASE t > started BY <2>1, <3>1 DEF TasksTyped
    <3>2. CASE ~(t > started) BY <2>1, <3>2, TaskFacts DEF TasksTyped
    <3>3. QED BY <3>1, <3>2
  <2>3. Waiting(plan) => text[plan] # None
    BY <2>1, TaskFacts DEF Waiting, AllAuthored
  <2>4. row \in [id : Plans, text : Plans, status : Statuses]
    BY <2>1 DEF PlansTyped, Rows
  <2>5. expired \subseteq Plans BY <2>1, TaskFacts DEF PlansTyped
  <2>6. QED
    BY <2>1, <2>2, <2>3, <2>4, <2>5 DEF TypeOK, TasksTyped, PlansTyped, RecordsTyped, Pcs
<1>2. QED BY <1>1, ChatInductive, PTL

\* What the user took away, a plan or the history, does not come back
\* (plan_reject, chat_clear, run_approved of chat.py).
THEOREM RemovalsAreFinal == Spec => []RemovalsStick
<1>1. ChatInv => RemovalsStick
  BY DEF ChatInv, GoneInv, GoneFor, OldInv, ClearedAway, RemovalsStick, GoneStaysGone,
         ClearedStaysCleared, Removals
<1>2. QED BY <1>1, ChatInductive, PTL

\* What is executed is what was approved, or a revision begun before the
\* approval (plan_approve, run_approved, run_iteration of chat.py).
THEOREM ApprovedIsExecuted == Spec => []ExecutesApproved
<1>1. ChatInv => ExecutesApproved BY DEF ChatInv
<1>2. QED BY <1>1, ChatInductive, PTL

\* A task that is the only live one, and was so since it started, is the one
\* that abort and clear cancel (active_task of chat.py).
THEOREM LoneTaskReached == Spec => AbortReaches
<1>1. ChatInv /\ [Next]_vars => [ReachesStep]_vars
  BY AbortStep DEF ChatInv
<1>2. QED BY <1>1, ChatInductive, PTL DEF Spec, AbortReaches, ReachesStep

\* A plan that waits for its decision leaves for one of the reasons listed.
THEOREM PendingPlansStay == Spec => PendingPlanKept
<1>1. ChatInv /\ [Next]_vars => [KeptStep]_vars
  BY PlanKeptStep DEF ChatInv
<1>2. QED BY <1>1, ChatInductive, PTL DEF Spec, PendingPlanKept, KeptStep
=============================================================================
