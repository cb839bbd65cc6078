------------------------- MODULE TaskLifecycleProofs -------------------------
(***************************************************************************)
(* Proofs about TaskLifecycle for any number of tasks, calls and agents.   *)
(*                                                                         *)
(* An UPDATE writes what a call decided on a state that may be gone.  What *)
(* holds nevertheless is carried by the call: PlansSound says what remains *)
(* true of its plan whatever the others do in the meantime.                *)
(***************************************************************************)
EXTENDS TaskLifecycle, SequenceTheorems, TLAPS

Decided(c) == call[c].pc = "decided" /\ call[c].op # "create"
Creating(c) == call[c].pc = "decided" /\ call[c].op = "create"
Begin(c, t) ==
  \/ BeginUpdate(c, t) \/ BeginReject(c, t)
  \/ \E by \in Agent : BeginResolve(c, t, by) \/ BeginApprove(c, t, by)
WasDone(t) == \E i \in DOMAIN history[t] : history[t][i].to = "DONE"

\* A task that a call has read is there until the call ends.
PlansExist == \A c \in Call : Decided(c) => Exists(call[c].task)

Sound(p) ==
  /\ Recorded(p) => <<p.from, p.to>> \in Arrow
  /\ ~Recorded(p) => p.from = p.to
  /\ p.stamp => p.to = "DONE"
  /\ p.from = "DONE" => WasDone(p.task)
PlansSound == \A c \in Call : Decided(c) => Sound(call[c])

CreationsSound ==
  \A c \in Call : Creating(c) =>
    call[c].row.resolved = "no" /\ ~call[c].row.deleted

Unrecorded == \A t \in Task : ~Exists(t) => history[t] = <<>>

DoneRecorded ==
  \A t \in Task :
    Exists(t) /\ (tasks[t].status = "DONE" \/ tasks[t].resolved # "no")
      => WasDone(t)

ReopenedSeen ==
  \A t \in Task :
    Exists(t) /\ tasks[t].status # "DONE" /\ tasks[t].resolved # "no"
      => "reopened" \in past[t]

\* A task that no lookup takes for resolved.
Findable(t) == Live(t) /\ tasks[t].keyed /\ tasks[t].resolved = "no"
Explained(t, u) ==
  \/ {"reopened", "unseen"} \cap (past[t] \cup past[u]) # {}
  \/ Apart(t, u)
KeysSeen ==
  \A t, u \in Task : t # u /\ Findable(t) /\ Findable(u) => Explained(t, u)

TypeInv == TypeOK /\ PlansExist
TrailInv == /\ PlansSound /\ CreationsSound /\ Unrecorded /\ DoneRecorded
            /\ RecordsAreArrows /\ StatusMatchesRecord
KeyInv == ReopenedSeen /\ KeysSeen

-----------------------------------------------------------------------------
(* Types *)

LEMMA PlanTyped ==
  ASSUME TypeOK, NEW c \in Call, call[c].pc = "decided"
  PROVE  /\ call[c].op # "create" => call[c] \in Plan
         /\ call[c].op = "create" => call[c] \in CreatePlan
  BY DEF TypeOK, Plan, CreatePlan, New, Done

LEMMA RowTyped ==
  ASSUME TypeOK, NEW t \in Task, Exists(t)
  PROVE  tasks[t] \in TaskRow
  BY DEF TypeOK, Exists

\* The other columns that an UPDATE leaves.
LEMMA EditedRow ==
  ASSUME NEW t, tasks[t] \in TaskRow, NEW r \in Edited(t)
  PROVE  /\ r \in TaskRow
         /\ r.status = tasks[t].status
         /\ r.resolved = tasks[t].resolved
         /\ r.deleted = tasks[t].deleted
<1>1. PICK e \in Columns :
        r = [tasks[t] EXCEPT !.human = e.human, !.keyed = e.keyed,
                             !.agent = e.agent]
  BY DEF Edited
<1>2. QED BY <1>1 DEF TaskRow, Columns

LEMMA EditedPastTyped ==
  ASSUME TypeOK, NEW t \in Task, NEW r
  PROVE  EditedPast(t, r) \in SUBSET Mark
  BY DEF EditedPast, Mark, TypeOK

\* What an UPDATE makes of the row it finds.
LEMMA WrittenRow ==
  ASSUME NEW p \in Plan, tasks[p.task] \in TaskRow, NEW r \in Edits(p)
  PROVE  /\ r \in TaskRow /\ Written(p, r) \in TaskRow
         /\ Written(p, r).status = p.to
         /\ Written(p, r).resolved =
              IF p.stamp THEN "recent" ELSE tasks[p.task].resolved
         /\ Written(p, r).keyed = r.keyed
         /\ Written(p, r).agent = r.agent
         /\ Written(p, r).deleted = tasks[p.task].deleted
<1>1. r \in TaskRow /\ r.resolved = tasks[p.task].resolved
      /\ r.deleted = tasks[p.task].deleted
  BY EditedRow DEF Edits
<1>2. QED BY <1>1 DEF Written, TaskRow, Plan

LEMMA NewRowTyped ==
  ASSUME NEW s \in Status, NEW h \in BOOLEAN, NEW k \in BOOLEAN,
         NEW a \in Assignee
  PROVE  NewRow(s, h, k, a) \in TaskRow
  BY DEF NewRow, TaskRow

\* What a call writes down before it commits.
LEMMA Decides ==
  ASSUME TypeInv, NEW c \in Call, NEW t \in Task, Begin(c, t)
  PROVE  /\ Exists(t)
         /\ UNCHANGED <<tasks, history, silent, past>>
         /\ \E p \in Plan :
              /\ call' = [call EXCEPT ![c] = p]
              /\ p.task = t
              /\ p.from = tasks[t].status
              /\ Recorded(p) => <<p.from, p.to>> \in Arrow
              /\ ~Recorded(p) => p.from = p.to
              /\ p.stamp => p.to = "DONE"
<1> USE DEF Decide, Plan
<1>1. Exists(t) /\ tasks[t].status \in Status
  BY RowTyped DEF Begin, BeginUpdate, BeginResolve, BeginApprove, BeginReject,
     Live, TypeInv, TaskRow
<1>2. CASE BeginUpdate(c, t)
  <2>1. PICK to \in Status, resolution \in BOOLEAN, bridge \in BOOLEAN :
          /\ to = tasks[t].status \/ ValidTransition(tasks[t].status, to, resolution)
          /\ Decide(c, "update", t, to, bridge /\ to = "DONE")
    BY <1>2 DEF BeginUpdate
  <2>2. to # tasks[t].status => <<tasks[t].status, to>> \in Arrow
    BY <2>1, <1>1 DEF ValidTransition, Allowed, Arrow, Status
  <2> DEFINE p == [pc |-> "decided", op |-> "update", task |-> t,
                   from |-> tasks[t].status, to |-> to,
                   stamp |-> (bridge /\ to = "DONE")]
  <2>3. p \in Plan BY <1>1
  <2>4. QED BY <1>1, <2>1, <2>2, <2>3 DEF Recorded
<1>3. CASE \E by \in Agent : BeginResolve(c, t, by)
  <2> DEFINE p == [pc |-> "decided", op |-> "resolve", task |-> t,
                   from |-> tasks[t].status, to |-> "DONE",
                   stamp |-> TRUE]
  <2>1. p \in Plan BY <1>1 DEF Status
  <2>2. <<p.from, p.to>> \in Arrow BY <1>3 DEF BeginResolve, Resolvable, Arrow
  <2>3. Recorded(p) BY DEF Recorded
  <2>4. QED BY <1>1, <1>3, <2>1, <2>2, <2>3 DEF BeginResolve
<1>4. CASE \E by \in Agent : BeginApprove(c, t, by)
  <2> DEFINE p == [pc |-> "decided", op |-> "approve", task |-> t,
                   from |-> tasks[t].status, to |-> "DONE",
                   stamp |-> TRUE]
  <2>1. p \in Plan BY <1>1 DEF Status
  <2>2. <<p.from, p.to>> \in Arrow BY <1>4 DEF BeginApprove, Arrow
  <2>3. Recorded(p) BY DEF Recorded
  <2>4. QED BY <1>1, <1>4, <2>1, <2>2, <2>3 DEF BeginApprove
<1>5. CASE BeginReject(c, t)
  <2> DEFINE p == [pc |-> "decided", op |-> "reject", task |-> t,
                   from |-> tasks[t].status, to |-> "IN_PROGRESS",
                   stamp |-> FALSE]
  <2>1. p \in Plan BY <1>1 DEF Status
  <2>2. <<p.from, p.to>> \in Arrow BY <1>5 DEF BeginReject, Arrow
  <2>3. Recorded(p) BY DEF Recorded
  <2>4. QED BY <1>1, <1>5, <2>1, <2>2, <2>3 DEF BeginReject
<1>6. QED BY <1>2, <1>3, <1>4, <1>5 DEF Begin

\* What an UPDATE without a status leaves alone.
LEMMA RowEdits ==
  ASSUME TypeOK, NEW t \in Task, Edit(t) \/ Delete(t) \/ Age(t)
  PROVE  /\ UNCHANGED <<history, call, silent>>
         /\ tasks' \in [Task -> TaskRow \cup {NoTask}]
         /\ past' \in [Task -> SUBSET Mark]
         /\ \A u \in Task :
              /\ ~Exists(u) => tasks'[u] = tasks[u]
              /\ Exists(u) =>
                   /\ tasks'[u] \in TaskRow
                   /\ tasks'[u].status = tasks[u].status
                   /\ (tasks'[u].resolved = "no") <=> (tasks[u].resolved = "no")
                   /\ tasks[u].deleted => tasks'[u].deleted
                   /\ \/ /\ tasks'[u].keyed = tasks[u].keyed
                         /\ tasks'[u].agent = tasks[u].agent
                         /\ past'[u] = past[u]
                      \/ past'[u] = EditedPast(u, tasks'[u])
<1>1. tasks[t] \in TaskRow /\ Exists(t)
  BY RowTyped DEF Edit, Delete, Age, Live
<1>2. PICK r \in TaskRow :
        /\ tasks' = [tasks EXCEPT ![t] = r]
        /\ r.status = tasks[t].status
        /\ (r.resolved = "no") <=> (tasks[t].resolved = "no")
        /\ tasks[t].deleted => r.deleted
        /\ \/ r.keyed = tasks[t].keyed /\ r.agent = tasks[t].agent /\ past' = past
           \/ past' = [past EXCEPT ![t] = EditedPast(t, r)]
  <2>1. CASE Edit(t)
    <3>1. PICK r \in Edited(t) :
            /\ tasks' = [tasks EXCEPT ![t] = r]
            /\ past' = [past EXCEPT ![t] = EditedPast(t, r)]
      BY <2>1 DEF Edit
    <3>2. r \in TaskRow /\ r.status = tasks[t].status
          /\ r.resolved = tasks[t].resolved /\ r.deleted = tasks[t].deleted
      BY <1>1, EditedRow
    <3>3. QED BY <3>1, <3>2
  <2>2. CASE Delete(t)
    <3> DEFINE r == [tasks[t] EXCEPT !.deleted = TRUE]
    <3>1. r \in TaskRow /\ tasks' = [tasks EXCEPT ![t] = r]
      BY <1>1, <2>2 DEF Delete, TaskRow, TypeOK
    <3>2. past' = past BY <2>2 DEF Delete
    <3>3. QED BY <1>1, <3>1, <3>2 DEF TaskRow
  <2>3. CASE Age(t)
    <3> DEFINE r == [tasks[t] EXCEPT !.resolved = "old"]
    <3>1. r \in TaskRow /\ tasks' = [tasks EXCEPT ![t] = r]
      BY <1>1, <2>3 DEF Age, TaskRow, TypeOK
    <3>2. past' = past BY <2>3 DEF Age
    <3>3. QED BY <1>1, <2>3, <3>1, <3>2 DEF TaskRow, Age
  <2>4. QED BY <2>1, <2>2, <2>3
<1>3. UNCHANGED <<history, call, silent>>
  BY DEF Edit, Delete, Age
<1>4. past' \in [Task -> SUBSET Mark]
  BY <1>2, EditedPastTyped DEF TypeOK
<1>5. tasks' \in [Task -> TaskRow \cup {NoTask}]
  BY <1>2 DEF TypeOK
<1>6. ASSUME NEW u \in Task, u # t
      PROVE  tasks'[u] = tasks[u] /\ past'[u] = past[u]
  BY <1>2, <1>6 DEF TypeOK
<1>7. tasks'[t] = r
  BY <1>2 DEF TypeOK
<1>8. \/ tasks'[t].keyed = tasks[t].keyed /\ tasks'[t].agent = tasks[t].agent
         /\ past'[t] = past[t]
      \/ past'[t] = EditedPast(t, tasks'[t])
  <2> HIDE DEF EditedPast
  <2>1. QED BY <1>2, <1>7 DEF TypeOK
<1>9. ASSUME NEW u \in Task, Exists(u) PROVE tasks[u] \in TaskRow
  BY <1>9, RowTyped
<1>10. QED BY <1>1, <1>2, <1>3, <1>4, <1>5, <1>6, <1>7, <1>8, <1>9

\* What the UPDATE of a decided call does to the rows.
LEMMA Commits ==
  ASSUME TypeInv, NEW c \in Call, Commit(c)
  PROVE  LET p == call[c] IN
         /\ Decided(c) /\ p \in Plan /\ p.task \in Task
         /\ Exists(p.task) /\ tasks[p.task] \in TaskRow
         /\ tasks' \in [Task -> TaskRow \cup {NoTask}]
         /\ past' \in [Task -> SUBSET Mark]
         /\ tasks'[p.task] \in TaskRow
         /\ tasks'[p.task].status = p.to
         /\ tasks'[p.task].resolved =
              IF p.stamp THEN "recent" ELSE tasks[p.task].resolved
         /\ tasks'[p.task].deleted = tasks[p.task].deleted
         /\ past'[p.task] =
              IF p.to # "DONE" /\ tasks[p.task].resolved # "no"
                THEN {"reopened"} ELSE EditedPast(p.task, tasks'[p.task])
         /\ \A t \in Task \ {p.task} :
              /\ past'[t] = past[t]
              /\ \/ tasks'[t] = tasks[t]
                 \/ /\ ~Exists(t)
                    /\ tasks'[t] = NewRow("TODO", FALSE, FALSE, tasks[p.task].agent)
<1> DEFINE p == call[c]
<1>1. Decided(c) /\ p \in Plan /\ p.task \in Task
  BY PlanTyped DEF Commit, Decided, TypeInv, Plan
<1>2. Exists(p.task) /\ tasks[p.task] \in TaskRow
  BY <1>1, RowTyped DEF TypeInv, PlansExist
<1>3. PICK S \in Subtasks(p), r \in Edits(p) :
        /\ tasks' = [t \in Task |->
                       IF t = p.task THEN Written(p, r)
                       ELSE IF t \in S
                         THEN NewRow("TODO", FALSE, FALSE, tasks[p.task].agent)
                       ELSE tasks[t]]
        /\ past' = [past EXCEPT ![p.task] = WrittenPast(p, r)]
  BY DEF Commit
<1>4. /\ Written(p, r) \in TaskRow
      /\ Written(p, r).status = p.to
      /\ Written(p, r).resolved =
           IF p.stamp THEN "recent" ELSE tasks[p.task].resolved
      /\ Written(p, r).keyed = r.keyed /\ Written(p, r).agent = r.agent
      /\ Written(p, r).deleted = tasks[p.task].deleted
  BY <1>1, <1>2, WrittenRow
<1>5. NewRow("TODO", FALSE, FALSE, tasks[p.task].agent) \in TaskRow
  <2>1. tasks[p.task].agent \in Assignee BY <1>2 DEF TaskRow
  <2>2. QED BY <2>1, NewRowTyped DEF Status
<1>6. \A t \in S : ~Exists(t)
  BY DEF Subtasks, Fresh
<1>7. tasks'[p.task] = Written(p, r)
  BY <1>1, <1>3
<1>8. EditedPast(p.task, tasks'[p.task]) = EditedPast(p.task, r)
  BY <1>4, <1>7 DEF EditedPast
<1>9. past'[p.task] = WrittenPast(p, r)
  BY <1>1, <1>3 DEF TypeInv, TypeOK
<1>10. past'[p.task] = IF p.to # "DONE" /\ tasks[p.task].resolved # "no"
                         THEN {"reopened"} ELSE EditedPast(p.task, tasks'[p.task])
  BY <1>8, <1>9 DEF WrittenPast
<1>11. WrittenPast(p, r) \in SUBSET Mark
  BY <1>1, EditedPastTyped DEF WrittenPast, Mark, TypeInv
<1>12. past' \in [Task -> SUBSET Mark]
  BY <1>3, <1>11 DEF TypeInv, TypeOK
<1>13. tasks' \in [Task -> TaskRow \cup {NoTask}]
  BY <1>3, <1>4, <1>5 DEF TypeInv, TypeOK
<1>14. ASSUME NEW t \in Task \ {p.task}
       PROVE  /\ past'[t] = past[t]
              /\ \/ tasks'[t] = tasks[t]
                 \/ /\ ~Exists(t)
                    /\ tasks'[t] = NewRow("TODO", FALSE, FALSE, tasks[p.task].agent)
  BY <1>3, <1>6 DEF TypeInv, TypeOK
<1>15. QED BY <1>1, <1>2, <1>4, <1>7, <1>10, <1>12, <1>13, <1>14

LEMMA Creates ==
  ASSUME TypeOK, NEW c \in Call, CommitCreate(c)
  PROVE  /\ Creating(c) /\ call[c] \in CreatePlan /\ call[c].row \in TaskRow
         /\ call' = [call EXCEPT ![c] = Done]
         /\ UNCHANGED silent
         /\ \E t \in Task :
              /\ ~Exists(t)
              /\ tasks' = [tasks EXCEPT ![t] = call[c].row]
              /\ history' = [history EXCEPT ![t] =
                   <<[from |-> "none", to |-> call[c].row.status]>>]
              /\ past' = [past EXCEPT ![t] = CreatedPast(call[c])]
  BY PlanTyped DEF CommitCreate, Creating, CreatePlan, Fresh

\* At the start there is no task, or one with its creation on record.
LEMMA Starts ==
  ASSUME Init
  PROVE  /\ tasks = [t \in Task |-> tasks[t]]
         /\ history = [t \in Task |-> history[t]]
         /\ \A t \in Task :
              \/ tasks[t] = NoTask /\ history[t] = <<>>
              \/ \E s \in Status, h \in BOOLEAN, k \in BOOLEAN, a \in Assignee :
                   /\ tasks[t] = NewRow(s, h, k, a)
                   /\ history[t] = <<[from |-> "none", to |-> s]>>
         /\ \A t, u \in Task : t # u => ~Exists(t) \/ ~Exists(u)
<1>1. CASE tasks = [t \in Task |-> NoTask] /\ history = [t \in Task |-> <<>>]
  BY <1>1 DEF Exists
<1>2. CASE \E t \in Task, s \in Initial, h \in BOOLEAN, k \in BOOLEAN,
              a \in Assignee :
             /\ tasks = [u \in Task |->
                           IF u = t THEN NewRow(s, h, k, a) ELSE NoTask]
             /\ history = [u \in Task |->
                  IF u = t THEN <<[from |-> "none", to |-> s]>> ELSE <<>>]
  <2>1. PICK t \in Task, s \in Status, h \in BOOLEAN, k \in BOOLEAN,
             a \in Assignee :
          /\ tasks = [u \in Task |-> IF u = t THEN NewRow(s, h, k, a) ELSE NoTask]
          /\ history = [u \in Task |->
               IF u = t THEN <<[from |-> "none", to |-> s]>> ELSE <<>>]
    BY <1>2, InitialAssumption
  <2>2. QED BY <2>1 DEF Exists
<1>3. QED BY <1>1, <1>2 DEF Init

LEMMA TypeStart == Init => TypeInv
<1> SUFFICES ASSUME Init PROVE TypeInv
  OBVIOUS
<1>1. ASSUME NEW t \in Task
      PROVE  tasks[t] \in TaskRow \cup {NoTask} /\ history[t] \in Seq(Record)
  <2>1. CASE tasks[t] = NoTask /\ history[t] = <<>>
    BY <2>1
  <2>2. ASSUME NEW s \in Status, NEW h \in BOOLEAN, NEW k \in BOOLEAN,
               NEW a \in Assignee, tasks[t] = NewRow(s, h, k, a),
               history[t] = <<[from |-> "none", to |-> s]>>
        PROVE  tasks[t] \in TaskRow /\ history[t] \in Seq(Record)
    <3>1. [from |-> "none", to |-> s] \in Record BY DEF Record
    <3>2. QED BY <2>2, <3>1, NewRowTyped
  <2>3. QED BY <2>1, <2>2, Starts
<1>2. history \in [Task -> Seq(Record)] /\ tasks \in [Task -> TaskRow \cup {NoTask}]
  BY <1>1, Starts
<1>3. call \in [Call -> {New}]
  BY DEF Init
<1>4. PlansExist
  BY <1>3 DEF PlansExist, Decided, New
<1>5. past \in [Task -> SUBSET Mark]
  BY DEF Init
<1>6. QED BY <1>2, <1>3, <1>4, <1>5 DEF Init, TypeInv, TypeOK

LEMMA TypeStep == TypeInv /\ [Next]_vars => TypeInv'
<1> SUFFICES ASSUME TypeInv, [Next]_vars PROVE TypeInv'
  OBVIOUS
<1> USE DEF TypeInv
<1>1. ASSUME NEW c \in Call, NEW t \in Task, Begin(c, t)
      PROVE  TypeInv'
  <2>1. PICK p \in Plan :
          /\ call' = [call EXCEPT ![c] = p]
          /\ p.task = t
          /\ p.from = tasks[t].status
          /\ Recorded(p) => <<p.from, p.to>> \in Arrow
          /\ ~Recorded(p) => p.from = p.to
          /\ p.stamp => p.to = "DONE"
    <3> HIDE DEF TypeInv
    <3>1. QED BY <1>1, Decides
  <2>2. Exists(t) /\ UNCHANGED <<tasks, history, silent, past>>
    <3> HIDE DEF TypeInv
    <3>1. QED BY <1>1, Decides
  <2>3. TypeOK' BY <2>1, <2>2 DEF TypeOK
  <2>4. PlansExist'
    <3> SUFFICES ASSUME NEW d \in Call, Decided(d)' PROVE Exists(call[d].task)'
      BY DEF PlansExist
    <3>1. CASE d = c BY <3>1, <2>1, <2>2 DEF TypeOK, Exists
    <3>2. CASE d # c
      <4>1. call'[d] = call[d] BY <2>1, <3>2 DEF TypeOK
      <4>2. QED BY <2>2, <4>1 DEF PlansExist, Decided, Exists
    <3>3. QED BY <3>1, <3>2
  <2>5. QED BY <2>3, <2>4
<1>2. ASSUME NEW c \in Call, BeginCreate(c) PROVE TypeInv'
  <2>1. PICK via \in Route, s \in Status, h \in BOOLEAN, k \in BOOLEAN,
             a \in Assignee :
          call' = [call EXCEPT ![c] = [pc |-> "decided", op |-> "create",
                                       row |-> NewRow(s, h, k, a), via |-> via]]
    BY <1>2, InitialAssumption DEF BeginCreate
  <2>2. [pc |-> "decided", op |-> "create", row |-> NewRow(s, h, k, a),
         via |-> via] \in CreatePlan
    BY NewRowTyped DEF CreatePlan
  <2>3. TypeOK' BY <1>2, <2>1, <2>2 DEF BeginCreate, TypeOK
  <2>4. PlansExist'
    BY <1>2, <2>1 DEF BeginCreate, TypeOK, PlansExist, Decided, Exists
  <2>5. QED BY <2>3, <2>4
<1>3. ASSUME NEW c \in Call, Commit(c) PROVE TypeInv'
  <2> DEFINE p == call[c]
  <2>1. p \in Plan /\ tasks' \in [Task -> TaskRow \cup {NoTask}]
    BY <1>3, Commits
  <2>2. call' = [call EXCEPT ![c] = Done] BY <1>3 DEF Commit
  <2>3. [from |-> p.from, to |-> p.to] \in Record
    BY <2>1 DEF Plan, Record
  <2>4. Append(history[p.task], [from |-> p.from, to |-> p.to]) \in Seq(Record)
    BY <2>1, <2>3, AppendProperties DEF TypeOK, Plan
  <2>5. history' \in [Task -> Seq(Record)]
    BY <1>3, <2>4 DEF Commit, TypeOK
  <2>6. p.task \in Task BY <2>1 DEF Plan
  <2>7. silent' \subseteq Task /\ past' \in [Task -> SUBSET Mark]
    BY <1>3, <2>6, Commits DEF Commit, TypeOK
  <2>8. TypeOK' BY <2>1, <2>2, <2>5, <2>7 DEF TypeOK
  <2>9. \A t \in Task : Exists(t) => Exists(t)'
    <3> SUFFICES ASSUME NEW t \in Task, Exists(t) PROVE Exists(t)'
      OBVIOUS
    <3>1. CASE t = p.task
      BY <1>3, <3>1, Commits, NoTaskAssumption DEF Exists
    <3>2. CASE t # p.task
      BY <1>3, <3>2, Commits DEF Exists
    <3>3. QED BY <3>1, <3>2
  <2>10. PlansExist'
    <3> SUFFICES ASSUME NEW d \in Call, Decided(d)' PROVE Exists(call[d].task)'
      BY DEF PlansExist
    <3>1. d # c BY <2>2 DEF TypeOK, Decided, Done
    <3>2. call'[d] = call[d] BY <2>2, <3>1 DEF TypeOK
    <3>3. Decided(d) BY <3>2 DEF Decided
    <3>4. call[d] \in Plan BY <3>3, PlanTyped DEF Decided
    <3>5. QED BY <2>9, <3>2, <3>3, <3>4 DEF PlansExist, Plan, Exists
  <2>11. QED BY <2>8, <2>10
<1>4. ASSUME NEW c \in Call, CommitCreate(c) PROVE TypeInv'
  <2>1. PICK t \in Task :
          /\ ~Exists(t)
          /\ tasks' = [tasks EXCEPT ![t] = call[c].row]
          /\ history' = [history EXCEPT ![t] =
               <<[from |-> "none", to |-> call[c].row.status]>>]
          /\ past' = [past EXCEPT ![t] = CreatedPast(call[c])]
    BY <1>4, Creates
  <2>2. call' = [call EXCEPT ![c] = Done] /\ UNCHANGED silent
        /\ call[c].row \in TaskRow
    BY <1>4, Creates
  <2>3. [from |-> "none", to |-> call[c].row.status] \in Record
    BY <2>2 DEF TaskRow, Record
  <2>4. <<[from |-> "none", to |-> call[c].row.status]>> \in Seq(Record)
    BY <2>3
  <2>5. CreatedPast(call[c]) \in SUBSET Mark BY DEF CreatedPast, Mark
  <2>50. TypeOK' BY <2>1, <2>2, <2>4, <2>5 DEF TypeOK
  <2>6. \A u \in Task : Exists(u) => Exists(u)'
    BY <2>1, <2>2, NoTaskAssumption DEF TypeOK, Exists
  <2>7. PlansExist'
    <3> SUFFICES ASSUME NEW d \in Call, Decided(d)' PROVE Exists(call[d].task)'
      BY DEF PlansExist
    <3>1. d # c BY <2>2 DEF TypeOK, Decided, Done
    <3>2. call'[d] = call[d] BY <2>2, <3>1 DEF TypeOK
    <3>3. Decided(d) BY <3>2 DEF Decided
    <3>4. call[d] \in Plan BY <3>3, PlanTyped DEF Decided
    <3>5. QED BY <2>6, <3>2, <3>3, <3>4 DEF PlansExist, Plan, Exists
  <2>8. QED BY <2>50, <2>7
<1>5. ASSUME NEW c \in Call, Abort(c) PROVE TypeInv'
  BY <1>5 DEF Abort, TypeOK, PlansExist, Decided, Done, Exists
<1>6. ASSUME NEW t \in Task, Edit(t) \/ Delete(t) \/ Age(t) PROVE TypeInv'
  <2>1. TypeOK' BY <1>6, RowEdits DEF TypeOK
  <2>2. \A u \in Task : Exists(u) => Exists(u)'
    BY <1>6, RowEdits, NoTaskAssumption DEF Exists
  <2>3. UNCHANGED call BY <1>6, RowEdits
  <2>4. PlansExist'
    <3> SUFFICES ASSUME NEW d \in Call, Decided(d) PROVE Exists(call[d].task)'
      BY <2>3 DEF PlansExist, Decided
    <3>1. call[d] \in Plan BY PlanTyped DEF Decided
    <3>2. QED BY <2>2, <2>3, <3>1 DEF PlansExist, Plan, Exists
  <2>5. QED BY <2>1, <2>4
<1>7. CASE UNCHANGED vars
  BY <1>7 DEF vars, TypeOK, PlansExist, Decided, Exists
<1>8. QED BY <1>1, <1>2, <1>3, <1>4, <1>5, <1>6, <1>7 DEF Next, Begin

\* Every variable has its type in every reachable state: an UPDATE never
\* writes to a row that is not there.
THEOREM TaskTypeCorrect == Spec => []TypeOK
<1>1. TypeInv => TypeOK BY DEF TypeInv
<1>2. QED BY <1>1, TypeStart, TypeStep, PTL DEF Spec

-----------------------------------------------------------------------------
(* The audit trail *)

LEMMA TrailStart == Init => TrailInv
<1> SUFFICES ASSUME Init PROVE TrailInv
  OBVIOUS
<1>1. call = [c \in Call |-> New]
  BY DEF Init
<1>2. PlansSound /\ CreationsSound
  BY <1>1 DEF PlansSound, CreationsSound, Decided, Creating, New
<1>3. ASSUME NEW t \in Task
      PROVE  \/ tasks[t] = NoTask /\ history[t] = <<>>
             \/ /\ Exists(t) /\ tasks[t].resolved = "no"
                /\ history[t] = <<[from |-> "none", to |-> tasks[t].status]>>
  <2>1. ASSUME NEW s \in Status, NEW h \in BOOLEAN, NEW k \in BOOLEAN,
               NEW a \in Assignee, tasks[t] = NewRow(s, h, k, a)
        PROVE  Exists(t) /\ tasks[t].resolved = "no" /\ tasks[t].status = s
    <3>1. NewRow(s, h, k, a).resolved = "no" /\ NewRow(s, h, k, a).status = s
      BY DEF NewRow
    <3>2. QED BY <2>1, <3>1, NewRowTyped, NoTaskAssumption DEF Exists
  <2>2. QED BY <2>1, Starts
<1>4. Unrecorded BY <1>3 DEF Unrecorded
<1>5. DoneRecorded
  <2> SUFFICES ASSUME NEW t \in Task, Exists(t),
                      tasks[t].status = "DONE" \/ tasks[t].resolved # "no"
               PROVE  WasDone(t)
    BY DEF DoneRecorded
  <2>1. history[t] = <<[from |-> "none", to |-> "DONE"]>>
    BY <1>3 DEF Exists
  <2>2. 1 \in DOMAIN history[t] /\ history[t][1].to = "DONE"
    BY <2>1
  <2>3. QED BY <2>2 DEF WasDone
<1>6. RecordsAreArrows
  <2> SUFFICES ASSUME NEW t \in Task, NEW i \in DOMAIN history[t]
               PROVE  i = 1 /\ history[t][i].from = "none"
    BY DEF RecordsAreArrows
  <2>1. history[t] = <<>> \/ history[t] = <<[from |-> "none", to |-> tasks[t].status]>>
    BY <1>3
  <2>2. QED BY <2>1
<1>7. StatusMatchesRecord
  <2> SUFFICES ASSUME NEW t \in Task, Exists(t)
               PROVE  history[t] # <<>> /\ tasks[t].status = LastRecord(t).to
    BY DEF StatusMatchesRecord
  <2>1. history[t] = <<[from |-> "none", to |-> tasks[t].status]>>
    BY <1>3 DEF Exists
  <2>2. QED BY <2>1 DEF LastRecord
<1>8. QED BY <1>2, <1>4, <1>5, <1>6, <1>7 DEF TrailInv

\* What the UPDATE of a decided call does to the audit trail.
LEMMA Records ==
  ASSUME TypeInv, NEW c \in Call, Commit(c)
  PROVE  LET p == call[c] h == history[call[c].task] IN
         /\ p.task \in Task /\ h \in Seq(Record)
         /\ \A t \in Task \ {p.task} : history'[t] = history[t]
         /\ ~Recorded(p) => history'[p.task] = h
         /\ Recorded(p) =>
              /\ Len(history'[p.task]) = Len(h) + 1
              /\ DOMAIN history'[p.task] = DOMAIN h \cup {Len(h) + 1}
              /\ \A i \in DOMAIN h : history'[p.task][i] = h[i]
              /\ history'[p.task][Len(h) + 1] = [from |-> p.from, to |-> p.to]
<1> DEFINE p == call[c]
           h == history[p.task]
           rec == [from |-> p.from, to |-> p.to]
<1>1. p \in Plan BY Commits
<1>2. p.task \in Task /\ rec \in Record BY <1>1 DEF Plan, Record
<1>3. h \in Seq(Record) BY <1>2 DEF TypeInv, TypeOK
<1>4. /\ Append(h, rec) \in Seq(Record)
      /\ Len(Append(h, rec)) = Len(h) + 1
      /\ \A i \in 1 .. Len(h) : Append(h, rec)[i] = h[i]
      /\ Append(h, rec)[Len(h) + 1] = rec
  BY <1>2, <1>3, AppendProperties
<1>5. /\ Len(h) \in Nat /\ DOMAIN h = 1 .. Len(h)
      /\ DOMAIN Append(h, rec) = 1 .. Len(Append(h, rec))
  BY <1>3, <1>4
<1>6. DOMAIN Append(h, rec) = DOMAIN h \cup {Len(h) + 1}
  BY <1>4, <1>5
<1>7. history' = IF Recorded(p) THEN [history EXCEPT ![p.task] = Append(h, rec)]
                 ELSE history
  BY DEF Commit
<1>8. Recorded(p) => history'[p.task] = Append(h, rec)
  BY <1>2, <1>7 DEF TypeInv, TypeOK
<1>9. ~Recorded(p) => history'[p.task] = h
  BY <1>7
<1>10. \A t \in Task \ {p.task} : history'[t] = history[t]
  BY <1>7 DEF TypeInv, TypeOK
<1>11. QED BY <1>2, <1>3, <1>4, <1>5, <1>6, <1>8, <1>9, <1>10

\* What was ever DONE is so for good, whoever writes next.
LEMMA DoneStays ==
  ASSUME TypeInv, TrailInv, [Next]_vars, NEW t \in Task, WasDone(t)
  PROVE  WasDone(t)'
<1>1. ASSUME UNCHANGED history PROVE WasDone(t)'
  BY <1>1 DEF WasDone
<1>2. ASSUME NEW c \in Call, Commit(c) PROVE WasDone(t)'
  <2>1. CASE t = call[c].task /\ Recorded(call[c])
    <3>1. PICK i \in DOMAIN history[t] : history[t][i].to = "DONE"
      BY DEF WasDone
    <3>2. i \in DOMAIN history'[t] /\ history'[t][i] = history[t][i]
      BY <1>2, <2>1, <3>1, Records
    <3>3. QED BY <3>1, <3>2 DEF WasDone
  <2>2. CASE ~(t = call[c].task /\ Recorded(call[c]))
    <3>1. history'[t] = history[t] BY <1>2, <2>2, Records
    <3>2. QED BY <3>1 DEF WasDone
  <2>3. QED BY <2>1, <2>2
<1>3. ASSUME NEW c \in Call, CommitCreate(c) PROVE WasDone(t)'
  <2>1. PICK u \in Task :
          /\ ~Exists(u)
          /\ tasks' = [tasks EXCEPT ![u] = call[c].row]
          /\ history' = [history EXCEPT ![u] =
               <<[from |-> "none", to |-> call[c].row.status]>>]
          /\ past' = [past EXCEPT ![u] = CreatedPast(call[c])]
    BY <1>3, Creates DEF TypeInv
  <2>2. history[u] = <<>> BY <2>1 DEF TrailInv, Unrecorded
  <2>3. t # u BY <2>2 DEF WasDone
  <2>4. history'[t] = history[t] BY <2>1, <2>3 DEF TypeInv, TypeOK
  <2>5. QED BY <2>4 DEF WasDone
<1>4. ASSUME NEW c \in Call, NEW u \in Task, Begin(c, u)
      PROVE  WasDone(t)'
  BY <1>1, <1>4, Decides
<1>5. ASSUME NEW c \in Call, BeginCreate(c) \/ Abort(c) PROVE WasDone(t)'
  BY <1>1, <1>5 DEF BeginCreate, Abort
<1>6. ASSUME NEW u \in Task, Edit(u) \/ Delete(u) \/ Age(u) PROVE WasDone(t)'
  BY <1>1, <1>6, RowEdits DEF TypeInv
<1>7. CASE UNCHANGED vars
  BY <1>1, <1>7 DEF vars
<1>8. QED BY <1>2, <1>3, <1>4, <1>5, <1>6, <1>7 DEF Next, Begin

\* A call's plan stays sound until it commits, whatever the others do.
LEMMA PlansStep ==
  TypeInv /\ TrailInv /\ [Next]_vars => PlansSound' /\ CreationsSound'
<1> SUFFICES ASSUME TypeInv, TrailInv, [Next]_vars
             PROVE  PlansSound' /\ CreationsSound'
  OBVIOUS
<1>1. ASSUME NEW c \in Call, call'[c] = call[c], Decided(c)
      PROVE  Sound(call[c])'
  <2>1. \A t \in Task : WasDone(t) => WasDone(t)'
    BY DoneStays
  <2>2. call[c].task \in Task
    BY <1>1, PlanTyped DEF Decided, Plan, TypeInv
  <2>3. Sound(call[c])
    BY <1>1 DEF TrailInv, PlansSound
  <2>4. PICK p : p = call[c] /\ p = call'[c]
    BY <1>1
  <2>5. Sound(p)'
    BY <2>1, <2>2, <2>3, <2>4 DEF Sound, Recorded
  <2>6. QED BY <2>4, <2>5 DEF Sound, WasDone, Recorded
<1>2. ASSUME NEW e \in Call, NEW q, call' = [call EXCEPT ![e] = q],
             q.pc = "decided" /\ q.op # "create" => Sound(q)',
             q.pc = "decided" /\ q.op = "create" =>
               q.row.resolved = "no" /\ ~q.row.deleted
      PROVE  PlansSound' /\ CreationsSound'
  <2>1. \A c \in Call : call'[c] = IF c = e THEN q ELSE call[c]
    BY <1>2 DEF TypeInv, TypeOK
  <2>2. PlansSound'
    <3> SUFFICES ASSUME NEW c \in Call, Decided(c)'
                 PROVE  Sound(call[c])'
      BY DEF PlansSound
    <3>1. CASE c = e
      <4>1. Sound(q)' BY <1>2, <2>1, <3>1 DEF Decided
      <4>2. QED BY <2>1, <3>1, <4>1 DEF Sound, WasDone, Recorded
    <3>2. CASE c # e
      <4>1. call'[c] = call[c] /\ Decided(c) BY <2>1, <3>2 DEF Decided
      <4>2. QED BY <4>1, <1>1
    <3>3. QED BY <3>1, <3>2
  <2>3. CreationsSound'
    <3> SUFFICES ASSUME NEW c \in Call, Creating(c)'
                 PROVE  (call[c].row.resolved = "no" /\ ~call[c].row.deleted)'
      BY DEF CreationsSound
    <3>1. CASE c = e BY <1>2, <2>1, <3>1 DEF Creating
    <3>2. CASE c # e
      BY <2>1, <3>2 DEF Creating, TrailInv, CreationsSound
    <3>3. QED BY <3>1, <3>2
  <2>4. QED BY <2>2, <2>3
<1>3. ASSUME UNCHANGED call PROVE PlansSound' /\ CreationsSound'
  <2>1. PlansSound'
    <3> SUFFICES ASSUME NEW c \in Call, Decided(c)'
                 PROVE  Sound(call[c])'
      BY DEF PlansSound
    <3>1. call'[c] = call[c] /\ Decided(c) BY <1>3 DEF Decided
    <3>2. QED BY <3>1, <1>1
  <2>2. CreationsSound' BY <1>3 DEF TrailInv, CreationsSound, Creating
  <2>3. QED BY <2>1, <2>2
<1>4. ASSUME NEW c \in Call, NEW t \in Task, Begin(c, t)
      PROVE  PlansSound' /\ CreationsSound'
  <2>1. PICK p \in Plan :
          /\ call' = [call EXCEPT ![c] = p]
          /\ p.task = t
          /\ p.from = tasks[t].status
          /\ Recorded(p) => <<p.from, p.to>> \in Arrow
          /\ ~Recorded(p) => p.from = p.to
          /\ p.stamp => p.to = "DONE"
    BY <1>4, Decides
  <2>2. Exists(t) /\ UNCHANGED history BY <1>4, Decides
  <2>3. p.from = "DONE" => WasDone(t)'
    BY <2>1, <2>2 DEF TrailInv, DoneRecorded, WasDone
  <2>4. p.op # "create" BY DEF Plan
  <2>5. Sound(p)' BY <2>1, <2>3 DEF Sound, Recorded
  <2>6. QED BY <1>2, <2>1, <2>4, <2>5
<1>5. ASSUME NEW c \in Call, BeginCreate(c) PROVE PlansSound' /\ CreationsSound'
  <2>1. PICK via \in Route, s \in Status, h \in BOOLEAN, k \in BOOLEAN,
             a \in Assignee :
          call' = [call EXCEPT ![c] = [pc |-> "decided", op |-> "create",
                                       row |-> NewRow(s, h, k, a), via |-> via]]
    BY <1>5, InitialAssumption DEF BeginCreate
  <2>2. NewRow(s, h, k, a).resolved = "no" /\ ~NewRow(s, h, k, a).deleted
    BY DEF NewRow
  <2>3. QED BY <1>2, <2>1, <2>2
<1>6. ASSUME NEW c \in Call, Commit(c) \/ CommitCreate(c) \/ Abort(c)
      PROVE  PlansSound' /\ CreationsSound'
  <2>1. call' = [call EXCEPT ![c] = Done]
    BY <1>6 DEF Commit, CommitCreate, Abort
  <2>2. Done.pc # "decided" BY DEF Done
  <2>3. QED BY <1>2, <2>1, <2>2
<1>7. ASSUME NEW t \in Task, Edit(t) \/ Delete(t) \/ Age(t)
      PROVE  PlansSound' /\ CreationsSound'
  BY <1>3, <1>7, RowEdits DEF TypeInv
<1>8. CASE UNCHANGED vars
  BY <1>3, <1>8 DEF vars
<1>9. QED BY <1>4, <1>5, <1>6, <1>7, <1>8 DEF Next, Begin

\* The rows and their trails.
RowsInv ==
  Unrecorded /\ DoneRecorded /\ RecordsAreArrows /\ StatusMatchesRecord

LEMMA CommitRows ==
  ASSUME TypeInv, TrailInv, [Next]_vars, NEW c \in Call, Commit(c)
  PROVE  RowsInv'
<1> DEFINE p == call[c]
           h == history[p.task]
<1>1. /\ p \in Plan /\ p.task \in Task
      /\ Exists(p.task) /\ tasks[p.task] \in TaskRow
      /\ tasks'[p.task] \in TaskRow /\ tasks'[p.task].status = p.to
      /\ tasks'[p.task].resolved =
           IF p.stamp THEN "recent" ELSE tasks[p.task].resolved
  BY Commits
<1>2. Sound(p)
  BY Commits DEF TrailInv, PlansSound
<1>3. ASSUME NEW t \in Task, t # p.task
      PROVE  /\ history'[t] = history[t]
             /\ \/ tasks'[t] = tasks[t]
                \/ /\ ~Exists(t) /\ tasks'[t] # NoTask
                   /\ tasks'[t].status = "TODO" /\ tasks'[t].resolved = "no"
  <2>1. history'[t] = history[t] BY <1>3, Records
  <2>2. \/ tasks'[t] = tasks[t]
        \/ /\ ~Exists(t)
           /\ tasks'[t] = NewRow("TODO", FALSE, FALSE, tasks[p.task].agent)
    BY <1>3, Commits
  <2>3. tasks[p.task].agent \in Assignee BY <1>1 DEF TaskRow
  <2>4. NewRow("TODO", FALSE, FALSE, tasks[p.task].agent) \in TaskRow
    BY <2>3, NewRowTyped DEF Status
  <2>5. /\ NewRow("TODO", FALSE, FALSE, tasks[p.task].agent).status = "TODO"
        /\ NewRow("TODO", FALSE, FALSE, tasks[p.task].agent).resolved = "no"
    BY DEF NewRow
  <2>6. QED BY <2>1, <2>2, <2>4, <2>5, NoTaskAssumption
<1>4. silent' = IF Resaved(p) THEN silent \cup {p.task} ELSE silent \ {p.task}
  BY DEF Commit
<1>5. h \in Seq(Record) /\ Len(h) \in Nat /\ DOMAIN h = 1 .. Len(h)
  <2>1. h \in Seq(Record) BY <1>1 DEF TypeInv, TypeOK
  <2>2. QED BY <2>1
<1>6. Recorded(p) =>
        /\ Len(history'[p.task]) = Len(h) + 1
        /\ DOMAIN history'[p.task] = DOMAIN h \cup {Len(h) + 1}
        /\ \A i \in DOMAIN h : history'[p.task][i] = h[i]
        /\ history'[p.task][Len(h) + 1] = [from |-> p.from, to |-> p.to]
  BY Records
<1>7. ~Recorded(p) => history'[p.task] = h
  BY Records
<1>8. tasks'[p.task] # NoTask
  BY <1>1, NoTaskAssumption
<1>9. Unrecorded'
  <2> SUFFICES ASSUME NEW t \in Task, ~Exists(t)' PROVE history'[t] = <<>>
    BY DEF Unrecorded
  <2>1. t # p.task BY <1>8 DEF Exists
  <2>2. ~Exists(t) BY <1>3, <2>1 DEF Exists
  <2>3. QED BY <1>3, <2>1, <2>2 DEF TrailInv, Unrecorded
<1>10. DoneRecorded'
  <2> SUFFICES ASSUME NEW t \in Task,
                 (Exists(t) /\ (tasks[t].status = "DONE" \/ tasks[t].resolved # "no"))'
               PROVE  WasDone(t)'
    BY DEF DoneRecorded
  <2>1. CASE t = p.task
    <3>1. CASE p.to = "DONE" /\ Recorded(p)
      BY <1>6, <2>1, <3>1 DEF WasDone
    <3>2. CASE p.to = "DONE" /\ ~Recorded(p)
      <4>1. WasDone(t) BY <1>2, <2>1, <3>2 DEF Sound
      <4>2. QED BY <4>1, DoneStays
    <3>3. CASE p.to # "DONE"
      <4>1. tasks[t].resolved # "no"
        BY <1>1, <1>2, <2>1, <3>3 DEF Sound
      <4>2. WasDone(t) BY <1>1, <2>1, <4>1 DEF TrailInv, DoneRecorded
      <4>3. QED BY <4>2, DoneStays
    <3>4. QED BY <3>1, <3>2, <3>3
  <2>2. CASE t # p.task
    <3>1. tasks'[t] = tasks[t]
      BY <1>3, <2>2
    <3>2. WasDone(t) BY <3>1 DEF TrailInv, DoneRecorded, Exists
    <3>3. QED BY <3>2, DoneStays
  <2>3. QED BY <2>1, <2>2
<1>11. RecordsAreArrows'
  <2> SUFFICES ASSUME NEW t \in Task, NEW i \in DOMAIN history'[t]
               PROVE  IF history'[t][i].from = "none" THEN i = 1
                      ELSE <<history'[t][i].from, history'[t][i].to>> \in Arrow
    BY DEF RecordsAreArrows
  <2>1. CASE t = p.task /\ Recorded(p) /\ i = Len(h) + 1
    <3>1. history'[t][i] = [from |-> p.from, to |-> p.to]
      BY <1>6, <2>1
    <3>2. p.from # "none" BY <1>1 DEF Plan, Status
    <3>3. QED BY <1>2, <2>1, <3>1, <3>2 DEF Sound
  <2>2. CASE ~(t = p.task /\ Recorded(p) /\ i = Len(h) + 1)
    <3>1. i \in DOMAIN history[t] /\ history'[t][i] = history[t][i]
      <4>1. CASE t # p.task BY <1>3, <4>1
      <4>2. CASE t = p.task /\ ~Recorded(p) BY <1>7, <4>2
      <4>3. CASE t = p.task /\ Recorded(p) BY <1>6, <2>2, <4>3
      <4>4. QED BY <4>1, <4>2, <4>3
    <3>2. QED BY <3>1 DEF TrailInv, RecordsAreArrows
  <2>3. QED BY <2>1, <2>2
<1>12. StatusMatchesRecord'
  <2> SUFFICES ASSUME NEW t \in Task, Exists(t)', t \notin silent'
               PROVE  tasks'[t].status =
                        IF history'[t] = <<>> THEN "TODO" ELSE LastRecord(t)'.to
    BY DEF StatusMatchesRecord
  <2>1. CASE t = p.task
    <3>1. Recorded(p) BY <1>1, <1>4, <2>1 DEF Recorded, Resaved
    <3>2. tasks'[t].status = p.to BY <1>1, <2>1
    <3>3. LastRecord(t)'.to = p.to BY <1>6, <2>1, <3>1 DEF LastRecord
    <3>4. history'[t] # <<>> BY <1>5, <1>6, <2>1, <3>1
    <3>5. QED BY <3>2, <3>3, <3>4
  <2>2. CASE t # p.task
    <3>1. t \notin silent BY <1>4, <2>2
    <3>2. CASE tasks'[t] = tasks[t]
      BY <1>3, <2>2, <3>1, <3>2 DEF TrailInv, StatusMatchesRecord, Exists, LastRecord
    <3>3. CASE ~Exists(t) /\ tasks'[t].status = "TODO"
      BY <1>3, <2>2, <3>3 DEF TrailInv, Unrecorded
    <3>4. QED BY <1>3, <2>2, <3>2, <3>3
  <2>3. QED BY <2>1, <2>2
<1>13. QED BY <1>9, <1>10, <1>11, <1>12 DEF RowsInv

LEMMA CreateRows ==
  ASSUME TypeInv, TrailInv, NEW c \in Call, CommitCreate(c)
  PROVE  RowsInv'
<1>1. PICK t \in Task :
        /\ ~Exists(t)
        /\ tasks' = [tasks EXCEPT ![t] = call[c].row]
        /\ history' = [history EXCEPT ![t] =
             <<[from |-> "none", to |-> call[c].row.status]>>]
        /\ past' = [past EXCEPT ![t] = CreatedPast(call[c])]
  BY Creates DEF TypeInv
<1>2. UNCHANGED silent /\ call[c].row \in TaskRow /\ call[c].row.resolved = "no"
  BY Creates DEF TypeInv, TrailInv, CreationsSound
<1>3. tasks'[t] = call[c].row
      /\ history'[t] = <<[from |-> "none", to |-> call[c].row.status]>>
  BY <1>1 DEF TypeInv, TypeOK
<1>4. \A u \in Task \ {t} : tasks'[u] = tasks[u] /\ history'[u] = history[u]
  BY <1>1 DEF TypeInv, TypeOK
<1>5. Exists(t)' BY <1>2, <1>3, NoTaskAssumption DEF Exists
<1>6. Unrecorded' BY <1>4, <1>5 DEF TrailInv, Unrecorded, Exists
<1>7. DoneRecorded'
  BY <1>2, <1>3, <1>4 DEF TrailInv, DoneRecorded, Exists, WasDone
<1>8. RecordsAreArrows'
  BY <1>3, <1>4 DEF TrailInv, RecordsAreArrows
<1>9. StatusMatchesRecord'
  BY <1>2, <1>3, <1>4 DEF TrailInv, StatusMatchesRecord, Exists, LastRecord
<1>10. QED BY <1>6, <1>7, <1>8, <1>9 DEF RowsInv

LEMMA TrailStep == TypeInv /\ TrailInv /\ [Next]_vars => TrailInv'
<1> SUFFICES ASSUME TypeInv, TrailInv, [Next]_vars PROVE TrailInv'
  OBVIOUS
<1>1. ASSUME UNCHANGED <<tasks, history, silent>> PROVE RowsInv'
  BY <1>1 DEF RowsInv, TrailInv, Unrecorded, DoneRecorded, RecordsAreArrows,
     StatusMatchesRecord, Exists, WasDone, LastRecord
<1>2. ASSUME NEW c \in Call, NEW t \in Task, Begin(c, t)
      PROVE  RowsInv'
  BY <1>1, <1>2, Decides
<1>3. ASSUME NEW c \in Call, BeginCreate(c) \/ Abort(c) PROVE RowsInv'
  BY <1>1, <1>3 DEF BeginCreate, Abort
<1>4. ASSUME NEW c \in Call, Commit(c) PROVE RowsInv'
  BY <1>4, CommitRows
<1>5. ASSUME NEW c \in Call, CommitCreate(c) PROVE RowsInv'
  BY <1>5, CreateRows
<1>6. ASSUME NEW t \in Task, Edit(t) \/ Delete(t) \/ Age(t) PROVE RowsInv'
  <2>1. UNCHANGED <<history, silent>> BY <1>6, RowEdits DEF TypeInv
  <2>2. \A u \in Task : Exists(u)' <=> Exists(u)
    BY <1>6, RowEdits, NoTaskAssumption DEF TypeInv, Exists
  <2>3. \A u \in Task : Exists(u) =>
          /\ tasks'[u].status = tasks[u].status
          /\ (tasks'[u].resolved = "no") <=> (tasks[u].resolved = "no")
    BY <1>6, RowEdits DEF TypeInv
  <2>4. Unrecorded' BY <2>1, <2>2 DEF TrailInv, Unrecorded
  <2>5. DoneRecorded' BY <2>1, <2>2, <2>3 DEF TrailInv, DoneRecorded, WasDone
  <2>6. RecordsAreArrows' BY <2>1 DEF TrailInv, RecordsAreArrows
  <2>7. StatusMatchesRecord'
    BY <2>1, <2>2, <2>3 DEF TrailInv, StatusMatchesRecord, LastRecord
  <2>8. QED BY <2>4, <2>5, <2>6, <2>7 DEF RowsInv
<1>7. ASSUME UNCHANGED vars PROVE RowsInv'
  BY <1>1, <1>7 DEF vars
<1>8. RowsInv'
  BY <1>2, <1>3, <1>4, <1>5, <1>6, <1>7 DEF Next, Begin
<1>9. QED BY <1>8, PlansStep DEF TrailInv, RowsInv

\* Whatever calls overlap: the audit trail holds nothing but arrows of the
\* state machine.
THEOREM TrailIsArrows == Spec => []RecordsAreArrows
<1>1. TrailInv => RecordsAreArrows BY DEF TrailInv
<1>2. QED
  BY <1>1, TypeStart, TypeStep, TrailStart, TrailStep, PTL DEF Spec

\* Whatever calls overlap: the status is the one recorded last, unless a
\* Resaved update wrote it.
THEOREM StatusIsRecorded == Spec => []StatusMatchesRecord
<1>1. TrailInv => StatusMatchesRecord BY DEF TrailInv
<1>2. QED
  BY <1>1, TypeStart, TypeStep, TrailStart, TrailStep, PTL DEF Spec

\* Both: the trail tells how each task came to its status.
THEOREM TrailTellsStatus == Spec => []TrailTells
<1>1. RecordsAreArrows /\ StatusMatchesRecord => TrailTells BY DEF TrailTells
<1>2. QED BY <1>1, TrailIsArrows, StatusIsRecorded, PTL

\* Whatever calls overlap: resolved_at says that the task has been DONE.
THEOREM ResolvedMeansDone == Spec => []ResolvedWasDone
<1>1. TrailInv => ResolvedWasDone
  BY DEF TrailInv, DoneRecorded, ResolvedWasDone, WasDone
<1>2. QED
  BY <1>1, TypeStart, TypeStep, TrailStart, TrailStep, PTL DEF Spec

-----------------------------------------------------------------------------
(* Keys *)

LEMMA KeyStart == Init => KeyInv
<1> SUFFICES ASSUME Init PROVE KeyInv
  OBVIOUS
<1>1. \A t \in Task : Exists(t) => tasks[t].resolved = "no"
  BY Starts DEF NewRow, Exists
<1>2. ReopenedSeen BY <1>1 DEF ReopenedSeen
<1>3. KeysSeen BY Starts DEF KeysSeen, Findable, Live
<1>4. QED BY <1>2, <1>3 DEF KeyInv

\* A key that is explained stays so while its tasks keep key and agent.
LEMMA Stays ==
  ASSUME NEW t \in Task, NEW u \in Task, Explained(t, u),
         tasks'[t].agent = tasks[t].agent, past'[t] = past[t],
         tasks'[u].agent = tasks[u].agent, past'[u] = past[u]
  PROVE  Explained(t, u)'
  BY DEF Explained, Apart

\* An UPDATE that changes a task's key or agent explains what follows from it.
LEMMA StaysEdited ==
  ASSUME NEW t \in Task, NEW u \in Task,
         tasks[t].keyed => Explained(t, u) \/ Explained(u, t),
         tasks'[t].keyed,
         past'[t] = {"reopened"} \/ past'[t] = EditedPast(t, tasks'[t]),
         tasks'[u].agent = tasks[u].agent, past'[u] = past[u]
  PROVE  Explained(t, u)' /\ Explained(u, t)'
<1>1. CASE "reopened" \in past'[t] \/ "unseen" \in past'[t]
  BY <1>1 DEF Explained
<1>2. CASE ~("reopened" \in past'[t] \/ "unseen" \in past'[t])
  <2>1. past'[t] = EditedPast(t, tasks'[t])
    BY <1>2
  <2>2. "reopened" \notin past[t] /\ tasks[t].keyed /\ "unseen" \notin past[t]
    BY <1>2, <2>1 DEF EditedPast
  <2>3. past'[t] = past[t] \cup
          {m \in {"moved"} : tasks'[t].agent # tasks[t].agent}
    BY <2>1, <2>2 DEF EditedPast
  <2>4. Explained(t, u)
    BY <2>2 DEF Explained, Apart
  <2>5. QED BY <2>3, <2>4 DEF Explained, Apart
<1>3. QED BY <1>1, <1>2

LEMMA KeyStep == TypeInv /\ TrailInv /\ KeyInv /\ [Next]_vars => KeyInv'
<1> SUFFICES ASSUME TypeInv, TrailInv, KeyInv, [Next]_vars PROVE KeyInv'
  OBVIOUS
<1> USE DEF KeyInv
<1>1. ASSUME UNCHANGED <<tasks, past>> PROVE KeyInv'
  BY <1>1 DEF ReopenedSeen, KeysSeen, Findable, Live, Exists, Explained, Apart
<1>2. ASSUME NEW c \in Call, NEW t \in Task, Begin(c, t)
      PROVE  KeyInv'
  BY <1>1, <1>2, Decides
<1>3. ASSUME NEW c \in Call, BeginCreate(c) \/ Abort(c) PROVE KeyInv'
  BY <1>1, <1>3 DEF BeginCreate, Abort
<1>4. ASSUME NEW c \in Call, Commit(c) PROVE KeyInv'
  <2> DEFINE p == call[c]
  <2>1. /\ p \in Plan /\ p.task \in Task
        /\ Exists(p.task) /\ tasks'[p.task] \in TaskRow
        /\ tasks'[p.task].status = p.to
        /\ tasks'[p.task].resolved =
             IF p.stamp THEN "recent" ELSE tasks[p.task].resolved
        /\ tasks'[p.task].deleted = tasks[p.task].deleted
    BY <1>4, Commits
  <2>2. past'[p.task] =
          IF p.to # "DONE" /\ tasks[p.task].resolved # "no"
            THEN {"reopened"} ELSE EditedPast(p.task, tasks'[p.task])
    BY <1>4, Commits
  <2>3. ASSUME NEW t \in Task, t # p.task
        PROVE  /\ past'[t] = past[t]
               /\ \/ tasks'[t] = tasks[t]
                  \/ tasks'[t].resolved = "no" /\ ~tasks'[t].keyed
    <3>1. /\ past'[t] = past[t]
          /\ \/ tasks'[t] = tasks[t]
             \/ tasks'[t] = NewRow("TODO", FALSE, FALSE, tasks[p.task].agent)
      BY <1>4, <2>3, Commits
    <3>2. QED BY <3>1 DEF NewRow
  <2>4. p.stamp => p.to = "DONE"
    BY <1>4, Commits DEF TrailInv, PlansSound, Sound
  <2>5. ReopenedSeen'
    <3> SUFFICES ASSUME NEW t \in Task,
                        (Exists(t) /\ tasks[t].status # "DONE"
                           /\ tasks[t].resolved # "no")'
                 PROVE  "reopened" \in past'[t]
      BY DEF ReopenedSeen
    <3>1. CASE t = p.task
      <4>1. p.to # "DONE" BY <2>1, <3>1
      <4>2. tasks[p.task].resolved # "no" BY <2>1, <2>4, <3>1, <4>1
      <4>3. QED BY <2>2, <3>1, <4>1, <4>2
    <3>2. CASE t # p.task
      BY <2>3, <3>2 DEF ReopenedSeen, Exists
    <3>3. QED BY <3>1, <3>2
  <2>6. ASSUME NEW t \in Task, t # p.task, Findable(t)'
        PROVE  Findable(t) /\ tasks'[t] = tasks[t] /\ past'[t] = past[t]
    BY <2>3, <2>6 DEF Findable, Live, Exists
  <2>7. ASSUME NEW t \in Task, t = p.task, Findable(t)'
        PROVE  /\ Live(t) /\ tasks[t].resolved = "no" /\ tasks'[t].keyed
               /\ past'[t] = EditedPast(t, tasks'[t])
    <3>1. tasks'[t].resolved = "no" /\ ~tasks'[t].deleted /\ tasks'[t].keyed
      BY <2>7 DEF Findable, Live
    <3>2. tasks[t].resolved = "no" BY <2>1, <2>7, <3>1
    <3>3. QED BY <2>1, <2>2, <2>7, <3>1, <3>2 DEF Live
  <2>8. KeysSeen'
    <3> SUFFICES ASSUME NEW t \in Task, NEW u \in Task, t # u,
                        Findable(t)', Findable(u)'
                 PROVE  Explained(t, u)'
      BY DEF KeysSeen
    <3>1. CASE t # p.task /\ u # p.task
      BY <2>6, <3>1, Stays DEF KeysSeen
    <3>2. CASE t = p.task
      <4>1. Findable(u) /\ tasks'[u] = tasks[u] /\ past'[u] = past[u]
        BY <2>6, <3>2
      <4>2. tasks[t].keyed => Explained(t, u)
        BY <2>7, <3>2, <4>1 DEF KeysSeen, Findable
      <4>3. QED BY <2>7, <3>2, <4>1, <4>2, StaysEdited
    <3>3. CASE u = p.task
      <4>1. Findable(t) /\ tasks'[t] = tasks[t] /\ past'[t] = past[t]
        BY <2>6, <3>3
      <4>2. tasks[u].keyed => Explained(t, u)
        BY <2>7, <3>3, <4>1 DEF KeysSeen, Findable
      <4>3. QED BY <2>7, <3>3, <4>1, <4>2, StaysEdited
    <3>4. QED BY <3>1, <3>2, <3>3
  <2>9. QED BY <2>5, <2>8
<1>5. ASSUME NEW c \in Call, CommitCreate(c) PROVE KeyInv'
  <2> DEFINE p == call[c]
  <2>1. PICK t \in Task :
          /\ ~Exists(t)
          /\ tasks' = [tasks EXCEPT ![t] = p.row]
          /\ history' = [history EXCEPT ![t] =
               <<[from |-> "none", to |-> p.row.status]>>]
          /\ past' = [past EXCEPT ![t] = CreatedPast(p)]
    BY <1>5, Creates DEF TypeInv
  <2>2. p \in CreatePlan /\ p.row.resolved = "no"
    BY <1>5, Creates DEF TypeInv, TrailInv, CreationsSound
  <2>3. tasks'[t] = p.row /\ past'[t] = CreatedPast(p)
    BY <2>1 DEF TypeInv, TypeOK
  <2>4. \A u \in Task \ {t} : tasks'[u] = tasks[u] /\ past'[u] = past[u]
    BY <2>1 DEF TypeInv, TypeOK
  <2>5. \A u \in Task \ {t} : Findable(u)' <=> Findable(u)
    BY <2>4 DEF Findable, Live, Exists
  <2>6. ASSUME NEW u \in Task, u # t, Findable(u), p.row.keyed
        PROVE  Explained(t, u)' /\ Explained(u, t)'
    <3>1. CASE p.via = "plain" \/ FoundByKey(p.via, p.row.agent) # {}
      <4>1. "unseen" \in past'[t] BY <2>3, <2>6, <3>1 DEF CreatedPast
      <4>2. QED BY <4>1 DEF Explained
    <3>2. CASE p.via # "plain" /\ FoundByKey(p.via, p.row.agent) = {}
      <4>1. u \notin FoundByKey(p.via, p.row.agent) BY <3>2
      <4>2. p.via = "bridge" /\ tasks[u].agent # p.row.agent
        BY <2>2, <2>6, <3>2, <4>1 DEF FoundByKey, Findable, CreatePlan, Route
      <4>3. "scoped" \in past'[t]
        BY <2>3, <2>6, <3>2, <4>2 DEF CreatedPast
      <4>4. tasks'[t].agent # tasks'[u].agent
        BY <2>3, <2>4, <2>6, <4>2
      <4>5. QED BY <4>3, <4>4 DEF Explained, Apart
    <3>3. QED BY <3>1, <3>2
  <2>7. KeysSeen'
    <3> SUFFICES ASSUME NEW v \in Task, NEW u \in Task, v # u,
                        Findable(v)', Findable(u)'
                 PROVE  Explained(v, u)'
      BY DEF KeysSeen
    <3>1. CASE v # t /\ u # t
      BY <2>4, <2>5, <3>1, Stays DEF KeysSeen
    <3>2. CASE v = t
      BY <2>3, <2>5, <2>6, <3>2 DEF Findable
    <3>3. CASE u = t
      BY <2>3, <2>5, <2>6, <3>3 DEF Findable
    <3>4. QED BY <3>1, <3>2, <3>3
  <2>8. ReopenedSeen'
    BY <2>2, <2>3, <2>4 DEF ReopenedSeen, Exists
  <2>9. QED BY <2>7, <2>8
<1>6. ASSUME NEW t \in Task, Edit(t) \/ Delete(t) \/ Age(t) PROVE KeyInv'
  <2>1. ASSUME NEW u \in Task, Exists(u)'
        PROVE  /\ Exists(u)
               /\ tasks'[u].status = tasks[u].status
               /\ (tasks'[u].resolved = "no") <=> (tasks[u].resolved = "no")
               /\ tasks[u].deleted => tasks'[u].deleted
               /\ \/ /\ tasks'[u].keyed = tasks[u].keyed
                     /\ tasks'[u].agent = tasks[u].agent
                     /\ past'[u] = past[u]
                  \/ past'[u] = EditedPast(u, tasks'[u])
    BY <1>6, <2>1, RowEdits DEF TypeInv, Exists
  <2>2. ReopenedSeen'
    <3> SUFFICES ASSUME NEW u \in Task, Exists(u)', tasks'[u].status # "DONE",
                        tasks'[u].resolved # "no"
                 PROVE  "reopened" \in past'[u]
      BY DEF ReopenedSeen
    <3>1. "reopened" \in past[u]
      BY <2>1 DEF ReopenedSeen
    <3>2. EditedPast(u, tasks'[u]) = {"reopened"}
      BY <3>1 DEF EditedPast
    <3>3. QED BY <2>1, <3>1, <3>2
  <2>3. \A u \in Task : u # t => tasks'[u] = tasks[u] /\ past'[u] = past[u]
    BY <1>6 DEF Edit, Delete, Age, TypeInv, TypeOK
  <2>4. KeysSeen'
    <3> SUFFICES ASSUME NEW v \in Task, NEW u \in Task, v # u,
                        Findable(v)', Findable(u)'
                 PROVE  Explained(v, u)'
      BY DEF KeysSeen
    <3>1. ASSUME NEW w \in Task, NEW x \in Task, w # x,
                 Findable(w)', Findable(x)', x # t
          PROVE  Explained(w, x)' /\ Explained(x, w)'
      <4>1. tasks'[x] = tasks[x] /\ past'[x] = past[x] /\ Findable(x)
        BY <2>3, <3>1 DEF Findable, Live, Exists
      <4>2. Live(w) /\ tasks[w].resolved = "no" /\ tasks'[w].keyed
        BY <2>1, <3>1 DEF Findable, Live
      <4>3. tasks[w].keyed => Explained(w, x) /\ Explained(x, w)
        BY <3>1, <4>1, <4>2 DEF KeysSeen, Findable
      <4>4. CASE /\ tasks'[w].keyed = tasks[w].keyed
                 /\ tasks'[w].agent = tasks[w].agent
                 /\ past'[w] = past[w]
        BY <4>1, <4>2, <4>3, <4>4, Stays
      <4>5. CASE past'[w] = EditedPast(w, tasks'[w])
        BY <4>1, <4>2, <4>3, <4>5, StaysEdited
      <4>6. QED BY <2>1, <3>1, <4>4, <4>5 DEF Findable, Live
    <3>2. QED BY <3>1
  <2>5. QED BY <2>2, <2>4
<1>7. CASE UNCHANGED vars
  BY <1>1, <1>7 DEF vars
<1>8. QED BY <1>2, <1>3, <1>4, <1>5, <1>6, <1>7 DEF Next, Begin

\* Two open tasks with one thread id are explained: one was reopened with its
\* resolved_at, got its key without a lookup or under one, or only its agent's
\* tasks were looked at.
THEOREM DuplicatesExplained == Spec => []DuplicatesAccounted
<1>1. KeyInv => DuplicatesAccounted
  <2> SUFFICES ASSUME KeyInv, NEW t \in Task, NEW u \in Task, t # u,
                      Open(t), Open(u), tasks[t].keyed, tasks[u].keyed,
                      "reopened" \notin past[t], "reopened" \notin past[u]
               PROVE  Explained(t, u)
    BY DEF DuplicatesAccounted, Explained
  <2>1. Findable(t) /\ Findable(u)
    BY DEF KeyInv, ReopenedSeen, Findable, Open, Live
  <2>2. QED BY <2>1 DEF KeyInv, KeysSeen
<1>2. QED
  BY <1>1, TypeStart, TypeStep, TrailStart, TrailStep, KeyStart, KeyStep, PTL
     DEF Spec

-----------------------------------------------------------------------------
(* Steps *)

\* A status leaves the arrows, or the trail breaks, only when a call commits
\* what it decided on a status that is gone.
THEOREM StaleCallsOnly == Spec => OnlyStaleCallsBreak
<1>1. TypeInv /\ TrailInv /\ [Next]_vars =>
        \A t \in Task :
          Exists(t) /\ ~StaleCommit(t)
            => OnArrow(t) /\ (t \in silent \/ Chains(t))
  <2> SUFFICES ASSUME TypeInv, TrailInv, [Next]_vars,
                      NEW t \in Task, Exists(t), ~StaleCommit(t)
               PROVE  OnArrow(t) /\ (t \in silent \/ Chains(t))
    OBVIOUS
  <2>1. ASSUME tasks'[t].status = tasks[t].status, history'[t] = history[t]
        PROVE  OnArrow(t) /\ Chains(t)
    BY <2>1 DEF OnArrow, Chains
  <2>2. ASSUME NEW c \in Call, Commit(c)
        PROVE  OnArrow(t) /\ (t \in silent \/ Chains(t))
    <3> DEFINE p == call[c]
    <3>1. CASE p.task # t
      <4>1. history'[t] = history[t] BY <2>2, <3>1, Records
      <4>2. tasks'[t] = tasks[t] BY <2>2, <3>1, Commits
      <4>3. QED BY <2>1, <4>1, <4>2
    <3>2. CASE p.task = t
      <4>1. p \in Plan /\ tasks[t] \in TaskRow
        BY <2>2, <3>2, Commits
      <4>2. p.from = tasks[t].status
        <5>1. call'[c] = Done
          BY <2>2 DEF Commit, TypeInv, TypeOK
        <5>2. p.pc = "decided" /\ p.op # "create"
          BY <2>2 DEF Commit
        <5>3. QED BY <3>2, <5>1, <5>2 DEF StaleCommit
      <4>3. Sound(p) BY <2>2, Commits DEF TrailInv, PlansSound
      <4>4. tasks'[t].status = p.to BY <2>2, <3>2, Commits
      <4>5. OnArrow(t)
        BY <4>2, <4>3, <4>4 DEF OnArrow, Sound
      <4>6. CASE ~Recorded(p)
        <5>1. history'[t] = history[t] BY <2>2, <3>2, <4>6, Records
        <5>2. QED BY <4>5, <5>1 DEF Chains
      <4>7. CASE Recorded(p)
        <5>1. LastRecord(t)'.from = p.from
          <6>1. /\ Len(history'[t]) = Len(history[t]) + 1
                /\ history'[t][Len(history[t]) + 1] =
                     [from |-> p.from, to |-> p.to]
            BY <2>2, <3>2, <4>7, Records
          <6>2. QED BY <6>1 DEF LastRecord
        <5>2. t \notin silent /\ history[t] # <<>> =>
                tasks[t].status = LastRecord(t).to
          BY DEF TrailInv, StatusMatchesRecord
        <5>3. QED BY <4>2, <4>5, <5>1, <5>2 DEF Chains
      <4>8. QED BY <4>6, <4>7
    <3>3. QED BY <3>1, <3>2
  <2>3. ASSUME NEW c \in Call, CommitCreate(c) PROVE OnArrow(t) /\ Chains(t)
    <3>1. PICK u \in Task :
            /\ ~Exists(u)
            /\ tasks' = [tasks EXCEPT ![u] = call[c].row]
            /\ history' = [history EXCEPT ![u] =
                 <<[from |-> "none", to |-> call[c].row.status]>>]
            /\ past' = [past EXCEPT ![u] = CreatedPast(call[c])]
      BY <2>3, Creates DEF TypeInv
    <3>2. tasks'[t] = tasks[t] /\ history'[t] = history[t]
      BY <3>1 DEF TypeInv, TypeOK
    <3>3. QED BY <2>1, <3>2
  <2>4. ASSUME NEW c \in Call, NEW u \in Task, Begin(c, u)
        PROVE  OnArrow(t) /\ Chains(t)
    BY <2>1, <2>4, Decides
  <2>5. ASSUME NEW c \in Call, BeginCreate(c) \/ Abort(c)
        PROVE  OnArrow(t) /\ Chains(t)
    BY <2>1, <2>5 DEF BeginCreate, Abort
  <2>6. ASSUME NEW u \in Task, Edit(u) \/ Delete(u) \/ Age(u)
        PROVE  OnArrow(t) /\ Chains(t)
    BY <2>1, <2>6, RowEdits DEF TypeInv
  <2>7. CASE UNCHANGED vars
    BY <2>1, <2>7 DEF vars
  <2>8. QED BY <2>2, <2>3, <2>4, <2>5, <2>6, <2>7 DEF Next, Begin
<1>2. QED
  BY <1>1, TypeStart, TypeStep, TrailStart, TrailStep, PTL
     DEF Spec, OnlyStaleCallsBreak
=============================================================================
