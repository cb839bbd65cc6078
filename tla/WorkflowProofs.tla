--------------------------- MODULE WorkflowProofs ---------------------------
(***************************************************************************)
(* Proofs about Workflow for any workflows, runs and agents.               *)
(*                                                                         *)
(* The lock of a workflow is in the set as long as a run of it is under    *)
(* way (Held), which nothing but the run itself ends, and the lock of an   *)
(* agent unless the reaper took it (Held again); from that follow who may  *)
(* execute, and that the workflow engine refines its promise.              *)
(***************************************************************************)
EXTENDS Workflow, TLAPS

\* Whoever executes has the turn, and nobody else.
TurnSound == \A r \in Runs : pc[r] = "next" <=> turn = r

Held ==
  /\ \A r \in Runs : Live(r) => wf[r] \in locks
  /\ \A r, s \in Runs : Live(r) /\ Live(s) /\ wf[r] = wf[s] => r = s
  /\ \A r \in Runs, a \in Agents \ reaped : Executing(r, a) => a \in locks
  /\ others \ reaped \subseteq locks

\* What is recorded of a run, while it is under way and after.
Recorded ==
  \A r \in Runs :
    /\ pc[r] # "ended" => verdict[r] = "none" /\ row[r] \in {"none", "running"}
    /\ pc[r] = "new" => results[r] = {} /\ row[r] = "none"
    /\ pc[r] = "ended" => verdict[r] # "none"

\* A failure in the rows of the steps is in the results as well, or was passed over.
RowsTold ==
  \A r \in Runs : pc[r] # "dead" =>
    \A i \in DOMAIN steps(r) :
      <<i, "failed">> \in stepRows[r] =>
        <<i, "failed">> \in results[r] \/ steps(r)[i].onFailure = "skip"

VerdictTrue == \A r \in Runs : verdict[r] = "completed" => pc[r] = "ended" /\ ~Flawed(r)

RowTrue == \A r \in Runs : pc[r] = "ended" => row[r] \in {"none", verdict[r]} \/ r \in unsaved
RowComplete == \A r \in Runs : row[r] = "completed" => verdict[r] = "completed"

\* A run that has an aborting failure is over.
AbortedOver == \A r \in Runs : Live(r) => ~Aborted(r)

WorkflowInv ==
  /\ TypeOK /\ TurnSound /\ Held /\ NoLeakedLock /\ AgentExclusive
  /\ Recorded /\ RowsTold /\ VerdictTrue /\ RowTrue /\ RowComplete /\ AbortedOver

-----------------------------------------------------------------------------
(* The steps of a run under way, sorted by what they do to it. *)

LiveStep(r) == Breath(r) \/ AgentMissing(r) \/ StepEnds(r) \/ Strike(r)

StepStatuses == {"completed", "failed", "skipped"}

\* A step has a result.
Records(r, status) ==
  /\ idx[r] \in DOMAIN steps(r)
  /\ results' = [results EXCEPT ![r] = @ \cup {<<idx[r], Relabelled(r, status)>>}]
  /\ stepRows' = [stepRows EXCEPT ![r] = @ \cup {<<idx[r], status>>}]
  /\ UNCHANGED <<wf, others, reaped>>

\* The workflow goes on ...
Passes(r) ==
  /\ \E status \in StepStatuses : Records(r, status) /\ ~Aborts(r, status)
  /\ idx'[r] \in Nat \ {0} /\ idx' = [idx EXCEPT ![r] = idx'[r]]
  /\ pc' = [pc EXCEPT ![r] = "next"]
  /\ turn' = r
  /\ deadline' \in [Runs -> {"armed", "spent", "off"}]
  /\ locks' = locks \ Freed(r)
  /\ UNCHANGED <<verdict, row, unsaved>>

\* ... or ends with it ...
Aborting(r) ==
  /\ \E status \in StepStatuses : Records(r, status) /\ Aborts(r, status)
  /\ End(r, "failed", Freed(r))

\* ... or without it.
Ending(r) ==
  /\ \E status \in {"completed", "failed", "timeout"} :
       /\ status = "failed" => Flawed(r)
       /\ status = "completed" => ~Flawed(r)
       /\ End(r, status, Freed(r))
  /\ UNCHANGED <<wf, results, stepRows, others, reaped>>

Moves(r) ==
  \/ Passes(r) \/ Aborting(r) \/ Ending(r) \/ AgentStarts(r) \/ ToolStarts(r)
  \/ Swallowed(r)

LEMMA StepTyped ==
  ASSUME NEW w \in DOMAIN Def, NEW i \in DOMAIN Def[w]
  PROVE  /\ Def[w][i] \in Step /\ i \in Nat \ {0}
         /\ Def[w][i].agent \in Agents /\ Def[w][i].next \in Nat
         /\ Def[w][i].gotos \subseteq Nat /\ Def[w][i].type \in StepTypes
<1>1. Def[w] \in Seq(Step) BY WorkflowAssumption
<1>2. Def[w][i] \in Step /\ i \in Nat \ {0} BY <1>1
<1>3. QED BY <1>2 DEF Step

LEMMA FreedByPlace ==
  ASSUME NEW r \in Runs
  PROVE  /\ pc[r] = "agent" => Freed(r) = {step(r).agent}
         /\ pc[r] # "agent" => Freed(r) = {}
BY DEF Freed

LEMMA Concludes ==
  ASSUME TypeOK, NEW r \in Runs, Live(r), idx[r] \in DOMAIN steps(r),
         NEW status \in StepStatuses, NEW goto \in {0} \cup step(r).gotos,
         NEW timer \in {"armed", "spent", "off"}, Conclude(r, status, goto, Freed(r), timer)
  PROVE  Passes(r) \/ Aborting(r)
<1>1. Records(r, status) BY DEF Conclude, Records
<1>2. CASE Aborts(r, status) BY <1>1, <1>2 DEF Conclude, Aborting
<1>3. CASE ~Aborts(r, status)
  <2>1. Target(r, goto) \in Nat \ {0}
    <3>1. wf[r] \in DOMAIN Def BY DEF TypeOK
    <3>2. step(r).next \in Nat /\ step(r).gotos \subseteq Nat
      BY <3>1, StepTyped DEF steps, step
    <3>3. idx[r] \in Nat \ {0} BY DEF TypeOK
    <3>4. QED BY <3>2, <3>3 DEF Target
  <2>2. /\ idx' = [idx EXCEPT ![r] = Target(r, goto)]
        /\ pc' = [pc EXCEPT ![r] = "next"] /\ turn' = r
        /\ deadline' = [deadline EXCEPT ![r] = timer]
        /\ locks' = locks \ Freed(r)
        /\ UNCHANGED <<verdict, row, unsaved>>
    BY <1>3 DEF Conclude
  <2>3. idx'[r] = Target(r, goto) /\ deadline' \in [Runs -> {"armed", "spent", "off"}]
    BY <2>2 DEF TypeOK
  <2>4. QED BY <1>1, <1>3, <2>1, <2>2, <2>3 DEF Passes
<1>4. QED BY <1>2, <1>3

LEMMA LiveMoves ==
  ASSUME TypeOK, NEW r \in Runs, LiveStep(r)
  PROVE  Live(r) /\ turn \in {r, Nobody} /\ Moves(r)
<1>0. deadline[r] \in {"armed", "spent", "off"} BY DEF TypeOK
<1>1. ASSUME NEW type, Before(r, type)
      PROVE  /\ Live(r) /\ turn = r /\ idx[r] \in DOMAIN steps(r)
             /\ Freed(r) = {}
  BY <1>1, FreedByPlace DEF Before, Live
<1>2. CASE Waits(r)
  <2>1. Live(r) /\ turn = Nobody /\ idx[r] \in DOMAIN steps(r)
    BY <1>2 DEF Waits, Live, TypeOK
  <2>2. CASE StepEnds(r)
    <3>1. PICK status \in {"completed", "failed"} :
            Conclude(r, status, 0, Freed(r), deadline[r])
      BY <2>2 DEF StepEnds
    <3>2. status \in StepStatuses BY DEF StepStatuses
    <3>3. Passes(r) \/ Aborting(r) BY <1>0, <2>1, <3>1, <3>2, Concludes
    <3>4. QED BY <2>1, <3>3 DEF Moves
  <2>3. CASE TimesOut(r) BY <2>1, <2>3 DEF TimesOut, Ending, Moves
  <2>4. CASE TakenForAgentTimeout(r)
    <3>1. Conclude(r, "failed", 0, Freed(r), "spent") BY <2>4 DEF TakenForAgentTimeout
    <3>2. Passes(r) \/ Aborting(r) BY <2>1, <3>1, Concludes DEF StepStatuses
    <3>3. QED BY <2>1, <3>2 DEF Moves
  <2>5. CASE Swallowed(r) BY <2>1, <2>5 DEF Moves
  <2>6. CASE Breath(r) \/ AgentMissing(r)
    <3>1. pc[r] = "next"
      BY <2>6 DEF Breath, Finish, AgentBusy, AgentStarts, ToolStarts, ToolAtOnce, Condition,
                  Plain, AgentMissing, Before
    <3>2. QED BY <1>2, <3>1 DEF Waits
  <2>7. QED BY <2>2, <2>3, <2>4, <2>5, <2>6 DEF LiveStep, Strike
<1>3. CASE ~Waits(r)
  <2>1. CASE Finish(r)
    <3>1. pc[r] = "next" /\ turn = r /\ Freed(r) = {}
      BY <2>1, FreedByPlace DEF Finish
    <3>2. End(r, Final(r), Freed(r)) /\ UNCHANGED <<wf, results, stepRows, others, reaped>>
      BY <2>1, <3>1 DEF Finish
    <3>3. Ending(r) BY <3>2 DEF Ending, Final
    <3>4. QED BY <3>1, <3>3 DEF Moves, Live
  <2>2. CASE AgentBusy(r)
    <3>1. Passes(r) \/ Aborting(r)
      BY <1>0, <1>1, <2>2, Concludes DEF AgentBusy, StepStatuses
    <3>2. QED BY <1>1, <2>2, <3>1 DEF AgentBusy, Moves
  <2>3. CASE AgentMissing(r)
    <3>1. Passes(r) \/ Aborting(r)
      BY <1>0, <1>1, <2>3, Concludes DEF AgentMissing, StepStatuses
    <3>2. QED BY <1>1, <2>3, <3>1 DEF AgentMissing, Moves
  <2>4. CASE AgentStarts(r) BY <1>1, <2>4 DEF AgentStarts, Moves
  <2>5. CASE ToolStarts(r) BY <1>1, <2>5 DEF ToolStarts, Moves
  <2>6. CASE ToolAtOnce(r)
    <3>1. PICK status \in {"completed", "failed"} : Conclude(r, status, 0, {}, deadline[r])
      BY <2>6 DEF ToolAtOnce
    <3>2. status \in StepStatuses BY DEF StepStatuses
    <3>3. Passes(r) \/ Aborting(r)
      BY <1>0, <1>1, <2>6, <3>1, <3>2, Concludes DEF ToolAtOnce
    <3>4. QED BY <1>1, <2>6, <3>3 DEF ToolAtOnce, Moves
  <2>7. CASE Condition(r)
    <3>1. PICK goto \in step(r).gotos : Conclude(r, "completed", goto, {}, deadline[r])
      BY <2>7 DEF Condition
    <3>2. Passes(r) \/ Aborting(r)
      BY <1>0, <1>1, <2>7, <3>1, Concludes DEF Condition, StepStatuses
    <3>3. QED BY <1>1, <2>7, <3>2 DEF Condition, Moves
  <2>8. CASE Plain(r)
    <3>1. Passes(r) \/ Aborting(r)
      BY <1>0, <1>1, <2>8, Concludes DEF Plain, StepStatuses
    <3>2. QED BY <1>1, <2>8, <3>1 DEF Plain, Moves
  <2>9. QED
    BY <1>3, <2>1, <2>2, <2>3, <2>4, <2>5, <2>6, <2>7, <2>8
    DEF LiveStep, Breath, Strike, StepEnds, TimesOut, TakenForAgentTimeout, Swallowed
<1>4. QED BY <1>2, <1>3

-----------------------------------------------------------------------------
(* Types and turns. *)

LEMMA RecordsTyped ==
  ASSUME TypeOK, NEW r \in Runs, NEW status \in StepStatuses, Records(r, status)
  PROVE  /\ results' \in [Runs -> SUBSET (Nat \X Statuses)]
         /\ stepRows' \in [Runs -> SUBSET (Nat \X Statuses)]
<1>1. idx[r] \in Nat BY DEF TypeOK
<1>2. status \in Statuses /\ Relabelled(r, status) \in Statuses
  BY DEF StepStatuses, Statuses, Relabelled
<1>3. QED BY <1>1, <1>2 DEF TypeOK, Records

LEMMA EndTyped ==
  ASSUME TypeOK, NEW r \in Runs, NEW status \in {"completed", "failed", "timeout"},
         NEW freed, End(r, status, freed)
  PROVE  /\ locks' = locks \ ({wf[r]} \cup freed) /\ turn' = Nobody
         /\ pc' = [pc EXCEPT ![r] = "ended"] /\ idx' = [idx EXCEPT ![r] = 1]
         /\ deadline' = [deadline EXCEPT ![r] = "off"]
         /\ verdict' = [verdict EXCEPT ![r] = status]
         /\ row' = [row EXCEPT ![r] = row'[r]]
         /\ \/ row'[r] = row[r] /\ r \in unsaved'
            \/ row[r] = "running" /\ row'[r] = status
            \/ row[r] # "running" /\ row'[r] = row[r]
         /\ unsaved' \in {unsaved, unsaved \cup {r}}
<1>1. PICK ok \in Saved :
        /\ row' = [row EXCEPT ![r] = IF ok /\ @ = "running" THEN status ELSE @]
        /\ unsaved' = IF ok THEN unsaved ELSE unsaved \cup {r}
  BY DEF End
<1>2. row = [x \in Runs |-> row[x]] BY DEF TypeOK
<1>3. row'[r] = IF ok /\ row[r] = "running" THEN status ELSE row[r] BY <1>1, <1>2
<1>4. row' = [row EXCEPT ![r] = row'[r]] BY <1>1, <1>3
<1>5. /\ \/ row'[r] = row[r] /\ r \in unsaved'
         \/ row[r] = "running" /\ row'[r] = status
         \/ row[r] # "running" /\ row'[r] = row[r]
      /\ unsaved' \in {unsaved, unsaved \cup {r}}
  <2>1. CASE ok /\ row[r] = "running" BY <1>1, <1>3, <2>1
  <2>2. CASE ok /\ row[r] # "running" BY <1>1, <1>3, <2>2
  <2>3. CASE ~ok BY <1>1, <1>3, <2>3
  <2>4. QED BY <2>1, <2>2, <2>3
<1>6. QED BY <1>4, <1>5 DEF End

\* What a step of one run leaves alone.
LEMMA LiveFrame ==
  ASSUME TypeOK, NEW r \in Runs, LiveStep(r)
  PROVE  /\ UNCHANGED <<wf, others, reaped>>
         /\ \A s \in Runs \ {r} :
              /\ pc'[s] = pc[s] /\ idx'[s] = idx[s] /\ results'[s] = results[s]
              /\ stepRows'[s] = stepRows[s] /\ verdict'[s] = verdict[s] /\ row'[s] = row[s]
              /\ s \in unsaved' <=> s \in unsaved
<1> DEFINE Apart == \A s \in Runs \ {r} :
              /\ pc'[s] = pc[s] /\ idx'[s] = idx[s] /\ results'[s] = results[s]
              /\ stepRows'[s] = stepRows[s] /\ verdict'[s] = verdict[s] /\ row'[s] = row[s]
              /\ s \in unsaved' <=> s \in unsaved
<1>1. Moves(r) BY LiveMoves
<1>2. CASE Passes(r) BY <1>2 DEF Passes, Records, TypeOK
<1>3. CASE Aborting(r)
  <2>1. PICK status \in StepStatuses : Records(r, status) BY <1>3 DEF Aborting
  <2>2. End(r, "failed", Freed(r)) BY <1>3 DEF Aborting
  <2>3. /\ pc' = [pc EXCEPT ![r] = "ended"] /\ idx' = [idx EXCEPT ![r] = 1]
        /\ verdict' = [verdict EXCEPT ![r] = "failed"]
        /\ row' = [row EXCEPT ![r] = row'[r]]
        /\ unsaved' \in {unsaved, unsaved \cup {r}}
    BY <2>2, EndTyped
  <2>4. QED BY <2>1, <2>3 DEF Records, TypeOK
<1>4. CASE Ending(r)
  <2>1. PICK status \in {"completed", "failed", "timeout"} : End(r, status, Freed(r))
    BY <1>4 DEF Ending
  <2>2. /\ pc' = [pc EXCEPT ![r] = "ended"] /\ idx' = [idx EXCEPT ![r] = 1]
        /\ verdict' = [verdict EXCEPT ![r] = status]
        /\ row' = [row EXCEPT ![r] = row'[r]]
        /\ unsaved' \in {unsaved, unsaved \cup {r}}
    BY <2>1, EndTyped
  <2>3. QED BY <1>4, <2>2 DEF Ending, TypeOK
<1>5. CASE AgentStarts(r) BY <1>5 DEF AgentStarts, TypeOK
<1>6. CASE ToolStarts(r) BY <1>6 DEF ToolStarts, TypeOK
<1>7. CASE Swallowed(r) BY <1>7 DEF Swallowed, TypeOK
<1>8. QED BY <1>1, <1>2, <1>3, <1>4, <1>5, <1>6, <1>7 DEF Moves

\* The variables have their types; that a run waits in a step of its kind.
Typed ==
  /\ locks \in SUBSET (Workflows \cup Agents)
  /\ turn \in Runs \cup {Nobody}
  /\ pc \in [Runs -> {"new", "next", "agent", "tool", "ended", "dead"}]
  /\ wf \in [Runs -> Workflows]
  /\ idx \in [Runs -> Nat \ {0}]
  /\ deadline \in [Runs -> {"armed", "spent", "off"}]
  /\ results \in [Runs -> SUBSET (Nat \X Statuses)]
  /\ stepRows \in [Runs -> SUBSET (Nat \X Statuses)]
  /\ verdict \in [Runs -> Verdicts]
  /\ row \in [Runs -> Verdicts \cup {"running"}]
  /\ others \in SUBSET Agents
  /\ reaped \in SUBSET Agents
  /\ unsaved \in SUBSET Runs
Placed ==
  \A r \in Runs :
    /\ Live(r) => wf[r] \in DOMAIN Def
    /\ pc[r] \in {"agent", "tool"} => idx[r] \in DOMAIN steps(r) /\ step(r).type = pc[r]

LEMMA TypeParts == TypeOK <=> Typed /\ Placed
BY DEF TypeOK, Typed, Placed

LEMMA TypedStep ==
  ASSUME TypeOK, [Next]_vars
  PROVE  Typed'
<1>1. CASE UNCHANGED vars BY <1>1 DEF vars, runVars, TypeOK, Typed
<1>2. ASSUME NEW r \in Runs, Unknown(r) \/ Refuse(r) PROVE Typed'
  BY <1>2 DEF Unknown, Refuse, TypeOK, Typed, Verdicts
<1>3. ASSUME NEW r \in Runs, Begin(r) PROVE Typed'
  <2>1. PICK ok \in Saved : /\ row' = [row EXCEPT ![r] = IF ok THEN "running" ELSE @]
                            /\ unsaved' = IF ok THEN unsaved ELSE unsaved \cup {r}
    BY <1>3 DEF Begin
  <2>2. row' \in [Runs -> Verdicts \cup {"running"}] /\ unsaved' \in SUBSET Runs
    BY <2>1 DEF TypeOK
  <2>3. wf[r] \in Workflows BY DEF TypeOK
  <2>4. QED BY <1>3, <2>2, <2>3 DEF Begin, TypeOK, Typed
<1>4. ASSUME NEW r \in Runs, LiveStep(r) PROVE Typed'
  <2>1. Live(r) /\ Moves(r) /\ wf[r] \in DOMAIN Def BY <1>4, LiveMoves DEF TypeOK
  <2>2. CASE Passes(r)
    <3>1. PICK status \in StepStatuses : Records(r, status) BY <2>2 DEF Passes
    <3>2. /\ results' \in [Runs -> SUBSET (Nat \X Statuses)]
          /\ stepRows' \in [Runs -> SUBSET (Nat \X Statuses)]
      BY <3>1, RecordsTyped
    <3>3. UNCHANGED <<wf, others, reaped>> BY <3>1 DEF Records
    <3>4. QED BY <2>2, <3>2, <3>3 DEF Passes, TypeOK, Typed
  <2>3. ASSUME NEW status \in {"completed", "failed", "timeout"}, End(r, status, Freed(r)),
               UNCHANGED <<wf, others, reaped>>,
               results' \in [Runs -> SUBSET (Nat \X Statuses)],
               stepRows' \in [Runs -> SUBSET (Nat \X Statuses)]
        PROVE  Typed'
    <3>1. /\ locks' = locks \ ({wf[r]} \cup Freed(r)) /\ turn' = Nobody
          /\ pc' = [pc EXCEPT ![r] = "ended"] /\ idx' = [idx EXCEPT ![r] = 1]
          /\ deadline' = [deadline EXCEPT ![r] = "off"]
          /\ verdict' = [verdict EXCEPT ![r] = status]
          /\ row' = [row EXCEPT ![r] = row'[r]]
          /\ row'[r] \in {row[r], status}
          /\ unsaved' \in {unsaved, unsaved \cup {r}}
      BY <2>3, EndTyped
    <3>2. status \in Verdicts /\ row'[r] \in Verdicts \cup {"running"}
      BY <3>1 DEF Verdicts, TypeOK
    <3>3. QED BY <2>3, <3>1, <3>2 DEF TypeOK, Typed
  <2>4. CASE Aborting(r)
    <3>1. PICK status \in StepStatuses : Records(r, status) BY <2>4 DEF Aborting
    <3>2. /\ results' \in [Runs -> SUBSET (Nat \X Statuses)]
          /\ stepRows' \in [Runs -> SUBSET (Nat \X Statuses)]
      BY <3>1, RecordsTyped
    <3>3. UNCHANGED <<wf, others, reaped>> BY <3>1 DEF Records
    <3>4. QED BY <2>3, <2>4, <3>2, <3>3 DEF Aborting
  <2>5. CASE Ending(r)
    <3>1. PICK status \in {"completed", "failed", "timeout"} : End(r, status, Freed(r))
      BY <2>5 DEF Ending
    <3>2. /\ results' \in [Runs -> SUBSET (Nat \X Statuses)]
          /\ stepRows' \in [Runs -> SUBSET (Nat \X Statuses)]
      BY <2>5 DEF Ending, TypeOK
    <3>3. QED BY <2>3, <2>5, <3>1, <3>2 DEF Ending
  <2>6. CASE AgentStarts(r)
    <3>1. step(r).agent \in Agents
      BY <2>1, <2>6, StepTyped DEF AgentStarts, Before, step, steps
    <3>2. QED BY <2>6, <3>1 DEF AgentStarts, TypeOK, Typed
  <2>7. CASE ToolStarts(r) BY <2>7 DEF ToolStarts, TypeOK, Typed
  <2>8. CASE Swallowed(r) BY <2>8 DEF Swallowed, TypeOK, Typed
  <2>9. QED BY <2>1, <2>2, <2>4, <2>5, <2>6, <2>7, <2>8 DEF Moves
<1>5. ASSUME NEW a \in Agents, OtherLock(a) \/ OtherUnlock(a) \/ Reap(a) PROVE Typed'
  BY <1>5 DEF OtherLock, OtherUnlock, Reap, runVars, TypeOK, Typed
<1>6. CASE Crash BY <1>6 DEF Crash, TypeOK, Typed
<1>7. QED
  BY <1>1, <1>2, <1>3, <1>4, <1>5, <1>6 DEF Next, LiveStep

\* The workflow of a call is given once.
LEMMA SameWorkflow ==
  ASSUME TypeOK, [Next]_vars
  PROVE  wf' = wf
<1>1. ASSUME NEW r \in Runs, LiveStep(r) PROVE wf' = wf BY <1>1, LiveFrame
<1>2. ASSUME NEW r \in Runs, Unknown(r) \/ Refuse(r) \/ Begin(r) PROVE wf' = wf
  BY <1>2 DEF Unknown, Refuse, Begin
<1>3. ASSUME NEW a \in Agents, OtherLock(a) \/ OtherUnlock(a) \/ Reap(a) PROVE wf' = wf
  BY <1>3 DEF OtherLock, OtherUnlock, Reap, runVars
<1>4. CASE Crash BY <1>4 DEF Crash
<1>5. CASE UNCHANGED vars BY <1>5 DEF vars, runVars
<1>6. QED BY <1>1, <1>2, <1>3, <1>4, <1>5 DEF Next, LiveStep

-----------------------------------------------------------------------------
(* What is true of one run, whatever the others do. *)

Untouched(s) ==
  /\ pc'[s] = pc[s] /\ idx'[s] = idx[s] /\ results'[s] = results[s]
  /\ stepRows'[s] = stepRows[s] /\ verdict'[s] = verdict[s] /\ row'[s] = row[s]
  /\ s \in unsaved' <=> s \in unsaved

Own(s) == Unknown(s) \/ Refuse(s) \/ Begin(s) \/ LiveStep(s)

LEMMA OneRun ==
  ASSUME TypeOK, [Next]_vars, NEW s \in Runs
  PROVE  Untouched(s) \/ Own(s) \/ Crash
<1> USE DEF Untouched
<1>1. CASE UNCHANGED vars BY <1>1 DEF vars, runVars
<1>2. ASSUME NEW r \in Runs, r # s, Unknown(r) \/ Refuse(r) PROVE Untouched(s)
  BY <1>2 DEF Unknown, Refuse, TypeOK
<1>3. ASSUME NEW r \in Runs, r # s, Begin(r) PROVE Untouched(s)
  <2>1. PICK ok \in Saved : /\ row' = [row EXCEPT ![r] = IF ok THEN "running" ELSE @]
                            /\ unsaved' = IF ok THEN unsaved ELSE unsaved \cup {r}
    BY <1>3 DEF Begin
  <2>2. row'[s] = row[s] /\ (s \in unsaved' <=> s \in unsaved) BY <1>3, <2>1 DEF TypeOK
  <2>3. QED BY <1>3, <2>2 DEF Begin, TypeOK
<1>4. ASSUME NEW r \in Runs, r # s, LiveStep(r) PROVE Untouched(s) BY <1>4, LiveFrame
<1>5. ASSUME NEW a \in Agents, OtherLock(a) \/ OtherUnlock(a) \/ Reap(a) PROVE Untouched(s)
  BY <1>5 DEF OtherLock, OtherUnlock, Reap, runVars
<1>6. QED BY <1>1, <1>2, <1>3, <1>4, <1>5 DEF Next, LiveStep, Own

\* The end of a run.
LEMMA Ended ==
  ASSUME TypeOK, NEW r \in Runs, Aborting(r) \/ Ending(r)
  PROVE  /\ pc'[r] = "ended" /\ verdict'[r] \in {"completed", "failed", "timeout"}
         /\ row'[r] \in {row[r], verdict'[r]}
         /\ row[r] \in {"none", "running"} =>
              row'[r] \in {"none", verdict'[r]} \/ r \in unsaved'
         /\ locks' = locks \ ({wf[r]} \cup Freed(r)) /\ turn' = Nobody
         /\ UNCHANGED <<wf, others, reaped>>
<1>1. PICK status \in {"completed", "failed", "timeout"} : End(r, status, Freed(r))
  BY DEF Aborting, Ending
<1>2. /\ locks' = locks \ ({wf[r]} \cup Freed(r)) /\ turn' = Nobody
      /\ pc' = [pc EXCEPT ![r] = "ended"]
      /\ verdict' = [verdict EXCEPT ![r] = status]
      /\ \/ row'[r] = row[r] /\ r \in unsaved'
         \/ row[r] = "running" /\ row'[r] = status
         \/ row[r] # "running" /\ row'[r] = row[r]
  BY <1>1, EndTyped
<1>3. UNCHANGED <<wf, others, reaped>> BY DEF Aborting, Ending, Records
<1>4. pc'[r] = "ended" /\ verdict'[r] = status BY <1>2 DEF TypeOK
<1>5. QED BY <1>2, <1>3, <1>4

LEMMA PlacedStep ==
  ASSUME TypeOK, [Next]_vars
  PROVE  Placed'
<1> SUFFICES ASSUME NEW s \in Runs
             PROVE  /\ Live(s)' => wf'[s] \in DOMAIN Def
                    /\ pc'[s] \in {"agent", "tool"} =>
                         idx'[s] \in DOMAIN steps(s)' /\ (step(s).type)' = pc'[s]
  BY DEF Placed
<1>0. wf' = wf BY SameWorkflow
<1>1. CASE Untouched(s)
  <2>1. steps(s)' = steps(s) /\ step(s)' = step(s) BY <1>0, <1>1 DEF Untouched, steps, step
  <2>2. QED BY <1>0, <1>1, <2>1 DEF Untouched, TypeOK, Live
<1>2. CASE Unknown(s) \/ Refuse(s) BY <1>2 DEF Unknown, Refuse, TypeOK, Live
<1>3. CASE Begin(s) BY <1>0, <1>3 DEF Begin, TypeOK, Live
<1>4. CASE LiveStep(s)
  <2>1. Live(s) /\ Moves(s) /\ wf[s] \in DOMAIN Def BY <1>4, LiveMoves DEF TypeOK
  <2>2. pc'[s] \in {"agent", "tool"} => AgentStarts(s) \/ ToolStarts(s) \/ Swallowed(s)
    <3>1. CASE Aborting(s) \/ Ending(s) BY <3>1, Ended
    <3>2. CASE Passes(s) BY <3>2 DEF Passes, TypeOK
    <3>3. QED BY <2>1, <3>1, <3>2 DEF Moves
  <2>3. CASE AgentStarts(s)
    <3>1. idx' = idx /\ pc'[s] = "agent" /\ idx[s] \in DOMAIN steps(s) /\ step(s).type = "agent"
      BY <2>3 DEF AgentStarts, Before, TypeOK
    <3>2. QED BY <1>0, <2>1, <3>1 DEF steps, step
  <2>4. CASE ToolStarts(s)
    <3>1. idx' = idx /\ pc'[s] = "tool" /\ idx[s] \in DOMAIN steps(s) /\ step(s).type = "tool"
      BY <2>4 DEF ToolStarts, Before, TypeOK
    <3>2. QED BY <1>0, <2>1, <3>1 DEF steps, step
  <2>5. CASE Swallowed(s)
    <3>1. idx' = idx /\ pc' = pc BY <2>5 DEF Swallowed
    <3>2. QED BY <1>0, <2>1, <3>1 DEF steps, step, TypeOK
  <2>6. QED BY <1>0, <2>1, <2>2, <2>3, <2>4, <2>5
<1>5. CASE Crash BY <1>5 DEF Crash, TypeOK, Live
<1>6. QED BY <1>1, <1>2, <1>3, <1>4, <1>5, OneRun DEF Own

LEMMA TypeStep ==
  ASSUME TypeOK, [Next]_vars
  PROVE  TypeOK'
<1>1. Typed' /\ Placed' BY TypedStep, PlacedStep
<1>2. QED BY <1>1 DEF TypeOK, Typed, Placed

LEMMA RecordedStep ==
  ASSUME TypeOK, Recorded, [Next]_vars
  PROVE  Recorded'
<1> SUFFICES ASSUME NEW s \in Runs
             PROVE  /\ pc'[s] # "ended" => verdict'[s] = "none" /\ row'[s] \in {"none", "running"}
                    /\ pc'[s] = "new" => results'[s] = {} /\ row'[s] = "none"
                    /\ pc'[s] = "ended" => verdict'[s] # "none"
  BY DEF Recorded
<1>1. CASE Untouched(s) BY <1>1 DEF Untouched, Recorded
<1>2. CASE Unknown(s) \/ Refuse(s) BY <1>2 DEF Unknown, Refuse, TypeOK
<1>3. CASE Begin(s)
  <2>1. pc[s] = "new" /\ pc'[s] = "next" /\ verdict' = verdict BY <1>3 DEF Begin, TypeOK
  <2>2. row'[s] \in {"running", row[s]} BY <1>3 DEF Begin, TypeOK
  <2>3. QED BY <2>1, <2>2 DEF Recorded
<1>4. CASE LiveStep(s)
  <2>1. Live(s) /\ Moves(s) BY <1>4, LiveMoves
  <2>2. CASE Aborting(s) \/ Ending(s) BY <2>2, Ended
  <2>3. CASE Passes(s)
    <3>1. pc'[s] = "next" /\ UNCHANGED <<verdict, row>> BY <2>3 DEF Passes, TypeOK
    <3>2. QED BY <2>1, <3>1 DEF Recorded, Live
  <2>4. CASE AgentStarts(s) \/ ToolStarts(s) \/ Swallowed(s)
    <3>1. pc'[s] \in {"agent", "tool"} /\ UNCHANGED <<verdict, row>>
      BY <2>4 DEF AgentStarts, ToolStarts, Swallowed, Waits, TypeOK
    <3>2. QED BY <2>1, <3>1 DEF Recorded, Live
  <2>5. QED BY <2>1, <2>2, <2>3, <2>4 DEF Moves
<1>5. CASE Crash
  <2>1. /\ pc'[s] = IF Live(s) THEN "dead" ELSE pc[s]
        /\ results'[s] = IF Live(s) THEN {} ELSE results[s]
        /\ UNCHANGED <<verdict, row>>
    BY <1>5 DEF Crash
  <2>2. QED BY <2>1 DEF Recorded, Live
<1>6. QED BY <1>1, <1>2, <1>3, <1>4, <1>5, OneRun DEF Own

\* What a run under way does to its results.
LEMMA ResultsMove ==
  ASSUME TypeOK, NEW s \in Runs, LiveStep(s)
  PROVE  \/ results'[s] = results[s] /\ stepRows'[s] = stepRows[s]
         \/ \E status \in StepStatuses :
              /\ idx[s] \in DOMAIN steps(s)
              /\ results'[s] = results[s] \cup {<<idx[s], Relabelled(s, status)>>}
              /\ stepRows'[s] = stepRows[s] \cup {<<idx[s], status>>}
              /\ \/ Aborts(s, status) /\ pc'[s] = "ended"
                 \/ ~Aborts(s, status) /\ pc'[s] = "next"
<1>1. Moves(s) BY LiveMoves
<1>2. CASE Passes(s)
  <2>1. PICK status \in StepStatuses : Records(s, status) /\ ~Aborts(s, status)
    BY <1>2 DEF Passes
  <2>2. pc'[s] = "next" BY <1>2 DEF Passes, TypeOK
  <2>3. QED BY <2>1, <2>2 DEF Records, TypeOK
<1>3. CASE Aborting(s)
  <2>1. PICK status \in StepStatuses : Records(s, status) /\ Aborts(s, status)
    BY <1>3 DEF Aborting
  <2>2. pc'[s] = "ended" BY <1>3, Ended
  <2>3. QED BY <2>1, <2>2 DEF Records, TypeOK
<1>4. CASE Ending(s) BY <1>4 DEF Ending
<1>5. CASE AgentStarts(s) \/ ToolStarts(s) \/ Swallowed(s)
  BY <1>5 DEF AgentStarts, ToolStarts, Swallowed
<1>6. QED BY <1>1, <1>2, <1>3, <1>4, <1>5 DEF Moves

LEMMA RowsStep ==
  ASSUME TypeOK, RowsTold, [Next]_vars
  PROVE  RowsTold'
<1> SUFFICES ASSUME NEW s \in Runs, pc'[s] # "dead", NEW i \in DOMAIN steps(s)',
                    <<i, "failed">> \in stepRows'[s]
             PROVE  <<i, "failed">> \in results'[s] \/ (steps(s)[i].onFailure)' = "skip"
  BY DEF RowsTold
<1>0. steps(s)' = steps(s) BY SameWorkflow DEF steps
<1>1. ASSUME pc[s] # "dead", results'[s] = results[s], stepRows'[s] = stepRows[s]
      PROVE  <<i, "failed">> \in results'[s] \/ (steps(s)[i].onFailure)' = "skip"
  BY <1>0, <1>1 DEF RowsTold
<1>2. CASE Untouched(s) BY <1>1, <1>2 DEF Untouched
<1>3. CASE Unknown(s) \/ Refuse(s) \/ Begin(s) BY <1>1, <1>3 DEF Unknown, Refuse, Begin
<1>4. CASE LiveStep(s)
  <2>1. pc[s] # "dead" BY <1>4, LiveMoves DEF Live
  <2>2. ASSUME NEW status \in StepStatuses,
               idx[s] \in DOMAIN steps(s),
               results'[s] = results[s] \cup {<<idx[s], Relabelled(s, status)>>},
               stepRows'[s] = stepRows[s] \cup {<<idx[s], status>>}
        PROVE  <<i, "failed">> \in results'[s] \/ (steps(s)[i].onFailure)' = "skip"
    <3>1. CASE <<i, "failed">> \in stepRows[s]
      <4>1. <<i, "failed">> \in results[s] \/ steps(s)[i].onFailure = "skip"
        BY <1>0, <2>1, <3>1 DEF RowsTold
      <4>2. QED BY <1>0, <2>2, <4>1
    <3>2. CASE <<i, "failed">> \notin stepRows[s]
      <4>1. i = idx[s] /\ status = "failed" BY <2>2, <3>2
      <4>2. steps(s)[i].onFailure # "skip" => Relabelled(s, status) = "failed"
        BY <4>1 DEF Relabelled, step
      <4>3. QED BY <1>0, <2>2, <4>1, <4>2
    <3>3. QED BY <3>1, <3>2
  <2>3. QED BY <1>1, <1>4, <2>1, <2>2, ResultsMove
<1>5. CASE Crash
  <2>1. /\ pc'[s] = IF Live(s) THEN "dead" ELSE pc[s]
        /\ results'[s] = IF Live(s) THEN {} ELSE results[s]
        /\ stepRows' = stepRows
    BY <1>5 DEF Crash
  <2>2. QED BY <1>1, <2>1
<1>6. QED BY <1>2, <1>3, <1>4, <1>5, OneRun DEF Own

LEMMA VerdictStep ==
  ASSUME TypeOK, Recorded, VerdictTrue, [Next]_vars
  PROVE  VerdictTrue'
<1> SUFFICES ASSUME NEW s \in Runs, verdict'[s] = "completed"
             PROVE  pc'[s] = "ended" /\ ~Flawed(s)'
  BY DEF VerdictTrue
<1>1. CASE Untouched(s) BY <1>1 DEF Untouched, VerdictTrue, Flawed
<1>2. CASE Unknown(s) \/ Refuse(s) \/ Begin(s)
  <2>1. verdict'[s] \in {"failed", "skipped", verdict[s]} /\ pc[s] = "new"
    BY <1>2 DEF Unknown, Refuse, Begin, TypeOK
  <2>2. QED BY <2>1 DEF Recorded
<1>3. CASE LiveStep(s)
  <2>1. Live(s) /\ Moves(s) BY <1>3, LiveMoves
  <2>2. verdict[s] = "none" BY <2>1 DEF Recorded, Live
  <2>3. Ending(s)
    <3>1. CASE Aborting(s)
      <4>1. verdict' = [verdict EXCEPT ![s] = "failed"] BY <3>1 DEF Aborting, End
      <4>2. QED BY <4>1 DEF TypeOK
    <3>2. CASE Passes(s) BY <2>2, <3>2 DEF Passes
    <3>3. CASE AgentStarts(s) \/ ToolStarts(s) \/ Swallowed(s)
      BY <2>2, <3>3 DEF AgentStarts, ToolStarts, Swallowed
    <3>4. QED BY <2>1, <3>1, <3>2, <3>3 DEF Moves
  <2>4. PICK status \in {"completed", "failed", "timeout"} :
          /\ status = "completed" => ~Flawed(s)
          /\ End(s, status, Freed(s))
    BY <2>3 DEF Ending
  <2>5. status = "completed" BY <2>4 DEF End, TypeOK
  <2>6. QED BY <2>3, <2>4, <2>5, Ended DEF Ending, Flawed
<1>4. CASE Crash
  <2>1. pc[s] = "ended" /\ ~Flawed(s) BY <1>4 DEF Crash, VerdictTrue
  <2>2. QED BY <1>4, <2>1 DEF Crash, Live, Flawed
<1>5. QED BY <1>1, <1>2, <1>3, <1>4, OneRun DEF Own

LEMMA RowStep ==
  ASSUME TypeOK, Recorded, RowTrue, RowComplete, [Next]_vars
  PROVE  RowTrue' /\ RowComplete'
<1> SUFFICES ASSUME NEW s \in Runs
             PROVE  /\ pc'[s] = "ended" => row'[s] \in {"none", verdict'[s]} \/ s \in unsaved'
                    /\ row'[s] = "completed" => verdict'[s] = "completed"
  BY DEF RowTrue, RowComplete
<1>1. CASE Untouched(s) BY <1>1 DEF Untouched, RowTrue, RowComplete
<1>2. CASE Unknown(s) \/ Refuse(s)
  <2>1. pc[s] = "new" /\ row' = row BY <1>2 DEF Unknown, Refuse
  <2>2. QED BY <2>1 DEF Recorded
<1>3. CASE Begin(s)
  <2>1. pc[s] = "new" /\ pc'[s] = "next" /\ row'[s] \in {"running", row[s]}
    BY <1>3 DEF Begin, TypeOK
  <2>2. QED BY <2>1 DEF Recorded
<1>4. CASE LiveStep(s)
  <2>1. Live(s) /\ Moves(s) BY <1>4, LiveMoves
  <2>2. row[s] \in {"none", "running"} BY <2>1 DEF Recorded, Live
  <2>3. CASE Aborting(s) \/ Ending(s) BY <2>2, <2>3, Ended
  <2>4. CASE Passes(s)
    <3>1. pc'[s] = "next" /\ row' = row BY <2>4 DEF Passes, TypeOK
    <3>2. QED BY <2>2, <3>1
  <2>5. CASE AgentStarts(s) \/ ToolStarts(s) \/ Swallowed(s)
    <3>1. pc'[s] \in {"agent", "tool"} /\ row' = row
      BY <2>5 DEF AgentStarts, ToolStarts, Swallowed, Waits, TypeOK
    <3>2. QED BY <2>2, <3>1
  <2>6. QED BY <2>1, <2>3, <2>4, <2>5 DEF Moves
<1>5. CASE Crash
  <2>1. UNCHANGED <<verdict, row, unsaved>> /\ (pc'[s] = "ended" => pc[s] = "ended")
    BY <1>5 DEF Crash
  <2>2. QED BY <2>1 DEF RowTrue, RowComplete
<1>6. QED BY <1>1, <1>2, <1>3, <1>4, <1>5, OneRun DEF Own

LEMMA AbortedStep ==
  ASSUME TypeOK, Recorded, AbortedOver, [Next]_vars
  PROVE  AbortedOver'
<1> SUFFICES ASSUME NEW s \in Runs, Live(s)', Aborted(s)'
             PROVE  FALSE
  BY DEF AbortedOver
<1>0. steps(s)' = steps(s) BY SameWorkflow DEF steps
<1>1. PICK result \in results'[s] :
        result[2] = "failed" /\ steps(s)[result[1]].onFailure = "abort"
  BY <1>0 DEF Aborted
<1>2. ASSUME Live(s), result \in results[s] PROVE FALSE
  BY <1>1, <1>2 DEF AbortedOver, Aborted
<1>3. CASE Untouched(s) BY <1>1, <1>2, <1>3 DEF Untouched, Live
<1>4. CASE Unknown(s) \/ Refuse(s) BY <1>4 DEF Unknown, Refuse, TypeOK, Live
<1>5. CASE Begin(s) BY <1>1, <1>5 DEF Begin, Recorded
<1>6. CASE LiveStep(s)
  <2>1. Live(s) BY <1>6, LiveMoves
  <2>2. result \notin results[s] BY <1>2, <2>1
  <2>3. PICK status \in StepStatuses :
          /\ result = <<idx[s], Relabelled(s, status)>>
          /\ \/ Aborts(s, status) /\ pc'[s] = "ended"
             \/ ~Aborts(s, status)
    BY <1>1, <1>6, <2>2, ResultsMove
  <2>4. ~Aborts(s, status) BY <2>3 DEF Live
  <2>5. Relabelled(s, status) = "failed" /\ step(s).onFailure = "abort"
    BY <1>1, <2>3 DEF step
  <2>6. status = "failed" BY <2>5 DEF Relabelled
  <2>7. QED BY <2>4, <2>5, <2>6 DEF Aborts
<1>7. CASE Crash BY <1>7 DEF Crash, Live
<1>8. QED BY <1>3, <1>4, <1>5, <1>6, <1>7, OneRun DEF Own

-----------------------------------------------------------------------------
(* Locks. *)

LEMMA ExecutingTyped ==
  ASSUME TypeOK, NEW r \in Runs, pc[r] = "agent"
  PROVE  step(r).agent \in Agents
<1>1. wf[r] \in DOMAIN Def /\ idx[r] \in DOMAIN steps(r) BY DEF TypeOK, Live
<1>2. QED BY <1>1, StepTyped DEF step, steps

\* The set of locks after a step of a run under way.
LEMMA LocksMove ==
  ASSUME TypeOK, NEW s \in Runs, LiveStep(s)
  PROVE  \/ ~Live(s)' /\ pc'[s] # "agent" /\ locks' = locks \ ({wf[s]} \cup Freed(s))
         \/ Live(s)' /\ pc'[s] # "agent" /\ locks' = locks \ Freed(s)
         \/ /\ pc[s] # "agent" /\ pc'[s] = "agent" /\ idx'[s] = idx[s]
            /\ TryAcquire(step(s).agent) /\ step(s).agent \in Agents
            /\ locks' = locks \cup {step(s).agent}
         \/ pc' = pc /\ idx' = idx /\ locks' = locks
<1>1. Live(s) /\ Moves(s) BY LiveMoves
<1>2. CASE Aborting(s) \/ Ending(s) BY <1>2, Ended DEF Live
<1>3. CASE Passes(s) BY <1>3 DEF Passes, Live, TypeOK
<1>4. CASE AgentStarts(s)
  <2>1. wf[s] \in DOMAIN Def /\ idx[s] \in DOMAIN steps(s)
    BY <1>1, <1>4 DEF TypeOK, AgentStarts, Before
  <2>2. step(s).agent \in Agents BY <2>1, StepTyped DEF step, steps
  <2>3. QED BY <1>4, <2>2 DEF AgentStarts, Before, TypeOK
<1>5. CASE ToolStarts(s)
  <2>1. pc[s] = "next" /\ pc'[s] = "tool" /\ locks' = locks
    BY <1>5 DEF ToolStarts, Before, TypeOK
  <2>2. Freed(s) = {} BY <2>1 DEF Freed
  <2>3. QED BY <2>1, <2>2 DEF Live
<1>6. CASE Swallowed(s) BY <1>6 DEF Swallowed
<1>7. QED BY <1>1, <1>2, <1>3, <1>4, <1>5, <1>6 DEF Moves

\* Steps that are not of a run under way leave it where it is.
LEMMA OthersStay ==
  ASSUME TypeOK, [Next]_vars, NEW s \in Runs, ~LiveStep(s), ~Crash, Live(s)
  PROVE  pc'[s] = pc[s] /\ idx'[s] = idx[s]
<1>1. CASE Untouched(s) BY <1>1 DEF Untouched
<1>2. ~Unknown(s) /\ ~Refuse(s) /\ ~Begin(s) BY DEF Unknown, Refuse, Begin, Live
<1>3. QED BY <1>1, <1>2, OneRun DEF Own

LEMMA OthersAbsent ==
  ASSUME TypeOK, [Next]_vars, NEW s \in Runs, ~LiveStep(s), ~Begin(s), Live(s)'
  PROVE  Live(s) /\ pc'[s] = pc[s] /\ idx'[s] = idx[s] /\ ~Crash
<1>0. ~Crash BY DEF Crash, Live
<1>1. CASE Untouched(s) BY <1>0, <1>1 DEF Untouched, Live
<1>2. ~Unknown(s) /\ ~Refuse(s) BY DEF Unknown, Refuse, Live, TypeOK
<1>3. QED BY <1>0, <1>1, <1>2, OneRun DEF Own

\* Whoever executes an agent did so before, or has just taken its lock.
LEMMA ExecutingFrom ==
  ASSUME TypeOK, [Next]_vars, NEW r \in Runs, NEW a \in Agents, Executing(r, a)'
  PROVE  Executing(r, a) \/ (LiveStep(r) /\ a \notin locks /\ locks' = locks \cup {a})
<1>0. steps(r)' = steps(r) BY SameWorkflow DEF steps
<1>1. CASE LiveStep(r)
  <2>1. pc'[r] = "agent" BY DEF Executing
  <2>2. CASE pc[r] # "agent" /\ idx'[r] = idx[r] /\ TryAcquire(step(r).agent)
             /\ locks' = locks \cup {step(r).agent}
    <3>1. step(r).agent = a BY <1>0, <2>2 DEF Executing, step
    <3>2. QED BY <1>1, <2>2, <3>1 DEF TryAcquire
  <2>3. CASE pc' = pc /\ idx' = idx
    BY <1>0, <2>3 DEF Executing, step
  <2>4. QED BY <1>1, <2>1, <2>2, <2>3, LocksMove DEF Live
<1>2. CASE ~LiveStep(r)
  <2>1. Live(r)' /\ ~Begin(r) BY DEF Executing, Live, Begin, TypeOK
  <2>2. pc'[r] = pc[r] /\ idx'[r] = idx[r] BY <1>2, <2>1, OthersAbsent
  <2>3. QED BY <1>0, <2>2 DEF Executing, step
<1>3. QED BY <1>1, <1>2

\* Which keys a step takes out of the set, and what that says.
LEMMA Released ==
  ASSUME TypeOK, [Next]_vars, ~Crash, NEW k \in locks, k \notin locks'
  PROVE  \/ \E s \in Runs : LiveStep(s) /\ Live(s) /\ ~Live(s)' /\ wf[s] = k
         \/ k \in Agents /\ \E s \in Runs : LiveStep(s) /\ k \in Freed(s)
         \/ k \in Agents /\ (k \in others \/ k \in reaped')
<1>1. ASSUME NEW s \in Runs, LiveStep(s)
      PROVE  \/ Live(s) /\ ~Live(s)' /\ wf[s] = k
             \/ k \in Agents /\ k \in Freed(s)
  <2>1. Live(s) BY <1>1, LiveMoves
  <2>2. (~Live(s)' /\ k = wf[s]) \/ k \in Freed(s) BY <1>1, LocksMove
  <2>3. k \in Freed(s) => k \in Agents BY ExecutingTyped DEF Freed
  <2>4. QED BY <1>1, <2>1, <2>2, <2>3
<1>2. ASSUME NEW r \in Runs, Unknown(r) \/ Refuse(r) \/ Begin(r) PROVE FALSE
  BY <1>2 DEF Unknown, Refuse, Begin
<1>3. ASSUME NEW a \in Agents, OtherLock(a) \/ OtherUnlock(a) \/ Reap(a)
      PROVE  k \in Agents /\ (k \in others \/ k \in reaped')
  BY <1>3 DEF OtherLock, OtherUnlock, Reap
<1>4. CASE UNCHANGED vars BY <1>4 DEF vars
<1>5. QED BY <1>1, <1>2, <1>3, <1>4 DEF Next, LiveStep

LEMMA TurnStep ==
  ASSUME TypeOK, TurnSound, [Next]_vars
  PROVE  TurnSound'
<1> SUFFICES ASSUME NEW s \in Runs PROVE pc'[s] = "next" <=> turn' = s BY DEF TurnSound
<1>0. Nobody \notin Runs BY WorkflowAssumption
<1>1. CASE UNCHANGED vars BY <1>1 DEF vars, runVars, TurnSound
<1>2. ASSUME NEW r \in Runs, Unknown(r) \/ Refuse(r) PROVE pc'[s] = "next" <=> turn' = s
  BY <1>0, <1>2 DEF Unknown, Refuse, TurnSound, TypeOK
<1>3. ASSUME NEW r \in Runs, Begin(r) PROVE pc'[s] = "next" <=> turn' = s
  BY <1>0, <1>3 DEF Begin, TurnSound, TypeOK
<1>4. ASSUME NEW r \in Runs, LiveStep(r) PROVE pc'[s] = "next" <=> turn' = s
  <2>1. turn \in {r, Nobody} /\ Moves(r) BY <1>4, LiveMoves
  <2>2. s # r => pc[s] # "next" /\ pc'[s] = pc[s]
    BY <1>0, <1>4, <2>1, LiveFrame DEF TurnSound
  <2>3. CASE Aborting(r) \/ Ending(r)
    <3>1. pc'[r] = "ended" /\ turn' = Nobody BY <2>3, Ended
    <3>2. QED BY <1>0, <2>2, <3>1
  <2>4. CASE Passes(r)
    <3>1. pc'[r] = "next" /\ turn' = r BY <2>4 DEF Passes, TypeOK
    <3>2. QED BY <2>2, <3>1
  <2>5. CASE AgentStarts(r) \/ ToolStarts(r)
    <3>1. pc'[r] # "next" /\ turn' = Nobody BY <2>5 DEF AgentStarts, ToolStarts, TypeOK
    <3>2. QED BY <1>0, <2>2, <3>1
  <2>6. CASE Swallowed(r) BY <2>6 DEF Swallowed, TurnSound
  <2>7. QED BY <2>1, <2>3, <2>4, <2>5, <2>6 DEF Moves
<1>5. ASSUME NEW a \in Agents, OtherLock(a) \/ OtherUnlock(a) \/ Reap(a)
      PROVE  pc'[s] = "next" <=> turn' = s
  BY <1>5 DEF OtherLock, OtherUnlock, Reap, runVars, TurnSound
<1>6. CASE Crash BY <1>0, <1>6 DEF Crash, Live
<1>7. QED BY <1>1, <1>2, <1>3, <1>4, <1>5, <1>6 DEF Next, LiveStep

\* What the reaper did is not forgotten.
LEMMA ReapedStays ==
  ASSUME TypeOK, [Next]_vars
  PROVE  reaped \subseteq reaped'
<1>1. ASSUME NEW s \in Runs, LiveStep(s) PROVE reaped' = reaped BY <1>1, LiveFrame
<1>2. ASSUME NEW s \in Runs, Unknown(s) \/ Refuse(s) \/ Begin(s) PROVE reaped' = reaped
  BY <1>2 DEF Unknown, Refuse, Begin
<1>3. ASSUME NEW b \in Agents, OtherLock(b) \/ OtherUnlock(b) \/ Reap(b)
      PROVE  reaped \subseteq reaped'
  BY <1>3 DEF OtherLock, OtherUnlock, Reap
<1>4. CASE Crash \/ UNCHANGED vars BY <1>4 DEF Crash, vars
<1>5. QED BY <1>1, <1>2, <1>3, <1>4 DEF Next, LiveStep

LEMMA ExclusiveStep ==
  ASSUME TypeOK, Held, AgentExclusive, [Next]_vars
  PROVE  AgentExclusive'
<1> SUFFICES ASSUME NEW a \in Agents, a \notin reaped', NEW r \in Runs, Executing(r, a)'
             PROVE  a \notin others' /\ \A s \in Runs \ {r} : ~Executing(s, a)'
  BY DEF AgentExclusive
<1>1. a \notin reaped BY ReapedStays
<1>2. CASE Executing(r, a)
  <2>1. a \in locks /\ a \notin others /\ \A s \in Runs \ {r} : ~Executing(s, a)
    BY <1>1, <1>2 DEF Held, AgentExclusive
  <2>2. \A s \in Runs \ {r} : ~Executing(s, a)' BY <2>1, ExecutingFrom
  <2>3. a \notin others'
    <3>1. ASSUME NEW s \in Runs, LiveStep(s) PROVE others' = others BY <3>1, LiveFrame
    <3>2. ASSUME NEW s \in Runs, Unknown(s) \/ Refuse(s) \/ Begin(s) PROVE others' = others
      BY <3>2 DEF Unknown, Refuse, Begin
    <3>3. ASSUME NEW b \in Agents, OtherLock(b) \/ OtherUnlock(b) \/ Reap(b)
          PROVE  a \notin others'
      BY <2>1, <3>3 DEF OtherLock, OtherUnlock, Reap
    <3>4. CASE Crash \/ UNCHANGED vars BY <2>1, <3>4 DEF Crash, vars
    <3>5. QED BY <2>1, <3>1, <3>2, <3>3, <3>4 DEF Next, LiveStep
  <2>4. QED BY <2>2, <2>3
<1>3. CASE ~Executing(r, a)
  <2>1. LiveStep(r) /\ a \notin locks BY <1>3, ExecutingFrom
  <2>2. a \notin others /\ \A s \in Runs : ~Executing(s, a) BY <1>1, <2>1 DEF Held
  <2>3. others' = others /\ \A s \in Runs \ {r} : pc'[s] = pc[s] /\ idx'[s] = idx[s]
    BY <2>1, LiveFrame
  <2>4. \A s \in Runs : steps(s)' = steps(s) BY SameWorkflow DEF steps
  <2>5. QED BY <2>2, <2>3, <2>4 DEF Executing, step
<1>4. QED BY <1>2, <1>3

\* A run that is under way after a step was so before, or has just begun.
LEMMA LiveFrom ==
  ASSUME TypeOK, [Next]_vars, NEW r \in Runs, Live(r)'
  PROVE  \/ Live(r)
         \/ Begin(r) /\ wf[r] \notin locks /\ locks' = locks \cup {wf[r]}
<1>1. CASE LiveStep(r) BY <1>1, LiveMoves
<1>2. CASE Begin(r) BY <1>2 DEF Begin, TryAcquire
<1>3. CASE ~LiveStep(r) /\ ~Begin(r) BY <1>3, OthersAbsent
<1>4. QED BY <1>1, <1>2, <1>3

LEMMA HeldStep ==
  ASSUME TypeOK, Held, AgentExclusive, [Next]_vars
  PROVE  Held'
<1>0. wf' = wf /\ Workflows \cap Agents = {} BY SameWorkflow, WorkflowAssumption
<1>1. ASSUME NEW r \in Runs, Live(r)' PROVE wf[r] \in locks'
  <2>1. CASE Live(r)
    <3>1. wf[r] \in locks /\ wf[r] \notin Agents BY <1>0, <2>1 DEF Held, TypeOK
    <3>2. ASSUME NEW s \in Runs, Live(s), ~Live(s)', wf[s] = wf[r] PROVE FALSE
      BY <1>1, <2>1, <3>2 DEF Held
    <3>3. ~Crash BY <1>1 DEF Crash, Live
    <3>4. QED BY <3>1, <3>2, <3>3, Released
  <2>2. CASE ~Live(r) BY <1>1, <2>2, LiveFrom
  <2>3. QED BY <2>1, <2>2
<1>2. ASSUME NEW r \in Runs, NEW s \in Runs, Live(r)', Live(s)', wf[r] = wf[s] PROVE r = s
  <2>1. CASE Live(r) /\ Live(s) BY <1>2, <2>1 DEF Held
  <2>2. CASE Live(r) /\ ~Live(s) BY <1>2, <2>2, LiveFrom DEF Held
  <2>3. CASE ~Live(r) /\ Live(s) BY <1>2, <2>3, LiveFrom DEF Held
  <2>4. CASE ~Live(r) /\ ~Live(s)
    <3>1. Begin(r) /\ Begin(s) BY <1>2, <2>4, LiveFrom
    <3>2. turn' = r /\ turn' = s BY <3>1 DEF Begin
    <3>3. QED BY <3>2
  <2>5. QED BY <2>1, <2>2, <2>3, <2>4
<1>3. ASSUME NEW r \in Runs, NEW a \in Agents, a \notin reaped', Executing(r, a)'
      PROVE  a \in locks'
  <2>1. CASE Executing(r, a)
    <3>0. ~Crash BY <1>3 DEF Crash, Executing, Live, TypeOK
    <3>1. a \notin reaped BY <3>0, <1>3, ReapedStays
    <3>2. a \in locks /\ a \notin others /\ \A s \in Runs \ {r} : ~Executing(s, a)
      BY <2>1, <3>1 DEF Held, AgentExclusive
    <3>3. a \notin Workflows BY <1>0
    <3>4. ASSUME a \notin locks' PROVE FALSE
      <4>1. LiveStep(r)
        <5>1. \/ \E s \in Runs : LiveStep(s) /\ a \in Freed(s)
              \/ a \in others \/ a \in reaped'
          BY <3>0, <3>2, <3>3, <3>4, Released DEF TypeOK
        <5>2. PICK s \in Runs : LiveStep(s) /\ a \in Freed(s) BY <1>3, <3>2, <5>1
        <5>3. Executing(s, a) BY <5>2 DEF Freed, Executing
        <5>4. QED BY <3>2, <5>2, <5>3
      <4>2. locks' # locks /\ pc[r] = "agent" /\ pc'[r] = "agent"
        BY <1>3, <2>1, <3>2, <3>4 DEF Executing
      <4>3. QED BY <4>1, <4>2, LocksMove
    <3>5. QED BY <3>4
  <2>2. CASE ~Executing(r, a) BY <1>3, <2>2, ExecutingFrom
  <2>3. QED BY <2>1, <2>2
<1>4. ASSUME NEW a \in others', a \notin reaped' PROVE a \in locks'
  <2>1. a \in Agents /\ a \notin Workflows BY <1>0, TypeStep DEF TypeOK
  <2>2. ~Crash BY <1>4 DEF Crash
  <2>3. a \notin reaped BY <1>4, <2>2, ReapedStays
  <2>4. ASSUME NEW s \in Runs, LiveStep(s) PROVE a \in locks'
    <3>1. a \in others BY <1>4, <2>4, LiveFrame
    <3>2. a \in locks /\ ~Executing(s, a) BY <2>1, <2>3, <3>1 DEF Held, AgentExclusive
    <3>3. a \notin Freed(s) BY <3>2 DEF Freed, Executing
    <3>4. wf[s] # a BY <2>1 DEF TypeOK
    <3>5. QED BY <2>4, <3>2, <3>3, <3>4, LocksMove
  <2>5. ASSUME NEW s \in Runs, Unknown(s) \/ Refuse(s) \/ Begin(s) PROVE a \in locks'
    BY <1>4, <2>3, <2>5 DEF Unknown, Refuse, Begin, Held
  <2>6. ASSUME NEW b \in Agents, OtherLock(b) \/ OtherUnlock(b) \/ Reap(b) PROVE a \in locks'
    BY <1>4, <2>3, <2>6 DEF OtherLock, OtherUnlock, Reap, Held
  <2>7. CASE UNCHANGED vars BY <1>4, <2>3, <2>7 DEF vars, Held
  <2>8. QED BY <2>2, <2>4, <2>5, <2>6, <2>7 DEF Next, LiveStep
<1>5. QED BY <1>0, <1>1, <1>2, <1>3, <1>4 DEF Held

LEMMA NoLeakStep ==
  ASSUME TypeOK, NoLeakedLock, [Next]_vars
  PROVE  NoLeakedLock'
<1> DEFINE Owned(k) == \/ \E r \in Runs : Live(r) /\ wf[r] = k
                       \/ \E r \in Runs : pc[r] = "agent" /\ step(r).agent = k
                       \/ k \in others
<1> SUFFICES ASSUME NEW k \in locks' PROVE Owned(k)' BY DEF NoLeakedLock
<1>0. wf' = wf /\ \A r \in Runs : steps(r)' = steps(r) BY SameWorkflow DEF steps
<1>c. ~Crash BY DEF Crash
<1>1. ASSUME NEW s \in Runs, LiveStep(s) PROVE Owned(k)'
  <2>1. /\ Live(s) /\ others' = others
        /\ \A r \in Runs \ {s} : pc'[r] = pc[r] /\ idx'[r] = idx[r]
    BY <1>1, LiveMoves, LiveFrame
  <2>2. CASE k \notin locks
    <3>1. /\ pc'[s] = "agent" /\ idx'[s] = idx[s] /\ step(s).agent = k
      BY <1>1, <2>2, LocksMove
    <3>2. (step(s).agent)' = k BY <1>0, <3>1 DEF step
    <3>3. QED BY <3>1, <3>2
  <2>3. CASE k \in locks
    <3>1. Owned(k) BY <2>3 DEF NoLeakedLock
    <3>2. ASSUME NEW r \in Runs, Live(r), wf[r] = k PROVE Owned(k)'
      <4>1. CASE r # s
        <5>1. Live(r)' BY <2>1, <3>2, <4>1 DEF Live
        <5>2. QED BY <1>0, <3>2, <5>1
      <4>2. CASE r = s
        <5>1. Live(s)' BY <1>1, <3>2, <4>2, LocksMove DEF Live
        <5>2. QED BY <1>0, <3>2, <4>2, <5>1
      <4>3. QED BY <4>1, <4>2
    <3>3. ASSUME NEW r \in Runs, pc[r] = "agent", step(r).agent = k PROVE Owned(k)'
      <4>1. CASE r # s
        <5>1. pc'[r] = "agent" /\ (step(r).agent)' = k BY <1>0, <2>1, <3>3, <4>1 DEF step
        <5>2. QED BY <5>1
      <4>2. CASE r = s
        <5>1. Freed(s) = {k} BY <3>3, <4>2 DEF Freed
        <5>2. pc'[s] = "agent" /\ idx'[s] = idx[s] BY <1>1, <3>3, <4>2, <5>1, LocksMove
        <5>3. (step(s).agent)' = k BY <1>0, <3>3, <4>2, <5>2 DEF step
        <5>4. QED BY <5>2, <5>3
      <4>3. QED BY <4>1, <4>2
    <3>4. QED BY <2>1, <3>1, <3>2, <3>3
  <2>4. QED BY <2>2, <2>3
<1>2. CASE \A s \in Runs : ~LiveStep(s)
  <2>1. \A r \in Runs : Live(r) => pc'[r] = pc[r] /\ idx'[r] = idx[r]
    BY <1>2, <1>c, OthersStay
  <2>2. ASSUME NEW r \in Runs, Live(r), wf[r] = k PROVE Owned(k)'
    <3>1. Live(r)' BY <2>1, <2>2 DEF Live
    <3>2. QED BY <1>0, <2>2, <3>1
  <2>3. ASSUME NEW r \in Runs, pc[r] = "agent", step(r).agent = k PROVE Owned(k)'
    <3>1. pc'[r] = "agent" /\ idx'[r] = idx[r] BY <2>1, <2>3 DEF Live
    <3>2. (step(r).agent)' = k BY <1>0, <2>3, <3>1 DEF step
    <3>3. QED BY <3>1, <3>2
  <2>4. ASSUME k \in locks, k \in others => k \in others' PROVE Owned(k)'
    BY <2>2, <2>3, <2>4 DEF NoLeakedLock
  <2>5. ASSUME NEW r \in Runs, Begin(r) PROVE Owned(k)'
    <3>1. locks' = locks \cup {wf[r]} /\ others' = others /\ Live(r)'
      BY <2>5 DEF Begin, Live, TypeOK
    <3>2. QED BY <1>0, <2>4, <3>1
  <2>6. ASSUME NEW r \in Runs, Unknown(r) \/ Refuse(r) PROVE Owned(k)'
    BY <2>4, <2>6 DEF Unknown, Refuse
  <2>7. ASSUME NEW a \in Agents, OtherLock(a) \/ OtherUnlock(a) \/ Reap(a) PROVE Owned(k)'
    BY <2>4, <2>7 DEF OtherLock, OtherUnlock, Reap
  <2>8. CASE UNCHANGED vars BY <2>4, <2>8 DEF vars
  <2>9. QED BY <1>2, <1>c, <2>5, <2>6, <2>7, <2>8 DEF Next, LiveStep
<1>3. QED BY <1>1, <1>2

-----------------------------------------------------------------------------
LEMMA WorkflowInvInit == Init => WorkflowInv
<1> SUFFICES ASSUME Init PROVE WorkflowInv OBVIOUS
<1>1. TypeOK BY DEF Init, TypeOK, Live, Verdicts
<1>2. \A r \in Runs : pc[r] = "new" /\ ~Live(r) /\ verdict[r] = "none" /\ row[r] = "none"
                      /\ results[r] = {} /\ stepRows[r] = {}
  BY DEF Init, Live
<1>3. TurnSound BY <1>2, WorkflowAssumption DEF Init, TurnSound
<1>4. Held /\ NoLeakedLock /\ AgentExclusive
  BY <1>2 DEF Init, Held, NoLeakedLock, AgentExclusive, Executing
<1>5. Recorded /\ RowsTold /\ VerdictTrue /\ RowTrue /\ RowComplete /\ AbortedOver
  BY <1>2 DEF Recorded, RowsTold, VerdictTrue, RowTrue, RowComplete, AbortedOver
<1>6. QED BY <1>1, <1>3, <1>4, <1>5 DEF WorkflowInv

LEMMA WorkflowInvStep == WorkflowInv /\ [Next]_vars => WorkflowInv'
<1> SUFFICES ASSUME WorkflowInv, [Next]_vars PROVE WorkflowInv' OBVIOUS
<1>1. /\ TypeOK /\ TurnSound /\ Held /\ NoLeakedLock /\ AgentExclusive
      /\ Recorded /\ RowsTold /\ VerdictTrue /\ RowTrue /\ RowComplete /\ AbortedOver
  BY DEF WorkflowInv
<1>2. TypeOK' /\ TurnSound' BY <1>1, TypeStep, TurnStep
<1>3. Held' /\ NoLeakedLock' /\ AgentExclusive' BY <1>1, HeldStep, NoLeakStep, ExclusiveStep
<1>4. Recorded' /\ RowsTold' /\ VerdictTrue' BY <1>1, RecordedStep, RowsStep, VerdictStep
<1>5. RowTrue' /\ RowComplete' /\ AbortedOver' BY <1>1, RowStep, AbortedStep
<1>6. QED BY <1>2, <1>3, <1>4, <1>5 DEF WorkflowInv

\* Every variable has its type in every reachable state.
THEOREM WorkflowTypeCorrect == Spec => []TypeOK
<1>1. WorkflowInv => TypeOK BY DEF WorkflowInv
<1>2. QED BY WorkflowInvInit, WorkflowInvStep, <1>1, PTL DEF Spec

\* The keys in the set are those of workflows and agents that execute, and an
\* agent that the reaper spared executes in one place.
THEOREM WorkflowLocks == Spec => []LocksSound
<1>1. WorkflowInv => LocksSound BY DEF WorkflowInv, LocksSound
<1>2. QED BY WorkflowInvInit, WorkflowInvStep, <1>1, PTL DEF Spec

\* The status that is returned, the row of the run and the rows of its steps
\* agree.
THEOREM StoriesAgree == Spec => []OneStory
<1>1. WorkflowInv => OneStory
  <2> SUFFICES ASSUME WorkflowInv, NEW r \in Runs
               PROVE  /\ verdict[r] = "completed" =>
                           /\ ~Flawed(r)
                           /\ \A i \in DOMAIN steps(r) :
                                <<i, "failed">> \in stepRows[r] => steps(r)[i].onFailure = "skip"
                      /\ row[r] \in {"none", verdict[r]} \/ Live(r) \/ pc[r] = "dead"
                         \/ r \in unsaved
                      /\ row[r] = "completed" => verdict[r] = "completed"
    BY DEF OneStory
  <2>1. TypeOK /\ Recorded /\ RowsTold /\ VerdictTrue /\ RowTrue /\ RowComplete
    BY DEF WorkflowInv
  <2>2. ASSUME verdict[r] = "completed", NEW i \in DOMAIN steps(r),
               <<i, "failed">> \in stepRows[r]
        PROVE  steps(r)[i].onFailure = "skip"
    <3>1. pc[r] = "ended" /\ ~Flawed(r) BY <2>1, <2>2 DEF VerdictTrue
    <3>2. <<i, "failed">> \in results[r] \/ steps(r)[i].onFailure = "skip"
      BY <2>1, <2>2, <3>1 DEF RowsTold
    <3>3. <<i, "failed">> \notin results[r] BY <3>1 DEF Flawed
    <3>4. QED BY <3>2, <3>3
  <2>3. row[r] \in {"none", verdict[r]} \/ Live(r) \/ pc[r] = "dead" \/ r \in unsaved
    <3>1. pc[r] \in {"new", "next", "agent", "tool", "ended", "dead"} BY <2>1 DEF TypeOK
    <3>2. QED BY <2>1, <3>1 DEF Recorded, RowTrue, Live
  <2>4. QED BY <2>1, <2>2, <2>3 DEF VerdictTrue, RowComplete
<1>2. QED BY WorkflowInvInit, WorkflowInvStep, <1>1, PTL DEF Spec

\* Nothing of a workflow is executed after a step of it that aborts has failed.
THEOREM AbortsAreFinal == Spec => AbortStops
<1>1. WorkflowInv /\ [Next]_vars =>
        [\A r \in Runs : pc[r] # "new" /\ Aborted(r) =>
           results'[r] = results[r] /\ pc'[r] \notin {"agent", "tool"}]_vars
  <2> SUFFICES ASSUME WorkflowInv, [Next]_vars, NEW r \in Runs, pc[r] # "new", Aborted(r)
               PROVE  results'[r] = results[r] /\ pc'[r] \notin {"agent", "tool"}
    OBVIOUS
  <2>1. TypeOK /\ ~Live(r) BY DEF WorkflowInv, AbortedOver
  <2>2. pc[r] \in {"ended", "dead"} BY <2>1 DEF TypeOK, Live
  <2>3. CASE Untouched(r) BY <2>2, <2>3 DEF Untouched
  <2>4. ~Unknown(r) /\ ~Refuse(r) /\ ~Begin(r) BY DEF Unknown, Refuse, Begin
  <2>5. ~LiveStep(r) BY <2>1, LiveMoves
  <2>6. CASE Crash BY <2>1, <2>2, <2>6 DEF Crash
  <2>7. QED BY <2>1, <2>3, <2>4, <2>5, <2>6, OneRun DEF Own
<1>2. QED BY WorkflowInvInit, WorkflowInvStep, <1>1, PTL DEF Spec, AbortStops

-----------------------------------------------------------------------------
(* The refinement. *)

LEMMA PhaseSame ==
  ASSUME TypeOK, [Next]_vars, NEW s \in Runs,
         pc'[s] = pc[s] \/ (Live(s) /\ Live(s)'), verdict'[s] = verdict[s]
  PROVE  Phase(s)' = Phase(s)
<1>1. wf' = wf BY SameWorkflow
<1>2. CASE pc'[s] = pc[s] BY <1>1, <1>2 DEF Phase, Live
<1>3. CASE Live(s) /\ Live(s)' BY <1>3 DEF Phase, Live
<1>4. QED BY <1>2, <1>3

\* A step of one run moves the phase of that run alone.
LEMMA PhasesOfOne ==
  ASSUME TypeOK, [Next]_vars, NEW r \in Runs, Own(r)
  PROVE  /\ phase' = [phase EXCEPT ![r] = Phase(r)']
         /\ blemished' = [blemished EXCEPT ![r] = Flawed(r)']
<1>1. ASSUME NEW s \in Runs, s # r PROVE Untouched(s)
  <2>1. CASE Unknown(r) \/ Refuse(r) BY <1>1, <2>1 DEF Unknown, Refuse, TypeOK, Untouched
  <2>2. CASE Begin(r)
    <3>1. PICK ok \in Saved : /\ row' = [row EXCEPT ![r] = IF ok THEN "running" ELSE @]
                              /\ unsaved' = IF ok THEN unsaved ELSE unsaved \cup {r}
      BY <2>2 DEF Begin
    <3>2. row'[s] = row[s] /\ (s \in unsaved' <=> s \in unsaved)
      BY <1>1, <3>1 DEF TypeOK
    <3>3. QED BY <1>1, <2>2, <3>2 DEF Begin, TypeOK, Untouched
  <2>3. CASE LiveStep(r) BY <1>1, <2>3, LiveFrame DEF Untouched
  <2>4. QED BY <2>1, <2>2, <2>3 DEF Own
<1>2. \A s \in Runs \ {r} : Phase(s)' = Phase(s) /\ Flawed(s)' = Flawed(s)
  BY <1>1, PhaseSame DEF Untouched, Flawed
<1>3. QED BY <1>2 DEF phase, blemished

LEMMA StutterPhases ==
  ASSUME TypeOK, [Next]_vars, UNCHANGED <<pc, verdict, results>>
  PROVE  UNCHANGED <<phase, wf, blemished>>
<1>1. wf' = wf /\ \A s \in Runs : Phase(s)' = Phase(s) BY SameWorkflow, PhaseSame
<1>2. \A s \in Runs : Flawed(s)' = Flawed(s) BY DEF Flawed
<1>3. QED BY <1>1, <1>2 DEF phase, blemished

LEMMA PromiseInit == Init => Promise!Init
<1> SUFFICES ASSUME Init PROVE Promise!Init OBVIOUS
<1>1. \A r \in Runs : Phase(r) = "new" /\ Flawed(r) = FALSE BY DEF Init, Phase, Live, Flawed
<1>2. QED BY <1>1 DEF Promise!Init, phase, blemished, Init

LEMMA PromiseStep ==
  ASSUME WorkflowInv, [Next]_vars
  PROVE  Promise!Next \/ UNCHANGED <<phase, wf, blemished>>
<1>0. /\ TypeOK /\ Held /\ Recorded /\ VerdictTrue /\ wf' = wf
      /\ wf \in [Runs -> Workflows]
  BY SameWorkflow DEF WorkflowInv, TypeOK
<1>1. CASE UNCHANGED vars BY <1>0, <1>1, StutterPhases DEF vars, runVars
<1>2. ASSUME NEW a \in Agents, OtherLock(a) \/ OtherUnlock(a) \/ Reap(a)
      PROVE  UNCHANGED <<phase, wf, blemished>>
  BY <1>0, <1>2, StutterPhases DEF OtherLock, OtherUnlock, Reap, runVars
<1>a. ASSUME NEW r \in Runs
      PROVE  Phase(r) = phase[r] /\ blemished[r] = Flawed(r)
  BY DEF phase, blemished
<1>b. ASSUME NEW r \in Runs, pc[r] = "ended", wf[r] \in DOMAIN Def, verdict[r] # "skipped"
      PROVE  Phase(r) = verdict[r]
  BY <1>b DEF Phase, Live
<1>c. ASSUME NEW r \in Runs PROVE Phase(r) = "running" <=> Live(r)
  <2>1. CASE pc[r] = "ended" /\ (verdict[r] = "skipped" \/ wf[r] \notin DOMAIN Def)
    BY <2>1 DEF Phase, Live
  <2>2. CASE pc[r] = "ended" /\ ~(verdict[r] = "skipped" \/ wf[r] \notin DOMAIN Def)
    <3>1. verdict[r] # "running" BY <1>0 DEF TypeOK, Verdicts
    <3>2. QED BY <1>b, <2>2, <3>1 DEF Live
  <2>3. CASE pc[r] # "ended"
    <3>1. pc[r] \in {"new", "next", "agent", "tool", "dead"} BY <1>0, <2>3 DEF TypeOK
    <3>2. QED BY <3>1 DEF Phase, Live
  <2>4. QED BY <2>1, <2>2, <2>3
<1>3. ASSUME NEW r \in Runs, Unknown(r) \/ Refuse(r) PROVE Promise!Next
  <2>1. phase[r] = "new" /\ Flawed(r)' = Flawed(r)
    BY <1>3, <1>a DEF Unknown, Refuse, Phase, Live, Flawed
  <2>2. pc'[r] = "ended" /\ (verdict'[r] = "skipped" \/ wf'[r] \notin DOMAIN Def)
    BY <1>0, <1>3 DEF Unknown, Refuse, TypeOK
  <2>3. Phase(r)' = "refused" BY <2>2 DEF Phase, Live
  <2>4. phase' = [phase EXCEPT ![r] = "refused"] /\ blemished' = blemished
    BY <1>0, <1>3, <1>a, <2>1, <2>3, PhasesOfOne DEF Own, blemished
  <2>5. Promise!Refuse(r, wf[r]) BY <1>0, <2>1, <2>4 DEF Promise!Refuse
  <2>6. QED BY <1>0, <2>5 DEF Promise!Next
<1>4. ASSUME NEW r \in Runs, Begin(r) PROVE Promise!Next
  <2>1. phase[r] = "new" /\ Flawed(r)' = Flawed(r) /\ wf[r] \notin locks
    BY <1>4, <1>a DEF Begin, Phase, Live, Flawed, TryAcquire
  <2>2. pc'[r] = "next" BY <1>0, <1>4 DEF Begin, TypeOK
  <2>3. Phase(r)' = "running" BY <2>2 DEF Phase, Live
  <2>4. phase' = [phase EXCEPT ![r] = "running"] /\ blemished' = blemished
    BY <1>0, <1>4, <1>a, <2>1, <2>3, PhasesOfOne DEF Own, blemished
  <2>5. \A s \in Runs : phase[s] = "running" => wf[s] # wf[r]
    BY <1>0, <1>a, <1>c, <2>1 DEF Held
  <2>6. Promise!Start(r, wf[r]) BY <1>0, <2>1, <2>4, <2>5 DEF Promise!Start
  <2>7. QED BY <1>0, <2>6 DEF Promise!Next
<1>5. ASSUME NEW r \in Runs, LiveStep(r)
      PROVE  Promise!Next \/ UNCHANGED <<phase, wf, blemished>>
  <2>1. Live(r) /\ Moves(r) /\ wf[r] \in DOMAIN Def BY <1>0, <1>5, LiveMoves DEF TypeOK
  <2>2. phase[r] = "running" BY <1>a, <1>c, <2>1
  <2>3. /\ phase' = [phase EXCEPT ![r] = Phase(r)']
        /\ blemished' = [blemished EXCEPT ![r] = Flawed(r)']
    BY <1>0, <1>5, PhasesOfOne DEF Own
  <2>4. ASSUME NEW status \in {"completed", "failed", "timeout"}, End(r, status, Freed(r))
        PROVE  Phase(r)' = status
    <3>1. pc'[r] = "ended" /\ verdict'[r] = status BY <1>0, <2>4, EndTyped DEF TypeOK
    <3>2. QED BY <1>0, <2>1, <3>1 DEF Phase, Live
  <2>5. CASE Passes(r)
    <3>1. pc'[r] = "next" BY <1>0, <2>5 DEF Passes, TypeOK
    <3>2. Phase(r)' = "running" BY <3>1 DEF Phase, Live
    <3>3. phase' = phase
      <4>1. phase = [s \in Runs |-> phase[s]] BY DEF phase
      <4>2. QED BY <2>2, <2>3, <3>2, <4>1
    <3>4. Flawed(r)' \in BOOLEAN /\ (Flawed(r) => Flawed(r)')
      <4>1. results[r] \subseteq results'[r] BY <1>0, <2>5 DEF Passes, Records, TypeOK
      <4>2. QED BY <4>1 DEF Flawed
    <3>5. CASE Flawed(r)'
      <4>1. blemished' = [blemished EXCEPT ![r] = TRUE]
        BY <2>3, <3>5, <3>4
      <4>2. Promise!Blemish(r) BY <1>0, <2>2, <3>3, <4>1 DEF Promise!Blemish
      <4>3. QED BY <4>2 DEF Promise!Next
    <3>6. CASE ~Flawed(r)'
      <4>1. Flawed(r)' = FALSE /\ blemished[r] = FALSE BY <1>a, <3>4, <3>6 DEF Flawed
      <4>2. blemished = [s \in Runs |-> blemished[s]] BY DEF blemished
      <4>3. blemished' = blemished BY <2>3, <4>1, <4>2
      <4>4. QED BY <1>0, <3>3, <4>3
    <3>7. QED BY <3>5, <3>6
  <2>6. CASE Aborting(r)
    <3>1. PICK status \in StepStatuses : Records(r, status) /\ Aborts(r, status)
      BY <2>6 DEF Aborting
    <3>2. Relabelled(r, status) = "failed" BY <3>1 DEF Aborts, Relabelled
    <3>3. <<idx[r], "failed">> \in results'[r] BY <1>0, <3>1, <3>2 DEF Records, TypeOK
    <3>4. Flawed(r)' = TRUE BY <3>3 DEF Flawed
    <3>5. Phase(r)' = "failed" BY <2>4, <2>6 DEF Aborting
    <3>6. Promise!Fail(r) BY <1>0, <2>2, <2>3, <3>4, <3>5 DEF Promise!Fail
    <3>7. QED BY <3>6 DEF Promise!Next
  <2>7. CASE Ending(r)
    <3>1. PICK status \in {"completed", "failed", "timeout"} :
            /\ status = "failed" => Flawed(r)
            /\ status = "completed" => ~Flawed(r)
            /\ End(r, status, Freed(r))
      BY <2>7 DEF Ending
    <3>2. phase' = [phase EXCEPT ![r] = status] BY <2>3, <2>4, <3>1
    <3>3. Flawed(r)' = Flawed(r) BY <2>7 DEF Ending, Flawed
    <3>4. blemished' = blemished BY <2>3, <3>3 DEF blemished
    <3>5. CASE status = "completed"
      <4>1. ~blemished[r] BY <1>a, <3>1, <3>5
      <4>2. Promise!Complete(r) BY <1>0, <2>2, <3>2, <3>4, <3>5, <4>1 DEF Promise!Complete
      <4>3. QED BY <4>2 DEF Promise!Next
    <3>6. CASE status = "failed"
      <4>1. Flawed(r)' = TRUE BY <3>1, <3>3, <3>6 DEF Flawed
      <4>2. Promise!Fail(r) BY <1>0, <2>2, <2>3, <3>2, <3>6, <4>1 DEF Promise!Fail
      <4>3. QED BY <4>2 DEF Promise!Next
    <3>7. CASE status = "timeout"
      <4>1. Promise!Expire(r) BY <1>0, <2>2, <3>2, <3>4, <3>7 DEF Promise!Expire
      <4>2. QED BY <4>1 DEF Promise!Next
    <3>8. QED BY <3>5, <3>6, <3>7
  <2>8. CASE AgentStarts(r) \/ ToolStarts(r) \/ Swallowed(r)
    <3>1. pc'[r] \in {"agent", "tool"} /\ results' = results
      BY <1>0, <2>8 DEF AgentStarts, ToolStarts, Swallowed, Waits, TypeOK
    <3>2. Phase(r)' = "running" /\ Flawed(r)' = Flawed(r) BY <3>1 DEF Phase, Live, Flawed
    <3>3. phase' = phase
      <4>1. phase = [s \in Runs |-> phase[s]] BY DEF phase
      <4>2. QED BY <2>2, <2>3, <3>2, <4>1
    <3>4. blemished' = blemished BY <2>3, <3>2 DEF blemished
    <3>5. QED BY <1>0, <3>3, <3>4
  <2>9. QED BY <2>1, <2>5, <2>6, <2>7, <2>8 DEF Moves
<1>6. CASE Crash
  <2>1. ASSUME NEW r \in Runs
        PROVE  /\ Phase(r)' = IF phase[r] = "running" THEN "lost" ELSE phase[r]
               /\ Flawed(r)' = (blemished[r] /\ phase[r] # "running")
    <3>1. /\ pc'[r] = IF Live(r) THEN "dead" ELSE pc[r]
          /\ results'[r] = IF Live(r) THEN {} ELSE results[r]
          /\ verdict' = verdict
      BY <1>6 DEF Crash
    <3>2. CASE Live(r)
      <4>1. phase[r] = "running" BY <1>a, <1>c, <3>2
      <4>2. pc'[r] = "dead" /\ results'[r] = {} BY <3>1, <3>2
      <4>3. Phase(r)' = "lost" BY <4>2 DEF Phase, Live
      <4>4. Flawed(r)' = FALSE BY <4>2 DEF Flawed
      <4>5. QED BY <4>1, <4>3, <4>4
    <3>3. CASE ~Live(r)
      <4>1. phase[r] # "running" BY <1>a, <1>c, <3>3
      <4>2. pc'[r] = pc[r] /\ results'[r] = results[r] BY <3>1, <3>3
      <4>3. Phase(r)' = Phase(r) BY <1>0, <3>1, <4>2, PhaseSame
      <4>4. Flawed(r)' = Flawed(r) BY <4>2 DEF Flawed
      <4>5. Flawed(r) \in BOOLEAN BY DEF Flawed
      <4>6. QED BY <1>a, <4>1, <4>3, <4>4, <4>5
    <3>4. QED BY <3>2, <3>3
  <2>2. Promise!Die BY <1>0, <2>1 DEF Promise!Die, phase, blemished
  <2>3. QED BY <2>2 DEF Promise!Next
<1>7. QED BY <1>1, <1>2, <1>3, <1>4, <1>5, <1>6 DEF Next, LiveStep

\* The workflow engine implements its promise: a workflow is executed by one
\* run at a time, and a run ends once, with the status its steps deserve.
THEOREM EngineKeepsPromise == Spec => KeepsPromise
<1>1. WorkflowInv /\ [Next]_vars => [Promise!Next]_<<phase, wf, blemished>>
  BY PromiseStep
<1>2. QED
  BY PromiseInit, WorkflowInvInit, WorkflowInvStep, <1>1, PTL
  DEF Spec, KeepsPromise, Promise!Spec, Promise!vars
=============================================================================
