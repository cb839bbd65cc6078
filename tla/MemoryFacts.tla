---------------------------- MODULE MemoryFacts ----------------------------
(***************************************************************************)
(* The table memory_facts and who changes it: ingestion, which stores a    *)
(* fact and replaces the one it contradicts (memory/conflicts.py,          *)
(* memory/ingestion.py), and consolidation, which merges similar facts     *)
(* into a summary and prunes what nobody uses (memory/lifecycle.py): after *)
(* an ingest run, at night, or when the engine is idle (autodream.py).     *)
(*                                                                         *)
(* They run in processes of their own and share nothing but the table and  *)
(* two Redis locks; one action is what a process does between two awaits   *)
(* or two transactions.  What a fact says is the set of the claims it      *)
(* carries: its own, or those of the facts it summarises.  What the models *)
(* find similar, contradictory or worth a summary is nondeterministic.     *)
(***************************************************************************)
EXTENDS Naturals, Sequences, FiniteSets, FiniteSetsExt, Functions

CONSTANTS
  Claims,       \* what can be known
  Topic,        \* what a claim is about: facts are similar when they share it
  Given,        \* the claims of the facts there are at first
  Decisions,    \* claims whose category no pruning touches: decision, preference
  Ingest,       \* ingestions of one fact each
  Claim,        \* the claim an ingestion brings
  Dream,        \* consolidation runs
  Kinds,        \* what starts a run: intraday, nightly, light, deep (autodream)
  Threshold,    \* unconsolidated facts a lightweight run waits for, by kind
  MaxPruned,    \* claims after which no run prunes any more (a bound)
  MaxLapsed,    \* locks that fail their holder (a bound)
  Nobody

ASSUME MemoryAssumption ==
  /\ Given \in Seq(Claims)
  /\ Decisions \subseteq Claims
  /\ Claim \in [Ingest -> Claims]
  /\ Kinds \in [Dream -> SUBSET {"intraday", "nightly", "light", "deep"}]
  /\ Threshold \in [{"intraday", "light"} -> Nat]
  /\ DOMAIN Topic = Claims
  /\ MaxPruned \in Nat /\ MaxLapsed \in Nat
  /\ Nobody \notin Dream

VARIABLES
  fact,        \* the rows: says, active, by (superseded_by, 0 for NULL), swept, safe
  task,        \* an ingestion: at, match, mine
  dream,       \* a run: at, kind, groups still to merge, the group and summary at hand
  night,       \* robothor:lifecycle:maintenance_lock, and the run that set it
  idle,        \* robothor:autodream:lock
  outdated,    \* history: claims that a newer fact replaced
  pruned,      \* history: claims of pruned facts
  cut,         \* history: claims a summary left out
  raced,       \* history: claims replaced while a run merged them, or after
  doubled,     \* history: claims of a summary that failed half way or came late
  repeated,    \* history: claims an ingestion stored that were said, or replaced, before
  lapsed       \* history: locks that expired under their holder, or that Redis could not give

history == <<outdated, pruned, cut, raced, doubled, repeated>>
locks == <<night, idle, lapsed>>
vars == <<fact, task, dream, locks, history>>

Facts == DOMAIN fact
Active == {f \in Facts : fact[f].active}
Says(F) == UNION {fact[f].says : f \in F}
TopicOf(f) == Topic[CHOOSE c \in fact[f].says : TRUE]
Row(claims, safe) ==
  [says |-> claims, active |-> TRUE, by |-> 0, swept |-> FALSE, safe |-> safe]

Full(d) == dream[d].kind \in {"nightly", "deep"}   \* run_lifecycle_maintenance
Dreaming(d) == dream[d].kind \in {"light", "deep"} \* run_autodream
Pending(d) == UNION {g.from : g \in dream[d].groups}
InHand(d) == Pending(d) \cup dream[d].group \cup {dream[d].new}
Out == [at |-> "done", kind |-> "none", groups |-> {}, group |-> {}, new |-> 0]
Goto(d, where) ==
  dream' = [dream EXCEPT ![d] = IF where = "done" THEN Out ELSE [@ EXCEPT !.at = where]]
Lapse(lock) == lapsed' = lapsed \cup {lock} /\ Cardinality(lapsed') <= MaxLapsed
\* where a run goes when its consolidation is over, or has raised
After(d) == IF Dreaming(d) THEN "release" ELSE "done"

-----------------------------------------------------------------------------
(* Ingestion of one fact: resolve_and_store, and store_fact when it raised. *)

Told(p) == task' = [task EXCEPT ![p] = [at |-> "done", match |-> 0, mine |-> 0]]
\* Stored under id: its source channel is set, or that raises as well.
Direct(p, id) == task' = [task EXCEPT ![p] = [at |-> "direct", match |-> 0, mine |-> id]]
Settled(p, id) == Told(p) \/ Direct(p, id)
Similar(p) == {f \in Active : TopicOf(f) = Topic[Claim[p]]}

\* The best match is any similar fact, and no match also stands for "new".
FindSimilar(p) ==
  /\ task[p].at = "idle"
  /\ \/ \E m \in Similar(p) \cup {0} : task' = [task EXCEPT ![p].at = "found", ![p].match = m]
     \/ Similar(p) # {} /\ Told(p)  \* duplicate
     \/ Direct(p, 0)                \* the search raised, or nobody searches: store_memory
  /\ UNCHANGED <<fact, dream, locks, history>>

\* store_fact inserts, whatever the table says by then.
Insert(c) ==
  /\ fact' = Append(fact, Row({c}, c \in Decisions))
  /\ repeated' = IF c \in Says(Active) \cup outdated THEN repeated \cup {c} ELSE repeated

StoreFact(p) ==
  /\ task[p].at = "found"
  /\ Insert(Claim[p])
  /\ IF task[p].match = 0 THEN Settled(p, Len(fact'))
     ELSE task' = [task EXCEPT ![p].at = "stored", ![p].mine = Len(fact')]
  /\ UNCHANGED <<dream, locks, outdated, pruned, cut, raced, doubled>>

\* Mutant: the old fact keeps its is_active.
SupersedeNothing(p) ==
  /\ task[p].at = "stored"
  /\ LET m == task[p].match IN
     /\ fact' = [fact EXCEPT ![m].by = task[p].mine]
     /\ outdated' = outdated \cup (fact[m].says \ {Claim[p]})
     /\ raced' = IF ~fact[m].active \/ \E d \in Dream : m \in InHand(d)
                 THEN raced \cup fact[m].says ELSE raced
  /\ Told(p)
  /\ UNCHANGED <<dream, locks, pruned, cut, doubled, repeated>>

\* _supersede_fact does not ask whether the old fact is still active.
SupersedeFact(p) ==
  /\ task[p].at = "stored"
  /\ LET m == task[p].match IN
     /\ fact' = [fact EXCEPT ![m].active = FALSE, ![m].by = task[p].mine]
     /\ outdated' = outdated \cup (fact[m].says \ {Claim[p]})
     /\ raced' = IF ~fact[m].active \/ \E d \in Dream : m \in InHand(d)
                 THEN raced \cup fact[m].says ELSE raced
  /\ Settled(p, task[p].mine)
  /\ UNCHANGED <<dream, locks, pruned, cut, doubled, repeated>>

\* store_fact or _supersede_fact raises: ingest_content stores the fact directly.
ResolveFails(p) ==
  /\ task[p].at \in {"found", "stored"}
  /\ Direct(p, task[p].mine)
  /\ UNCHANGED <<fact, dream, locks, history>>

StoreDirectly(p) ==
  /\ task[p].at = "direct"
  /\ Insert(Claim[p])
  /\ Told(p)
  /\ UNCHANGED <<dream, locks, outdated, pruned, cut, raced, doubled>>

IngestDies(p) ==
  /\ task[p].at \notin {"idle", "done"}
  /\ Told(p)
  /\ UNCHANGED <<fact, dream, locks, history>>

-----------------------------------------------------------------------------
(* A consolidation run, to its first look at the facts. *)

\* run_autodream takes its lock; the other two have none of it.
Begin(d) ==
  /\ dream[d].at = "idle"
  /\ \E k \in Kinds[d] :
       LET next == IF k \in {"nightly", "deep"} THEN "enter" ELSE "find"
           enter(where) == dream' = [dream EXCEPT ![d].kind = k, ![d].at = where]
       IN \/ k \notin {"light", "deep"} /\ enter(next) /\ UNCHANGED <<idle, lapsed>>
          \/ k \in {"light", "deep"} /\ idle = Nobody /\ idle' = d
             /\ enter(next) /\ UNCHANGED lapsed
          \/ k \in {"light", "deep"} /\ idle # Nobody
             /\ Goto(d, "done") /\ UNCHANGED <<idle, lapsed>>
          \/ k \in {"light", "deep"} /\ Lapse("idle")                   \* no Redis
             /\ enter(next) /\ UNCHANGED idle
  /\ UNCHANGED <<fact, task, night, history>>

\* Mutant: the maintenance lock is set without NX.
EnterAnyway(d) ==
  /\ dream[d].at = "enter"
  /\ night' = d /\ Goto(d, "prune")
  /\ UNCHANGED <<fact, task, idle, lapsed, history>>

EnterMaintenance(d) ==
  /\ dream[d].at = "enter"
  /\ \/ night = Nobody /\ night' = d /\ Goto(d, "prune") /\ UNCHANGED lapsed
     \/ night # Nobody /\ Goto(d, After(d)) /\ UNCHANGED <<night, lapsed>>
     \/ Lapse("night") /\ Goto(d, "prune") /\ UNCHANGED night
  /\ UNCHANGED <<fact, task, idle, history>>

\* prune_low_quality_facts: at the start of a full run, at the end of a light one.
Prune(d) ==
  /\ dream[d].at = "prune"
  /\ \E F \in SUBSET {f \in Active : ~fact[f].safe} :
       /\ Cardinality(F) <= 1 /\ (F # {} => Cardinality(pruned) < MaxPruned)
       /\ fact' = [f \in Facts |-> IF f \in F THEN [fact[f] EXCEPT !.active = FALSE] ELSE fact[f]]
       /\ pruned' = pruned \cup Says(F)
  /\ Goto(d, IF Full(d) THEN "find" ELSE "release")
  /\ UNCHANGED <<task, locks, outdated, cut, raced, doubled, repeated>>

-----------------------------------------------------------------------------
(* Merging. *)

\* find_consolidation_candidates: each fact in turn, the newest first, with the
\* facts like it that are in no group yet.  A lightweight run starts from facts
\* that were not consolidated before, and takes in those that were.
Unswept == {f \in Active : ~fact[f].swept}
Base(d, g) == IF Full(d) THEN g ELSE g \cap Unswept
Grouped(d) ==
  {g \in {{f \in Active : TopicOf(f) = t} : t \in Range(Topic)} :
     Base(d, g) # {} /\ Cardinality(g) >= (IF Full(d) THEN 3 ELSE 2)}

\* A lightweight run skips its consolidation below the threshold.
Enough(d) == IF Full(d) THEN TRUE ELSE Cardinality(Unswept) >= Threshold[dream[d].kind]

FindGroups(d) ==
  /\ dream[d].at = "find"
  /\ \/ ~Enough(d)
        /\ Goto(d, IF Dreaming(d) THEN "prune" ELSE "done")
     \/ /\ Enough(d)
        /\ \E G \in {Grouped(d), {}} :                         \* or the search raises
             dream' = [dream EXCEPT ![d].at = "merge",
                         ![d].groups = {[from |-> g, first |-> Max(Base(d, g))] : g \in G}]
  /\ UNCHANGED <<fact, task, locks, history>>

\* The summary of a group is stored.  When the model failed, its text is that
\* of the first fact of the group; its category is always the first fact's.
\* A member that is gone by now, or that another run merges too, comes twice.
StoreSummary(d) ==
  /\ dream[d].at = "merge"
  /\ \E g \in dream[d].groups : \E F \in {g.from, {g.first}} :
       /\ fact' = Append(fact, Row(Says(F), fact[g.first].safe))
       /\ dream' = [dream EXCEPT ![d].at = "absorb", ![d].groups = @ \ {g},
                                 ![d].group = g.from, ![d].new = Len(fact')]
       /\ doubled' =
            IF g.from \subseteq Active /\ \A e \in Dream \ {d} : InHand(e) \cap g.from = {}
            THEN doubled ELSE doubled \cup Says(g.from)
  /\ UNCHANGED <<task, locks, outdated, pruned, cut, raced, repeated>>

\* No text, or storing it raises: a full run goes on with the next group, a
\* lightweight one goes on only after a group without text.
SummaryFails(d) ==
  /\ dream[d].at = "merge"
  /\ \E g \in dream[d].groups : \E G \in {dream[d].groups \ {g}, {}} :
       /\ G = {} => ~Full(d) \/ dream[d].groups = {g}
       /\ dream' = [dream EXCEPT ![d].groups = G]
  /\ UNCHANGED <<fact, task, locks, history>>

\* Mutant: every active fact of the topic goes, one stored meanwhile too.
AbsorbTopic(d) ==
  /\ dream[d].at = "absorb"
  /\ LET n == dream[d].new
         F == {f \in Active : f # n /\ TopicOf(f) = TopicOf(n)} IN
     /\ fact' = [f \in Facts |-> IF f \in F
                   THEN [fact[f] EXCEPT !.active = FALSE, !.by = n] ELSE fact[f]]
     /\ cut' = cut \cup (Says(F \cap dream[d].group) \ fact[n].says)
  /\ dream' = [dream EXCEPT ![d].at = "merge", ![d].group = {}, ![d].new = 0]
  /\ UNCHANGED <<task, locks, outdated, pruned, raced, doubled, repeated>>

\* The sources that are still active go, superseded by the summary.
Absorb(d) ==
  /\ dream[d].at = "absorb"
  /\ LET F == dream[d].group \cap Active IN
     /\ fact' = [f \in Facts |-> IF f \in F
                   THEN [fact[f] EXCEPT !.active = FALSE, !.by = dream[d].new] ELSE fact[f]]
     /\ cut' = cut \cup (Says(F) \ fact[dream[d].new].says)
  /\ dream' = [dream EXCEPT ![d].at = "merge", ![d].group = {}, ![d].new = 0]
  /\ UNCHANGED <<task, locks, outdated, pruned, raced, doubled, repeated>>

\* The update raises: the summary stays beside its sources.
AbsorbFails(d) ==
  /\ dream[d].at = "absorb"
  /\ doubled' = doubled \cup Says({dream[d].new})
  /\ dream' = [dream EXCEPT ![d].at = "merge", ![d].group = {}, ![d].new = 0,
                            ![d].groups = IF Full(d) THEN @ ELSE {}]
  /\ UNCHANGED <<fact, task, locks, outdated, pruned, cut, raced, repeated>>

-----------------------------------------------------------------------------
(* The end of a run. *)

\* _mark_facts_consolidated marks every active fact, those stored meanwhile too.
Sweep(d) ==
  /\ dream[d].at = "merge" /\ dream[d].groups = {}
  /\ fact' = [f \in Facts |-> IF fact[f].active THEN [fact[f] EXCEPT !.swept = TRUE] ELSE fact[f]]
  /\ Goto(d, IF Full(d) THEN "close" ELSE IF Dreaming(d) THEN "prune" ELSE "done")
  /\ UNCHANGED <<task, locks, history>>

\* _release_lifecycle_lock deletes the key, whoever set it, or fails quietly.
Close(d) ==
  /\ dream[d].at = "close"
  /\ night' \in {Nobody, night}
  /\ Goto(d, After(d))
  /\ UNCHANGED <<fact, task, idle, lapsed, history>>

\* An exception outside the guarded steps leaves the maintenance lock to its TTL.
Raises(d) ==
  /\ \/ dream[d].at = "prune"
     \/ dream[d].at = "find" /\ ~Full(d)
     \/ dream[d].at = "merge" /\ dream[d].groups = {}
  /\ Goto(d, After(d))
  /\ UNCHANGED <<fact, task, locks, history>>

\* release_lock compares and deletes in two calls, each of which may fail.
Release(d) ==
  /\ dream[d].at = "release"
  /\ \/ idle = d /\ Goto(d, "delete")
     \/ Goto(d, "done")
  /\ UNCHANGED <<fact, task, locks, history>>

Delete(d) ==
  /\ dream[d].at = "delete"
  /\ idle' \in {Nobody, idle}
  /\ Goto(d, "done")
  /\ UNCHANGED <<fact, task, night, lapsed, history>>

DreamDies(d) ==
  /\ dream[d].at \notin {"idle", "done"}
  /\ Goto(d, "done")
  /\ doubled' = IF dream[d].at = "absorb" THEN doubled \cup Says({dream[d].new}) ELSE doubled
  /\ UNCHANGED <<fact, task, locks, outdated, pruned, cut, raced, repeated>>

-----------------------------------------------------------------------------
(* The locks. *)

Maintaining(d) == Full(d) /\ dream[d].at \in {"prune", "find", "merge", "absorb", "close"}
Autodreaming(d) == Dreaming(d) /\ dream[d].at \notin {"idle", "done"}

\* The TTL of a key runs out, of a dead run's or of one that still works.
ExpireNight ==
  /\ night # Nobody
  /\ night' = Nobody
  /\ IF Maintaining(night) THEN Lapse("night") ELSE UNCHANGED lapsed
  /\ UNCHANGED <<fact, task, dream, idle, history>>

ExpireIdle ==
  /\ idle # Nobody
  /\ idle' = Nobody
  /\ IF Autodreaming(idle) THEN Lapse("idle") ELSE UNCHANGED lapsed
  /\ UNCHANGED <<fact, task, dream, night, history>>

Init ==
  /\ fact = [i \in DOMAIN Given |-> Row({Given[i]}, Given[i] \in Decisions)]
  /\ task = [p \in Ingest |-> [at |-> "idle", match |-> 0, mine |-> 0]]
  /\ dream = [d \in Dream |-> [Out EXCEPT !.at = "idle"]]
  /\ night = Nobody /\ idle = Nobody
  /\ outdated = {} /\ pruned = {} /\ cut = {} /\ raced = {} /\ doubled = {} /\ lapsed = {}
  /\ repeated = {Given[i] : i \in {j \in DOMAIN Given :
                                     \E k \in DOMAIN Given \ {j} : Given[k] = Given[j]}}

IngestStep(p) ==
  \/ FindSimilar(p) \/ StoreFact(p) \/ SupersedeFact(p) \/ ResolveFails(p)
  \/ StoreDirectly(p) \/ IngestDies(p)

DreamStep(d) ==
  \/ Begin(d) \/ EnterMaintenance(d) \/ Prune(d) \/ FindGroups(d)
  \/ StoreSummary(d) \/ SummaryFails(d) \/ Absorb(d) \/ AbsorbFails(d) \/ Sweep(d)
  \/ Close(d) \/ Raises(d) \/ Release(d) \/ Delete(d) \/ DreamDies(d)

Next ==
  \/ \E p \in Ingest : IngestStep(p)
  \/ \E d \in Dream : DreamStep(d)
  \/ ExpireNight \/ ExpireIdle

Spec == Init /\ [][Next]_vars

-----------------------------------------------------------------------------
(* Properties *)

\* The rows and the program counters have their types.
TypeOK ==
  /\ fact \in Seq([says : SUBSET Claims, active : BOOLEAN, by : Nat, swept : BOOLEAN, safe : BOOLEAN])
  /\ task \in [Ingest -> [at : {"idle", "found", "stored", "direct", "done"}, match : Nat, mine : Nat]]
  /\ \A d \in Dream : dream[d].at \in {"idle", "enter", "prune", "find", "merge",
                                       "absorb", "close", "release", "delete", "done"}
  /\ night \in Dream \cup {Nobody} /\ idle \in Dream \cup {Nobody}
  /\ outdated \cup pruned \cup cut \cup raced \cup doubled \cup repeated \subseteq Claims
  /\ lapsed \subseteq {"night", "idle"}

Known == Says(Facts)

\* Nothing that was stored is lost unless it was replaced by something newer,
\* pruned, or left out by the fallback of a summary (conflicts.py, lifecycle.py).
NothingForgotten == Known \subseteq Says(Active) \cup outdated \cup pruned \cup cut

\* superseded_by leads to a later fact that says as much, or explains why not.
LineageSound ==
  \A f \in Facts : fact[f].by # 0 =>
    /\ fact[f].by \in f + 1 .. Len(fact)
    /\ fact[f].says \subseteq fact[fact[f].by].says \cup outdated \cup cut

KnowledgeKept == NothingForgotten /\ LineageSound

\* What a merge or an ingestion answers for.
Excused == doubled \cup repeated

\* Two active facts say the same only while a summary takes over from its
\* sources, after a merge that failed half way or overlapped, or because an
\* ingestion stored what an active fact said already.  Nothing stops that: the
\* match is missed or misjudged, another ingestion was faster, a step that
\* failed after storing is done again, store_memory does not look.
CopiesExplained ==
  \A f, g \in Active : f # g =>
    \A c \in fact[f].says \cap fact[g].says :
      \/ c \in Excused
      \/ \E d \in Dream : dream[d].at = "absorb" /\ dream[d].new \in {f, g}

\* What was replaced is believed again only if it was being merged when it was
\* replaced, or had been merged before (find, classify, store and supersede are
\* separate steps), or if an ingestion said it again.
OutdatedStaysOut ==
  Says(Active) \cap outdated \subseteq raced \cup Excused

\* What the active facts say twice, or say although it was replaced, is explained.
BeliefsExplained == CopiesExplained /\ OutdatedStaysOut

\* Two maintenance runs, or two autodreams, overlap only after their lock
\* expired under one of them or could not be asked for.
LocksHold ==
  /\ "night" \in lapsed \/ Cardinality({d \in Dream : Maintaining(d)}) <= 1
  /\ "idle" \in lapsed \/ Cardinality({d \in Dream : Autodreaming(d)}) <= 1
=============================================================================
