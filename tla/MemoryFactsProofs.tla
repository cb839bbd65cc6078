-------------------------- MODULE MemoryFactsProofs --------------------------
(***************************************************************************)
(* Proofs about MemoryFacts, for any number of facts, ingestions and       *)
(* consolidation runs: what is known is kept, what is believed is          *)
(* explained, and the two locks keep runs apart until one of them lapses.  *)
(***************************************************************************)
EXTENDS MemoryFacts, SequenceTheorems, FiniteSetTheorems, WellFoundedInduction, TLAPS

FactRow == [says : SUBSET Claims, active : BOOLEAN, by : Nat, swept : BOOLEAN, safe : BOOLEAN]
IngestPlaces == {"idle", "found", "stored", "direct", "done"}
DreamPlaces == {"idle", "enter", "prune", "find", "merge", "absorb", "close", "release",
                "delete", "done"}
Starts == {"intraday", "nightly", "light", "deep"}
Ingestion == [at : IngestPlaces, match : Nat, mine : Nat]
Group == [from : SUBSET Nat, first : Nat]
Run == [at : DreamPlaces, kind : Starts \cup {"none"}, groups : SUBSET Group,
        group : SUBSET Nat, new : Nat]

RowsTyped == fact \in Seq(FactRow)
TasksTyped == task \in [Ingest -> Ingestion]
DreamsTyped == dream \in [Dream -> Run]
RestTyped ==
  /\ night \in Dream \cup {Nobody} /\ idle \in Dream \cup {Nobody}
  /\ outdated \subseteq Claims /\ pruned \subseteq Claims /\ cut \subseteq Claims
  /\ raced \subseteq Claims /\ doubled \subseteq Claims /\ repeated \subseteq Claims
  /\ lapsed \subseteq {"night", "idle"}

Typed == RowsTyped /\ TasksTyped /\ DreamsTyped /\ RestTyped

\* An ingestion refers to rows there are.
IngestRefs == \A p \in Ingest :
  /\ task[p].at \in {"idle", "found"} => task[p].mine = 0
  /\ task[p].at = "found" => task[p].match \in Facts \cup {0}
  /\ task[p].at = "stored" => /\ task[p].match \in Facts /\ task[p].mine \in Facts
                              /\ task[p].match < task[p].mine
                              /\ Claim[p] \in fact[task[p].mine].says
  /\ task[p].at = "direct" => task[p].mine \in Facts \cup {0}

\* So does a run; a summary is newer than its sources.
DreamRefs == \A d \in Dream :
  /\ \A g \in dream[d].groups : g.from \subseteq Facts /\ g.first \in g.from
  /\ dream[d].group \subseteq Facts
  /\ dream[d].at = "absorb" =>
       dream[d].new \in Facts /\ \A f \in dream[d].group : f < dream[d].new

-----------------------------------------------------------------------------
(* Rows *)

LEMMA ClaimFacts ==
  /\ Claim \in [Ingest -> Claims] /\ Nobody \notin Dream
  /\ \A d \in Dream : Kinds[d] \subseteq Starts
  BY MemoryAssumption DEF Starts

LEMMA RowFacts ==
  ASSUME RowsTyped
  PROVE  /\ Facts = 1 .. Len(fact) /\ Len(fact) \in Nat
         /\ \A f \in Facts : fact[f] \in FactRow
  BY DEF RowsTyped, Facts

\* A row is added behind the others ...
Added(r) ==
  /\ Facts' = Facts \cup {Len(fact) + 1} /\ Len(fact') = Len(fact) + 1
  /\ fact'[Len(fact) + 1] = r
  /\ \A f \in Facts : f < Len(fact) + 1 /\ fact'[f] = fact[f]

LEMMA AddFacts ==
  ASSUME RowsTyped, NEW r \in FactRow, fact' = Append(fact, r)
  PROVE  RowsTyped' /\ Added(r)
<1>1. fact' \in Seq(FactRow) /\ Len(fact') = Len(fact) + 1
      /\ fact'[Len(fact) + 1] = r /\ \A f \in 1 .. Len(fact) : fact'[f] = fact[f]
  BY AppendProperties DEF RowsTyped
<1>2. Facts = 1 .. Len(fact) /\ Len(fact) \in Nat /\ Facts' = 1 .. Len(fact')
  BY <1>1 DEF RowsTyped, Facts
<1>3. QED BY <1>1, <1>2 DEF RowsTyped, Added

\* ... or those of F cease to be active, and nobody says anything else.
Retired(F) ==
  /\ Facts' = Facts /\ Len(fact') = Len(fact)
  /\ \A f \in Facts : /\ fact'[f].says = fact[f].says
                      /\ fact'[f].active = (fact[f].active /\ f \notin F)

LEMMA SameRows ==
  ASSUME RowsTyped, fact' \in [Facts -> FactRow]
  PROVE  RowsTyped' /\ Facts' = Facts /\ Len(fact') = Len(fact)
<1>1. PICK n \in Nat : n = Len(fact) /\ Facts = 1 .. n BY RowFacts
<1>2. fact' \in Seq(FactRow) BY <1>1, SeqDef
<1>3. DOMAIN fact' = 1 .. n /\ Len(fact') = n BY <1>1, <1>2
<1>4. QED BY <1>1, <1>2, <1>3 DEF RowsTyped, Facts

LEMMA RowOf ==
  ASSUME NEW C \in SUBSET Claims, NEW safe \in BOOLEAN
  PROVE  /\ Row(C, safe) \in FactRow /\ Row(C, safe).says = C
         /\ Row(C, safe).active = TRUE /\ Row(C, safe).by = 0
  BY DEF Row, FactRow

\* A new row that is active and says C.
NewRow(C) == \E r \in FactRow : Added(r) /\ r.says = C /\ r.active = TRUE /\ r.by = 0

LEMMA ToldRow ==
  ASSUME RowsTyped, NEW p \in Ingest, Insert(Claim[p])
  PROVE  RowsTyped' /\ NewRow({Claim[p]})
<1>1. {Claim[p]} \in SUBSET Claims BY ClaimFacts
<1>2. PICK safe \in BOOLEAN : safe <=> Claim[p] \in Decisions OBVIOUS
<1>3. PICK r : r = Row({Claim[p]}, Claim[p] \in Decisions) OBVIOUS
<1>4. r \in FactRow /\ r.says = {Claim[p]} /\ r.active = TRUE /\ r.by = 0
  BY <1>1, <1>3 DEF Row, FactRow
<1>5. RowsTyped' /\ Added(r) BY <1>3, <1>4, AddFacts DEF Insert
<1>6. QED BY <1>4, <1>5 DEF NewRow

LEMMA SummaryRow ==
  ASSUME RowsTyped, NEW F \in SUBSET Facts, NEW f \in Facts,
         fact' = Append(fact, Row(Says(F), fact[f].safe))
  PROVE  RowsTyped' /\ NewRow(Says(F))
<1>1. Says(F) \in SUBSET Claims BY RowFacts DEF Says, FactRow
<1>2. fact[f].safe \in BOOLEAN BY RowFacts DEF FactRow
<1>3. PICK r : r = Row(Says(F), fact[f].safe) OBVIOUS
<1>4. r \in FactRow /\ r.says = Says(F) /\ r.active = TRUE /\ r.by = 0
  BY <1>1, <1>2, <1>3, RowOf
<1>5. RowsTyped' /\ Added(r) BY <1>3, <1>4, AddFacts
<1>6. QED BY <1>4, <1>5 DEF NewRow

\* The steps that change rows.
LEMMA Supersedes ==
  ASSUME RowsTyped, IngestRefs, NEW p \in Ingest, SupersedeFact(p)
  PROVE  \E m, n \in Facts :
         /\ m = task[p].match /\ n = task[p].mine /\ m < n
         /\ RowsTyped' /\ Retired({m}) /\ fact'[m].by = n
         /\ \A f \in Facts \ {m} : fact'[f].by = fact[f].by
         /\ Claim[p] \in fact[n].says
         /\ outdated' = outdated \cup (fact[m].says \ {Claim[p]})
         /\ raced' = IF ~fact[m].active \/ \E d \in Dream : m \in InHand(d)
                     THEN raced \cup fact[m].says ELSE raced
<1>1. PICK m, n \in Facts : /\ m = task[p].match /\ n = task[p].mine /\ m < n
                            /\ Claim[p] \in fact[n].says
  BY DEF IngestRefs, SupersedeFact
<1>2. fact' = [fact EXCEPT ![m].active = FALSE, ![m].by = n]
  BY <1>1 DEF SupersedeFact
<1>3. fact \in [Facts -> FactRow] /\ n \in Nat
  BY <1>1, RowFacts DEF RowsTyped, Facts
<1>4. PICK old \in FactRow : old = fact[m] BY <1>1, <1>3
<1>5. PICK row : row = [old EXCEPT !.active = FALSE, !.by = n] OBVIOUS
<1>5a. /\ row = [says |-> old.says, active |-> FALSE, by |-> n, swept |-> old.swept,
                safe |-> old.safe]
  BY <1>5 DEF FactRow
<1>5b. row \in FactRow /\ row.says = old.says /\ row.active = FALSE /\ row.by = n
  BY <1>3, <1>5a DEF FactRow
<1>6. fact' = [fact EXCEPT ![m] = row] BY <1>1, <1>2, <1>3, <1>4, <1>5
<1>7. /\ fact' \in [Facts -> FactRow]
      /\ \A f \in Facts : fact'[f] = IF f = m THEN row ELSE fact[f]
  BY <1>1, <1>3, <1>5b, <1>6
<1>8. RowsTyped' /\ Facts' = Facts /\ Len(fact') = Len(fact)
  BY <1>7, SameRows
<1>9. \A f \in Facts : fact[f].active \in BOOLEAN BY <1>3 DEF FactRow
<1>10. Retired({m}) BY <1>4, <1>5b, <1>7, <1>8, <1>9 DEF Retired
<1>11. /\ outdated' = outdated \cup (fact[m].says \ {Claim[p]})
       /\ raced' = IF ~fact[m].active \/ \E d \in Dream : m \in InHand(d)
                   THEN raced \cup fact[m].says ELSE raced
  BY <1>1 DEF SupersedeFact
<1>12. QED BY <1>1, <1>5b, <1>7, <1>8, <1>10, <1>11

LEMMA Summarises ==
  ASSUME RowsTyped, DreamRefs, NEW d \in Dream, StoreSummary(d)
  PROVE  \E g \in dream[d].groups : \E F \in {g.from, {g.first}} :
           /\ g.from \subseteq Facts /\ F \subseteq g.from
           /\ RowsTyped' /\ NewRow(Says(F))
           /\ dream' = [dream EXCEPT ![d].at = "absorb", ![d].groups = @ \ {g},
                                     ![d].group = g.from, ![d].new = Len(fact')]
           /\ doubled' =
                IF g.from \subseteq Active /\ \A e \in Dream \ {d} : InHand(e) \cap g.from = {}
                THEN doubled ELSE doubled \cup Says(g.from)
<1>1. PICK g \in dream[d].groups : \E F \in {g.from, {g.first}} :
        /\ fact' = Append(fact, Row(Says(F), fact[g.first].safe))
        /\ dream' = [dream EXCEPT ![d].at = "absorb", ![d].groups = @ \ {g},
                                  ![d].group = g.from, ![d].new = Len(fact')]
        /\ doubled' =
             IF g.from \subseteq Active /\ \A e \in Dream \ {d} : InHand(e) \cap g.from = {}
             THEN doubled ELSE doubled \cup Says(g.from)
  BY DEF StoreSummary
<1>2. PICK F \in {g.from, {g.first}} :
        fact' = Append(fact, Row(Says(F), fact[g.first].safe))
  BY <1>1
<1>3. g.from \subseteq Facts /\ g.first \in g.from /\ F \subseteq g.from
  BY DEF DreamRefs
<1>4. RowsTyped' /\ NewRow(Says(F)) BY <1>2, <1>3, SummaryRow
<1>5. QED BY <1>1, <1>3, <1>4

LEMMA Absorbs ==
  ASSUME RowsTyped, DreamRefs, NEW d \in Dream, Absorb(d), dream[d].group \subseteq Facts,
         dream[d].new \in Nat
  PROVE  LET F == dream[d].group \cap Active IN
         /\ RowsTyped' /\ Retired(F)
         /\ \A f \in Facts : fact'[f].by = IF f \in F THEN dream[d].new ELSE fact[f].by
<1> DEFINE F == dream[d].group \cap Active
<1>1. fact' = [f \in Facts |-> IF f \in F
                 THEN [fact[f] EXCEPT !.active = FALSE, !.by = dream[d].new] ELSE fact[f]]
  BY DEF Absorb
<1> HIDE DEF F
<1>2. fact' \in [Facts -> FactRow]
  BY <1>1, RowFacts DEF FactRow
<1>3. /\ RowsTyped' /\ Retired(F)
      /\ \A f \in Facts : fact'[f].by = IF f \in F THEN dream[d].new ELSE fact[f].by
  BY <1>1, <1>2, SameRows, RowFacts DEF Retired, FactRow
<1>4. QED BY <1>3 DEF F

LEMMA Prunes ==
  ASSUME RowsTyped, NEW d \in Dream, Prune(d)
  PROVE  \E F \in SUBSET Active :
           /\ RowsTyped' /\ Retired(F) /\ \A f \in Facts : fact'[f].by = fact[f].by
           /\ pruned' = pruned \cup Says(F)
<1>1. PICK F \in SUBSET Active :
        /\ fact' = [f \in Facts |-> IF f \in F THEN [fact[f] EXCEPT !.active = FALSE]
                                               ELSE fact[f]]
        /\ pruned' = pruned \cup Says(F)
  BY DEF Prune
<1>2. fact' \in [Facts -> FactRow]
  BY <1>1, RowFacts DEF FactRow
<1>3. RowsTyped' /\ Retired(F) /\ \A f \in Facts : fact'[f].by = fact[f].by
  BY <1>1, <1>2, SameRows, RowFacts DEF Retired, FactRow
<1>4. QED BY <1>1, <1>3

LEMMA Sweeps ==
  ASSUME RowsTyped, NEW d \in Dream, Sweep(d)
  PROVE  RowsTyped' /\ Retired({}) /\ \A f \in Facts : fact'[f].by = fact[f].by
<1>1. fact' = [f \in Facts |-> IF fact[f].active THEN [fact[f] EXCEPT !.swept = TRUE]
                                                 ELSE fact[f]]
  BY DEF Sweep
<1>2. fact' \in [Facts -> FactRow]
  BY <1>1, RowFacts DEF FactRow
<1>3. QED BY <1>1, <1>2, SameRows, RowFacts DEF Retired, FactRow

\* The newest of the rows F.
LEMMA MaxFacts ==
  ASSUME NEW n \in Nat, NEW F \in SUBSET (1 .. n), F # {}
  PROVE  Max(F) \in F
<1> DEFINE T == {n - f : f \in F}
<1>1. PICK f \in F : TRUE OBVIOUS
<1>2. T \subseteq Nat /\ n - f \in T OBVIOUS
<1>3. PICK k \in T : \A j \in T : <<j, k>> \notin OpToRel(<, Nat)
  BY <1>2, NatLessThanWellFounded, WFMin, Zenon
<1>4. \A j \in T : ~(j < k)
  BY <1>2, <1>3, Zenon DEF OpToRel
<1>5. PICK e \in F : k = n - e OBVIOUS
<1>6. \A g \in F : g <= e
  <2> TAKE g \in F
  <2>1. n - g \in T /\ n - g \in Nat /\ k \in Nat OBVIOUS
  <2>2. ~(n - g < k) BY <1>4, <2>1
  <2>3. QED BY <1>5, <2>2
<1>7. QED BY <1>6 DEF Max

LEMMA GroupFacts ==
  ASSUME Typed, NEW d \in Dream, NEW g \in Grouped(d)
  PROVE  g \subseteq Facts /\ Max(Base(d, g)) \in g /\ g \subseteq Nat
<1>1. g \subseteq Facts /\ Base(d, g) \subseteq g /\ Base(d, g) # {}
  BY DEF Grouped, Base, Active, Unswept
<1>2. Max(Base(d, g)) \in Base(d, g) BY <1>1, MaxFacts, RowFacts DEF Typed
<1>3. QED BY <1>1, <1>2, RowFacts DEF Typed

-----------------------------------------------------------------------------
(* Types *)

LEMMA RowsTypedStep == Typed /\ IngestRefs /\ DreamRefs /\ [Next]_vars => RowsTyped'
<1> SUFFICES ASSUME Typed /\ IngestRefs /\ DreamRefs, [Next]_vars PROVE RowsTyped'
  OBVIOUS
<1> USE ClaimFacts DEF history, locks
<1>1. ASSUME UNCHANGED <<fact>> PROVE RowsTyped'
  BY <1>1 DEF Typed, RowsTyped
<1>2. ASSUME NEW p \in Ingest, StoreFact(p) PROVE RowsTyped'
  BY <1>2, ToldRow DEF StoreFact, Settled, Told, Direct, Typed
<1>3. ASSUME NEW p \in Ingest, SupersedeFact(p) PROVE RowsTyped'
  BY <1>3, Supersedes DEF SupersedeFact, Settled, Told, Direct, Typed
<1>4. ASSUME NEW p \in Ingest, StoreDirectly(p) PROVE RowsTyped'
  BY <1>4, ToldRow DEF StoreDirectly, Told, Direct, Typed
<1>5. ASSUME NEW d \in Dream, Prune(d) PROVE RowsTyped'
  BY <1>5, Prunes DEF Prune, Goto, Typed
<1>6. ASSUME NEW d \in Dream, StoreSummary(d) PROVE RowsTyped'
  BY <1>6, Summarises DEF StoreSummary, Typed
<1>7. ASSUME NEW d \in Dream, Absorb(d) PROVE RowsTyped'
  BY <1>7, Absorbs DEF Absorb, Typed, DreamRefs, DreamsTyped, Run
<1>8. ASSUME NEW d \in Dream, Sweep(d) PROVE RowsTyped'
  BY <1>8, Sweeps DEF Sweep, Goto, Typed
<1> QED
  BY <1>1, <1>2, <1>3, <1>4, <1>5, <1>6, <1>7, <1>8
  DEF Next, IngestStep, DreamStep, vars, locks, history, AbsorbFails, Begin, Close, Delete,
      Direct, DreamDies, EnterMaintenance, ExpireIdle, ExpireNight, FindGroups, FindSimilar, Goto,
      IngestDies, Raises, Release, ResolveFails, SummaryFails, Told

LEMMA TasksTypedStep == Typed /\ IngestRefs /\ [Next]_vars => TasksTyped'
<1> SUFFICES ASSUME Typed /\ IngestRefs, [Next]_vars PROVE TasksTyped'
  OBVIOUS
<1> USE ClaimFacts DEF history, locks
<1>1. ASSUME UNCHANGED <<task>> PROVE TasksTyped'
  BY <1>1 DEF Typed, TasksTyped
<1>2. ASSUME NEW p \in Ingest, FindSimilar(p) PROVE TasksTyped'
  <2>1. Told(p) \/ Direct(p, 0) => TasksTyped'
    BY DEF Told, Direct, Typed, TasksTyped, Ingestion, IngestPlaces
  <2>2. ASSUME NEW m \in Similar(p) \cup {0},
               task' = [task EXCEPT ![p].at = "found", ![p].match = m]
        PROVE  TasksTyped'
    <3>1. m \in Nat BY RowFacts DEF Similar, Active, Typed
    <3>2. QED BY <2>2, <3>1 DEF Typed, TasksTyped, Ingestion, IngestPlaces
  <2>3. QED BY <1>2, <2>1, <2>2 DEF FindSimilar
<1>3. ASSUME NEW p \in Ingest, StoreFact(p) PROVE TasksTyped'
  BY <1>3, RowFacts
  DEF StoreFact, Settled, Told, Direct, Typed, TasksTyped, Ingestion, IngestPlaces
<1>4. ASSUME NEW p \in Ingest, SupersedeFact(p) PROVE TasksTyped'
  <2>1. task[p].mine \in Nat BY <1>4 DEF Typed, TasksTyped, Ingestion
  <2>2. Told(p) \/ Direct(p, task[p].mine) BY <1>4 DEF SupersedeFact, Settled
  <2>3. QED BY <2>1, <2>2 DEF Told, Direct, Typed, TasksTyped, Ingestion, IngestPlaces
<1>5. ASSUME NEW p \in Ingest, ResolveFails(p) PROVE TasksTyped'
  BY <1>5, RowFacts DEF ResolveFails, Direct, Typed, TasksTyped, Ingestion, IngestPlaces
<1>6. ASSUME NEW p \in Ingest, StoreDirectly(p) PROVE TasksTyped'
  BY <1>6, RowFacts DEF StoreDirectly, Told, Direct, Typed, TasksTyped, Ingestion, IngestPlaces
<1>7. ASSUME NEW p \in Ingest, IngestDies(p) PROVE TasksTyped'
  BY <1>7, RowFacts DEF IngestDies, Told, Direct, Typed, TasksTyped, Ingestion, IngestPlaces
<1> QED
  BY <1>1, <1>2, <1>3, <1>4, <1>5, <1>6, <1>7
  DEF Next, IngestStep, DreamStep, vars, locks, history, Absorb, AbsorbFails, Begin, Close,
      Delete, DreamDies, EnterMaintenance, ExpireIdle, ExpireNight, FindGroups, Goto, Prune,
      Raises, Release, StoreSummary, SummaryFails, Sweep

LEMMA DreamsTypedStep == Typed /\ DreamRefs /\ [Next]_vars => DreamsTyped'
<1> SUFFICES ASSUME Typed /\ DreamRefs, [Next]_vars PROVE DreamsTyped'
  OBVIOUS
<1> USE ClaimFacts DEF history, locks
<1>1. ASSUME UNCHANGED <<dream>> PROVE DreamsTyped'
  BY <1>1 DEF Typed, DreamsTyped
<1>2. ASSUME NEW d \in Dream, Begin(d) PROVE DreamsTyped'
  BY <1>2 DEF Begin, Goto, Typed, DreamsTyped, Run, DreamPlaces, Out, After, Starts
<1>3. ASSUME NEW d \in Dream, EnterMaintenance(d) PROVE DreamsTyped'
  BY <1>3 DEF EnterMaintenance, Goto, Typed, DreamsTyped, Run, DreamPlaces, Out, After
<1>4. ASSUME NEW d \in Dream, Prune(d) PROVE DreamsTyped'
  BY <1>4 DEF Prune, Goto, Typed, DreamsTyped, Run, DreamPlaces, Out, After
<1>5. ASSUME NEW d \in Dream, FindGroups(d) PROVE DreamsTyped'
  BY <1>5, GroupFacts DEF FindGroups, Goto, Typed, DreamsTyped, Run, DreamPlaces, Out, After
<1>6. ASSUME NEW d \in Dream, StoreSummary(d) PROVE DreamsTyped'
  BY <1>6, RowFacts DEF StoreSummary, Typed, DreamsTyped, Run, DreamPlaces, Out, After, Group
<1>7. ASSUME NEW d \in Dream, SummaryFails(d) PROVE DreamsTyped'
  BY <1>7 DEF SummaryFails, Typed, DreamsTyped, Run, DreamPlaces, Out, After
<1>8. ASSUME NEW d \in Dream, Absorb(d) PROVE DreamsTyped'
  <2>1. dream' = [dream EXCEPT ![d].at = "merge", ![d].group = {}, ![d].new = 0]
    BY <1>8 DEF Absorb
  <2>2. PICK r \in Run : r = dream[d] BY DEF Typed, DreamsTyped
  <2>3. PICK w \in Run : w = [r EXCEPT !.at = "merge", !.group = {}, !.new = 0]
    BY DEF Run, DreamPlaces
  <2>4. dream' = [dream EXCEPT ![d] = w] BY <2>1, <2>2, <2>3 DEF Typed, DreamsTyped
  <2>5. QED BY <2>4 DEF Typed, DreamsTyped
<1>9. ASSUME NEW d \in Dream, AbsorbFails(d) PROVE DreamsTyped'
  <2>1. PICK G \in SUBSET Group :
          dream' = [dream EXCEPT ![d].at = "merge", ![d].group = {}, ![d].new = 0,
                                 ![d].groups = G]
    BY <1>9 DEF AbsorbFails, Typed, DreamsTyped, Run
  <2>2. PICK r \in Run : r = dream[d] BY DEF Typed, DreamsTyped
  <2>3. PICK w \in Run :
          w = [r EXCEPT !.at = "merge", !.group = {}, !.new = 0, !.groups = G]
    BY DEF Run, DreamPlaces
  <2>4. dream' = [dream EXCEPT ![d] = w] BY <2>1, <2>2, <2>3 DEF Typed, DreamsTyped
  <2>5. QED BY <2>4 DEF Typed, DreamsTyped
<1>10. ASSUME NEW d \in Dream, Sweep(d) PROVE DreamsTyped'
  BY <1>10 DEF Sweep, Goto, Typed, DreamsTyped, Run, DreamPlaces, Out, After
<1>11. ASSUME NEW d \in Dream, Close(d) PROVE DreamsTyped'
  BY <1>11 DEF Close, Goto, Typed, DreamsTyped, Run, DreamPlaces, Out, After
<1>12. ASSUME NEW d \in Dream, Raises(d) PROVE DreamsTyped'
  BY <1>12 DEF Raises, Goto, Typed, DreamsTyped, Run, DreamPlaces, Out, After
<1>13. ASSUME NEW d \in Dream, Release(d) PROVE DreamsTyped'
  BY <1>13 DEF Release, Goto, Typed, DreamsTyped, Run, DreamPlaces, Out, After
<1>14. ASSUME NEW d \in Dream, Delete(d) PROVE DreamsTyped'
  BY <1>14 DEF Delete, Goto, Typed, DreamsTyped, Run, DreamPlaces, Out, After
<1>15. ASSUME NEW d \in Dream, DreamDies(d) PROVE DreamsTyped'
  BY <1>15 DEF DreamDies, Goto, Typed, DreamsTyped, Run, DreamPlaces, Out, After
<1> QED
  BY <1>1, <1>2, <1>3, <1>4, <1>5, <1>6, <1>7, <1>8, <1>9, <1>10, <1>11, <1>12, <1>13, <1>14,
     <1>15
  DEF Next, IngestStep, DreamStep, vars, locks, history, Direct, ExpireIdle, ExpireNight,
      FindSimilar, IngestDies, ResolveFails, Settled, StoreDirectly, StoreFact, SupersedeFact,
      Told

LEMMA RestTypedStep == Typed /\ IngestRefs /\ DreamRefs /\ [Next]_vars => RestTyped'
<1> SUFFICES ASSUME Typed /\ IngestRefs /\ DreamRefs, [Next]_vars PROVE RestTyped'
  OBVIOUS
<1> USE ClaimFacts DEF history, locks
<1>1. ASSUME UNCHANGED <<locks, history>> PROVE RestTyped'
  BY <1>1 DEF Typed, RestTyped
<1>1a. ASSUME NEW p \in Ingest, StoreFact(p) PROVE RestTyped'
  BY <1>1a DEF StoreFact, Insert, Typed, RestTyped
<1>2. ASSUME NEW p \in Ingest, SupersedeFact(p) PROVE RestTyped'
  BY <1>2, RowFacts
  DEF SupersedeFact, Settled, Told, Direct, Typed, RestTyped, FactRow, Says, IngestRefs,
      DreamRefs, TasksTyped, DreamsTyped, Run, Group, Active
<1>3. ASSUME NEW p \in Ingest, StoreDirectly(p) PROVE RestTyped'
  BY <1>3, RowFacts
  DEF StoreDirectly, Insert, Told, Direct, Typed, RestTyped
<1>4. ASSUME NEW d \in Dream, Begin(d) PROVE RestTyped'
  BY <1>4 DEF Begin, Goto, Typed, RestTyped, Lapse
<1>5. ASSUME NEW d \in Dream, EnterMaintenance(d) PROVE RestTyped'
  BY <1>5 DEF EnterMaintenance, Goto, Typed, RestTyped, Lapse
<1>6. ASSUME NEW d \in Dream, Prune(d) PROVE RestTyped'
  BY <1>6, RowFacts
  DEF Prune, Goto, Typed, RestTyped, FactRow, Says, IngestRefs, DreamRefs, TasksTyped,
      DreamsTyped, Run, Group, Active
<1>7. ASSUME NEW d \in Dream, StoreSummary(d) PROVE RestTyped'
  BY <1>7, RowFacts
  DEF StoreSummary, Typed, RestTyped, FactRow, Says, IngestRefs, DreamRefs, TasksTyped,
      DreamsTyped, Run, Group, Active
<1>8. ASSUME NEW d \in Dream, Absorb(d) PROVE RestTyped'
  <2>1. Says(dream[d].group \cap Active) \subseteq Claims
    BY RowFacts DEF Typed, Says, Active, FactRow
  <2>2. cut' \subseteq Claims BY <1>8, <2>1 DEF Absorb, Typed, RestTyped
  <2>3. QED BY <1>8, <2>2 DEF Absorb, Typed, RestTyped
<1>9. ASSUME NEW d \in Dream, AbsorbFails(d) PROVE RestTyped'
  BY <1>9, RowFacts
  DEF AbsorbFails, Typed, RestTyped, FactRow, Says, IngestRefs, DreamRefs, TasksTyped,
      DreamsTyped, Run, Group, Active
<1>10. ASSUME NEW d \in Dream, Close(d) PROVE RestTyped'
  BY <1>10 DEF Close, Goto, Typed, RestTyped, Lapse
<1>11. ASSUME NEW d \in Dream, Delete(d) PROVE RestTyped'
  BY <1>11 DEF Delete, Goto, Typed, RestTyped, Lapse
<1>12. ASSUME NEW d \in Dream, DreamDies(d) PROVE RestTyped'
  BY <1>12, RowFacts
  DEF DreamDies, Goto, Typed, RestTyped, FactRow, Says, IngestRefs, DreamRefs, TasksTyped,
      DreamsTyped, Run, Group, Active
<1>13. ASSUME ExpireNight PROVE RestTyped'
  BY <1>13 DEF ExpireNight, Typed, RestTyped, Lapse
<1>14. ASSUME ExpireIdle PROVE RestTyped'
  BY <1>14 DEF ExpireIdle, Typed, RestTyped, Lapse
<1> QED
  BY <1>1, <1>1a, <1>2, <1>3, <1>4, <1>5, <1>6, <1>7, <1>8, <1>9, <1>10, <1>11, <1>12, <1>13,
     <1>14
  DEF Next, IngestStep, DreamStep, vars, locks, history, Direct, FindGroups, FindSimilar, Goto,
      IngestDies, Raises, Release, ResolveFails, SummaryFails, Sweep, Told

-----------------------------------------------------------------------------
(* What a step does to the rows: one is added; or some cease to be active, *)
(* pruned, or superseded by a later row that says as much.                 *)

Lost == outdated \cup pruned \cup cut

Grows == outdated \subseteq outdated' /\ pruned \subseteq pruned' /\ cut \subseteq cut'

Dropped(F) ==
  /\ Retired(F) /\ Says(F) \subseteq pruned'
  /\ \A f \in Facts : fact'[f].by = fact[f].by

Replaced(F, n) ==
  /\ Retired(F) /\ \A f \in F : f < n
  /\ Says(F) \subseteq fact[n].says \cup outdated' \cup cut'
  /\ \A f \in Facts : fact'[f].by = IF f \in F THEN n ELSE fact[f].by

RowStep ==
  \/ \E C \in SUBSET Claims : NewRow(C)
  \/ \E F \in SUBSET Facts : Dropped(F)
  \/ \E F \in SUBSET Facts : \E n \in Facts : Replaced(F, n)

LEMMA RowSteps == Typed /\ IngestRefs /\ DreamRefs /\ [Next]_vars => RowStep /\ Grows
<1> SUFFICES ASSUME Typed, IngestRefs, DreamRefs, [Next]_vars PROVE RowStep /\ Grows
  OBVIOUS
<1>0. RowsTyped BY DEF Typed
<1>1. ASSUME fact' = fact, Grows PROVE RowStep /\ Grows
  <2>1. Retired({}) BY <1>0, <1>1, RowFacts DEF Retired, Facts, FactRow
  <2>2. Dropped({}) BY <2>1, <1>1 DEF Dropped, Says, Facts
  <2>3. QED BY <2>2, <1>1 DEF RowStep
<1>2. ASSUME UNCHANGED <<fact, outdated, pruned, cut>> PROVE RowStep /\ Grows
  BY <1>1, <1>2 DEF Grows
<1>3. ASSUME NEW p \in Ingest, StoreFact(p) PROVE RowStep /\ Grows
  <2>1. UNCHANGED <<outdated, pruned, cut>> BY <1>3 DEF StoreFact
  <2>2. NewRow({Claim[p]}) BY <1>0, <1>3, ToldRow DEF StoreFact
  <2>3. {Claim[p]} \in SUBSET Claims BY ClaimFacts
  <2>4. QED BY <2>1, <2>2, <2>3 DEF RowStep, Grows
<1>4. ASSUME NEW p \in Ingest, SupersedeFact(p) PROVE RowStep /\ Grows
  <2>1. PICK m, n \in Facts :
          /\ m < n /\ Retired({m}) /\ fact'[m].by = n
          /\ \A f \in Facts \ {m} : fact'[f].by = fact[f].by
          /\ Claim[p] \in fact[n].says
          /\ outdated' = outdated \cup (fact[m].says \ {Claim[p]})
    BY <1>0, <1>4, Supersedes
  <2>2. Replaced({m}, n) BY <2>1 DEF Replaced, Says
  <2>3. QED BY <1>4, <2>1, <2>2 DEF RowStep, Grows, SupersedeFact
<1>5. ASSUME NEW p \in Ingest, StoreDirectly(p) PROVE RowStep /\ Grows
  <2>1. UNCHANGED <<outdated, pruned, cut>> BY <1>5 DEF StoreDirectly
  <2>2. NewRow({Claim[p]}) BY <1>0, <1>5, ToldRow DEF StoreDirectly
  <2>3. {Claim[p]} \in SUBSET Claims BY ClaimFacts
  <2>4. QED BY <2>1, <2>2, <2>3 DEF RowStep, Grows
<1>6. ASSUME NEW d \in Dream, Prune(d) PROVE RowStep /\ Grows
  <2>1. PICK F \in SUBSET Active :
          /\ Retired(F) /\ \A f \in Facts : fact'[f].by = fact[f].by
          /\ pruned' = pruned \cup Says(F)
    BY <1>0, <1>6, Prunes
  <2>2. Dropped(F) /\ F \subseteq Facts BY <2>1 DEF Dropped, Active
  <2>3. QED BY <1>6, <2>1, <2>2 DEF RowStep, Grows, Prune
<1>7. ASSUME NEW d \in Dream, StoreSummary(d) PROVE RowStep /\ Grows
  <2>1. PICK F \in SUBSET Facts : NewRow(Says(F)) BY <1>0, <1>7, Summarises
  <2>2. Says(F) \in SUBSET Claims BY <1>0, RowFacts DEF Says, FactRow
  <2>3. QED BY <1>7, <2>1, <2>2 DEF RowStep, Grows, StoreSummary
<1>8. ASSUME NEW d \in Dream, Absorb(d) PROVE RowStep /\ Grows
  <2>1. PICK F \in SUBSET Facts : F = dream[d].group \cap Active BY DEF Active
  <2>2. PICK n \in Facts : n = dream[d].new BY <1>8 DEF Absorb, DreamRefs
  <2>3. /\ Retired(F)
        /\ \A f \in Facts : fact'[f].by = IF f \in F THEN n ELSE fact[f].by
    <3>1. n \in Nat BY <1>0, RowFacts
    <3>2. QED BY <1>0, <1>8, <2>1, <2>2, <3>1, Absorbs DEF DreamRefs
  <2>4. \A f \in F : f < n BY <1>8, <2>1, <2>2 DEF Absorb, DreamRefs
  <2>5. cut' = cut \cup (Says(F) \ fact[n].says)
    BY <1>8, <2>1, <2>2 DEF Absorb
  <2>6. Replaced(F, n) BY <2>3, <2>4, <2>5 DEF Replaced
  <2>7. QED BY <1>8, <2>5, <2>6 DEF RowStep, Grows, Absorb
<1>9. ASSUME NEW d \in Dream, Sweep(d) PROVE RowStep /\ Grows
  <2>1. Retired({}) /\ \A f \in Facts : fact'[f].by = fact[f].by
    BY <1>0, <1>9, Sweeps
  <2>2. Dropped({}) BY <2>1 DEF Dropped, Says
  <2>3. QED BY <1>9, <2>2 DEF RowStep, Grows, Sweep, history
<1> QED
  BY <1>2, <1>3, <1>4, <1>5, <1>6, <1>7, <1>8, <1>9
  DEF Next, IngestStep, DreamStep, vars, locks, history, FindSimilar, ResolveFails, IngestDies,
      Begin, EnterMaintenance, FindGroups, SummaryFails, AbsorbFails, Close, Raises, Release,
      Delete, DreamDies, ExpireNight, ExpireIdle

LEMMA RowsStay ==
  ASSUME RowsTyped, RowStep
  PROVE  /\ Facts \subseteq Facts' /\ Len(fact) <= Len(fact') /\ Len(fact') \in Nat
         /\ \A f \in Facts : fact'[f].says = fact[f].says
<1>1. Len(fact) \in Nat BY RowFacts
<1>2. CASE \E C \in SUBSET Claims : NewRow(C)
  BY <1>1, <1>2 DEF NewRow, Added
<1>3. CASE \E F \in SUBSET Facts : Dropped(F)
  BY <1>1, <1>3 DEF Dropped, Retired
<1>4. CASE \E F \in SUBSET Facts : \E n \in Facts : Replaced(F, n)
  BY <1>1, <1>4 DEF Replaced, Retired
<1>5. QED BY <1>2, <1>3, <1>4 DEF RowStep

-----------------------------------------------------------------------------
(* References *)

LEMMA IngestRefsStep == Typed /\ IngestRefs /\ DreamRefs /\ [Next]_vars => IngestRefs'
<1> SUFFICES ASSUME Typed, IngestRefs, DreamRefs, [Next]_vars PROVE IngestRefs'
  OBVIOUS
<1>0. RowsTyped /\ TasksTyped BY DEF Typed
<1>1. /\ Facts \subseteq Facts' /\ Facts = 1 .. Len(fact) /\ Len(fact) \in Nat
      /\ \A f \in Facts : fact'[f].says = fact[f].says
  BY <1>0, RowSteps, RowsStay, RowFacts
<1>2. ASSUME task' = task PROVE IngestRefs'
  BY <1>1, <1>2 DEF IngestRefs
<1>3. ASSUME NEW p \in Ingest, NEW i \in Facts' \cup {0}, Told(p) \/ Direct(p, i)
      PROVE  IngestRefs'
  BY <1>0, <1>1, <1>3 DEF IngestRefs, Told, Direct, TasksTyped
<1>4. ASSUME NEW p \in Ingest, FindSimilar(p) PROVE IngestRefs'
  <2>1. CASE Told(p) \/ Direct(p, 0) BY <1>3, <2>1
  <2>2. CASE \E m \in Similar(p) \cup {0} :
               task' = [task EXCEPT ![p].at = "found", ![p].match = m]
    <3>1. task[p].at = "idle" BY <1>4 DEF FindSimilar
    <3>2. PICK m \in Facts \cup {0} :
            task' = [task EXCEPT ![p].at = "found", ![p].match = m]
      BY <2>2 DEF Similar, Active
    <3>3. QED BY <1>0, <1>1, <3>1, <3>2 DEF IngestRefs, TasksTyped, Ingestion
  <2>3. QED BY <1>4, <2>1, <2>2 DEF FindSimilar
<1>5. ASSUME NEW p \in Ingest, StoreFact(p) PROVE IngestRefs'
  <2>1. /\ Len(fact') \in Facts' /\ Len(fact') = Len(fact) + 1
        /\ Claim[p] \in fact'[Len(fact')].says
    BY <1>0, <1>1, <1>5, ToldRow DEF StoreFact, NewRow, Added
  <2>2. CASE task[p].match = 0 BY <1>3, <1>5, <2>1, <2>2 DEF StoreFact, Settled
  <2>3. CASE task[p].match # 0
    <3>1. task[p].match \in Facts BY <1>5, <2>3 DEF StoreFact, IngestRefs
    <3>2. task' = [task EXCEPT ![p].at = "stored", ![p].mine = Len(fact')]
      BY <1>5, <2>3 DEF StoreFact
    <3>3. /\ task'[p].at = "stored" /\ task'[p].match = task[p].match
          /\ task'[p].mine = Len(fact')
          /\ \A q \in Ingest \ {p} : task'[q] = task[q]
      BY <1>0, <3>2 DEF TasksTyped, Ingestion
    <3>4. QED BY <1>1, <2>1, <3>1, <3>3 DEF IngestRefs
  <2>4. QED BY <2>2, <2>3
<1>6. ASSUME NEW p \in Ingest, SupersedeFact(p) PROVE IngestRefs'
  BY <1>1, <1>3, <1>6 DEF SupersedeFact, Settled, IngestRefs
<1>7. ASSUME NEW p \in Ingest, ResolveFails(p) PROVE IngestRefs'
  <2>1. task[p].mine \in Facts \cup {0}
    BY <1>7 DEF ResolveFails, IngestRefs
  <2>2. QED BY <1>1, <1>3, <1>7, <2>1 DEF ResolveFails
<1>8. ASSUME NEW p \in Ingest, StoreDirectly(p) PROVE IngestRefs'
  BY <1>3, <1>8 DEF StoreDirectly
<1>9. ASSUME NEW p \in Ingest, IngestDies(p) PROVE IngestRefs'
  BY <1>3, <1>9 DEF IngestDies
<1> QED
  BY <1>2, <1>4, <1>5, <1>6, <1>7, <1>8, <1>9
  DEF Next, IngestStep, DreamStep, vars, Begin, EnterMaintenance, Prune, FindGroups, StoreSummary,
      SummaryFails, Absorb, AbsorbFails, Sweep, Close, Raises, Release, Delete, DreamDies,
      ExpireNight, ExpireIdle

LEMMA DreamRefsStep == Typed /\ IngestRefs /\ DreamRefs /\ [Next]_vars => DreamRefs'
<1> SUFFICES ASSUME Typed, IngestRefs, DreamRefs, [Next]_vars PROVE DreamRefs'
  OBVIOUS
<1>0. RowsTyped /\ DreamsTyped BY DEF Typed
<1>1. /\ Facts \subseteq Facts' /\ Facts = 1 .. Len(fact) /\ Len(fact) \in Nat
  BY <1>0, RowSteps, RowsStay, RowFacts
<1>2. ASSUME dream' = dream PROVE DreamRefs'
  BY <1>1, <1>2 DEF DreamRefs
\* A run moves on, with no more groups at hand than before.
<1>3. ASSUME NEW d \in Dream, NEW r \in Run, dream' = [dream EXCEPT ![d] = r],
             r.at # "absorb", r.groups \subseteq dream[d].groups,
             r.group \subseteq dream[d].group
      PROVE  DreamRefs'
  BY <1>0, <1>1, <1>3 DEF DreamRefs, DreamsTyped
<1>4. ASSUME NEW d \in Dream, NEW where \in DreamPlaces \ {"absorb"}, Goto(d, where)
      PROVE  DreamRefs'
  <2>1. PICK r \in Run : r = dream[d] BY <1>0 DEF DreamsTyped
  <2>2. CASE where = "done"
    <3>1. dream' = [dream EXCEPT ![d] = Out] BY <1>4, <2>2 DEF Goto
    <3>2. Out \in Run BY DEF Out, Run, DreamPlaces
    <3>3. QED BY <1>3, <3>1, <3>2 DEF Out
  <2>3. CASE where # "done"
    <3>1. dream' = [dream EXCEPT ![d] = [r EXCEPT !.at = where]] BY <1>4, <2>1, <2>3 DEF Goto
    <3>2. /\ [r EXCEPT !.at = where] \in Run /\ [r EXCEPT !.at = where].at = where
          /\ [r EXCEPT !.at = where].groups = r.groups
          /\ [r EXCEPT !.at = where].group = r.group
      BY DEF Run
    <3>3. QED BY <1>3, <1>4, <2>1, <3>1, <3>2
  <2>4. QED BY <2>2, <2>3
<1>5. ASSUME NEW d \in Dream, Begin(d) PROVE DreamRefs'
  <2>1. PICK r \in Run : r = dream[d] BY <1>0 DEF DreamsTyped
  <2>2. PICK k \in Starts, w \in {"enter", "find"} :
          Goto(d, "done") \/ dream' = [dream EXCEPT ![d].kind = k, ![d].at = w]
    BY <1>5, ClaimFacts DEF Begin
  <2>3. CASE Goto(d, "done") BY <1>4, <2>3 DEF DreamPlaces
  <2>4. CASE dream' = [dream EXCEPT ![d].kind = k, ![d].at = w]
    <3>1. PICK q \in Run : q = [r EXCEPT !.kind = k, !.at = w]
      BY DEF Run, DreamPlaces
    <3>2. dream' = [dream EXCEPT ![d] = q] BY <1>0, <2>1, <2>4, <3>1 DEF DreamsTyped
    <3>3. q.at # "absorb" /\ q.groups = r.groups /\ q.group = r.group
      BY <3>1 DEF Run
    <3>4. QED BY <1>3, <2>1, <3>2, <3>3
  <2>5. QED BY <2>2, <2>3, <2>4
<1>6. ASSUME NEW d \in Dream,
             \/ EnterMaintenance(d) \/ Prune(d) \/ Sweep(d) \/ Close(d) \/ Raises(d)
             \/ Release(d) \/ Delete(d) \/ DreamDies(d)
      PROVE  DreamRefs'
  BY <1>4, <1>6
  DEF EnterMaintenance, Prune, Sweep, Close, Raises, Release, Delete, DreamDies, After, DreamPlaces
<1>7. ASSUME NEW d \in Dream, FindGroups(d) PROVE DreamRefs'
  <2>1. CASE \E w \in {"prune", "done"} : Goto(d, w) BY <1>4, <2>1 DEF DreamPlaces
  <2>2. CASE \E G \in {Grouped(d), {}} :
               dream' = [dream EXCEPT ![d].at = "merge",
                  ![d].groups = {[from |-> g, first |-> Max(Base(d, g))] : g \in G}]
    <3>1. PICK G \in SUBSET Grouped(d) :
            dream' = [dream EXCEPT ![d].at = "merge",
               ![d].groups = {[from |-> g, first |-> Max(Base(d, g))] : g \in G}]
      BY <2>2
    <3>2. PICK H : H = {[from |-> g, first |-> Max(Base(d, g))] : g \in G} OBVIOUS
    <3>3. \A g \in G : g \subseteq Facts /\ Max(Base(d, g)) \in g
      BY <3>1, GroupFacts
    <3>4. \A h \in H : h.from \subseteq Facts /\ h.first \in h.from
      BY <3>2, <3>3
    <3>5. dream' = [dream EXCEPT ![d].at = "merge", ![d].groups = H] BY <3>1, <3>2
    <3>6. QED BY <1>0, <1>1, <3>4, <3>5 DEF DreamRefs, DreamsTyped
  <2>3. QED BY <1>7, <2>1, <2>2 DEF FindGroups
<1>8. ASSUME NEW d \in Dream, StoreSummary(d) PROVE DreamRefs'
  <2>1. PICK g \in dream[d].groups :
          dream' = [dream EXCEPT ![d].at = "absorb", ![d].groups = @ \ {g},
                                 ![d].group = g.from, ![d].new = Len(fact')]
    BY <1>8 DEF StoreSummary
  <2>2. g.from \subseteq Facts BY DEF DreamRefs
  <2>3. PICK n \in Facts' : n = Len(fact') /\ n = Len(fact) + 1
    BY <1>0, <1>8, Summarises DEF NewRow, Added
  <2>4. PICK r \in Run : r = dream[d] BY <1>0 DEF DreamsTyped
  <2>5. PICK q : q = [r EXCEPT !.at = "absorb", !.groups = @ \ {g}, !.group = g.from, !.new = n]
    OBVIOUS
  <2>6. q.at = "absorb" /\ q.groups = r.groups \ {g} /\ q.group = g.from /\ q.new = n
    BY <2>5 DEF Run
  <2>7. dream' = [dream EXCEPT ![d] = q] BY <1>0, <2>1, <2>3, <2>4, <2>5 DEF DreamsTyped
  <2>8. QED BY <1>0, <1>1, <2>2, <2>3, <2>4, <2>6, <2>7 DEF DreamRefs, DreamsTyped
<1>9. ASSUME NEW d \in Dream, SummaryFails(d) PROVE DreamRefs'
  <2>1. PICK G \in SUBSET dream[d].groups : dream' = [dream EXCEPT ![d].groups = G]
    BY <1>9 DEF SummaryFails
  <2>2. PICK r \in Run : r = dream[d] BY <1>0 DEF DreamsTyped
  <2>3. [r EXCEPT !.groups = G] \in Run BY <2>1, <2>2 DEF Run
  <2>4. QED BY <1>0, <1>3, <1>9, <2>1, <2>2, <2>3 DEF SummaryFails, DreamsTyped, Run
<1>10. ASSUME NEW d \in Dream, Absorb(d) PROVE DreamRefs'
  <2>1. dream' = [dream EXCEPT ![d].at = "merge", ![d].group = {}, ![d].new = 0]
    BY <1>10 DEF Absorb
  <2>2. QED BY <1>0, <1>1, <2>1 DEF DreamRefs, DreamsTyped, Run
<1>11. ASSUME NEW d \in Dream, AbsorbFails(d) PROVE DreamRefs'
  <2>1. PICK G \in SUBSET dream[d].groups :
          dream' = [dream EXCEPT ![d].at = "merge", ![d].group = {}, ![d].new = 0,
                                 ![d].groups = G]
    BY <1>11 DEF AbsorbFails
  <2>2. QED BY <1>0, <1>1, <2>1 DEF DreamRefs, DreamsTyped, Run
<1> QED
  BY <1>2, <1>5, <1>6, <1>7, <1>8, <1>9, <1>10, <1>11
  DEF Next, IngestStep, DreamStep, vars, FindSimilar, StoreFact, SupersedeFact, ResolveFails,
      StoreDirectly, IngestDies, ExpireNight, ExpireIdle

-----------------------------------------------------------------------------
(* What is known *)

\* A claim a fact makes is still made by it or a later active one, or was
\* replaced, pruned or left out.
Remembered ==
  \A f \in Facts : \A c \in fact[f].says :
     c \in Lost \/ \E g \in Active : g >= f /\ c \in fact[g].says

LEMMA RememberedStep ==
  ASSUME RowsTyped, Remembered, RowStep, Grows
  PROVE  Remembered'
<1>0. /\ \A f \in Facts : f \in Nat /\ fact[f].active \in BOOLEAN
      /\ Lost \subseteq Lost'
  BY RowFacts DEF FactRow, Grows, Lost
<1> DEFINE Kept(f, c) == c \in Lost' \/ \E g \in Active' : g >= f /\ c \in fact'[g].says
<1>1. CASE \E C \in SUBSET Claims : NewRow(C)
  <2>1. PICK n : /\ n = Len(fact) + 1 /\ Facts' = Facts \cup {n} /\ fact'[n].active = TRUE
                 /\ \A f \in Facts : fact'[f] = fact[f]
    BY <1>1 DEF NewRow, Added
  <2>2. n \in Nat BY <2>1, RowFacts
  <2>3. Active' = Active \cup {n} BY <2>1, <1>0 DEF Active
  <2>4. ASSUME NEW f \in Facts, NEW c \in fact[f].says PROVE Kept(f, c)
    BY <1>0, <2>1, <2>3 DEF Remembered, Active
  <2>5. ASSUME NEW c \in fact'[n].says PROVE Kept(n, c)
    BY <2>2, <2>3
  <2>6. QED BY <2>1, <2>4, <2>5 DEF Remembered
<1>2. CASE \E F \in SUBSET Facts : Dropped(F)
  <2>1. PICK F \in SUBSET Facts : Retired(F) /\ Says(F) \subseteq Lost'
    BY <1>2 DEF Dropped, Lost
  <2>2. Active' = Active \ F BY <2>1, <1>0 DEF Active, Retired
  <2>3. ASSUME NEW f \in Facts, NEW c \in fact[f].says PROVE Kept(f, c)
    <3>1. CASE c \in Lost BY <1>0, <3>1
    <3>2. CASE c \notin Lost
      <4>1. PICK g \in Active : g >= f /\ c \in fact[g].says BY <3>2 DEF Remembered
      <4>2. g \in F => c \in Says(F) BY <4>1 DEF Says
      <4>3. QED BY <2>1, <2>2, <4>1, <4>2 DEF Retired, Active
    <3>3. QED BY <3>1, <3>2
  <2>4. QED BY <2>1, <2>3 DEF Remembered, Retired
<1>3. CASE \E F \in SUBSET Facts : \E n \in Facts : Replaced(F, n)
  <2>1. PICK F \in SUBSET Facts, n \in Facts :
          /\ Retired(F) /\ Says(F) \subseteq fact[n].says \cup Lost' /\ \A f \in F : f < n
    BY <1>3 DEF Replaced, Lost
  <2>2. Active' = Active \ F BY <2>1, <1>0 DEF Active, Retired
  <2>3. ASSUME NEW c \in fact[n].says PROVE Kept(n, c)
    <3>1. CASE c \in Lost BY <1>0, <3>1
    <3>2. CASE c \notin Lost
      <4>1. PICK g \in Active : g >= n /\ c \in fact[g].says BY <3>2 DEF Remembered
      <4>2. g \notin F BY <1>0, <2>1, <4>1 DEF Active
      <4>3. QED BY <2>1, <2>2, <4>1, <4>2 DEF Retired, Active
    <3>3. QED BY <3>1, <3>2
  <2>4. ASSUME NEW f \in Facts, NEW c \in fact[f].says PROVE Kept(f, c)
    <3>1. CASE c \in Lost BY <1>0, <3>1
    <3>2. CASE c \notin Lost
      <4>1. PICK g \in Active : g >= f /\ c \in fact[g].says BY <3>2 DEF Remembered
      <4>2. CASE g \notin F BY <2>1, <2>2, <4>1, <4>2 DEF Retired, Active
      <4>3. CASE g \in F
        <5>1. c \in fact[n].says \/ c \in Lost' BY <2>1, <4>1, <4>3 DEF Says
        <5>2. \A h \in Active' : h >= n => h >= f
          BY <1>0, <2>1, <2>2, <4>1, <4>3 DEF Active
        <5>3. QED BY <2>3, <5>1, <5>2
      <4>4. QED BY <4>2, <4>3
    <3>3. QED BY <3>1, <3>2
  <2>5. QED BY <2>1, <2>4 DEF Remembered, Retired
<1>4. QED BY <1>1, <1>2, <1>3 DEF RowStep

LEMMA LineageStep ==
  ASSUME RowsTyped, LineageSound, RowStep, Grows
  PROVE  LineageSound'
<1>0. /\ Len(fact) \in Nat /\ Facts = 1 .. Len(fact)
      /\ \A f \in Facts : f \in Nat /\ fact[f].by \in Nat
  BY RowFacts DEF FactRow
<1>1. CASE \E C \in SUBSET Claims : NewRow(C)
  <2>1. PICK n : /\ n = Len(fact) + 1 /\ Facts' = Facts \cup {n} /\ fact'[n].by = 0
                 /\ Len(fact') = n /\ \A f \in Facts : fact'[f] = fact[f]
    BY <1>1 DEF NewRow, Added
  <2>2. QED BY <1>0, <2>1 DEF LineageSound, Grows
<1>2. CASE \E F \in SUBSET Facts : Dropped(F)
  BY <1>0, <1>2 DEF Dropped, Retired, LineageSound, Grows
<1>3. CASE \E F \in SUBSET Facts : \E n \in Facts : Replaced(F, n)
  <2>1. PICK F \in SUBSET Facts, n \in Facts : Replaced(F, n) BY <1>3
  <2>2. ASSUME NEW f \in Facts, fact'[f].by # 0
        PROVE  /\ fact'[f].by \in f + 1 .. Len(fact)
               /\ fact[f].says \subseteq fact[fact'[f].by].says \cup outdated' \cup cut'
    <3>1. CASE f \in F
      <4>1. fact[f].says \subseteq Says(F) BY <3>1 DEF Says
      <4>2. QED BY <1>0, <2>1, <3>1, <4>1 DEF Replaced
    <3>2. CASE f \notin F
      BY <1>0, <2>1, <2>2, <3>2 DEF Replaced, LineageSound, Grows
    <3>3. QED BY <3>1, <3>2
  <2>3. QED BY <1>0, <2>1, <2>2 DEF Replaced, Retired, LineageSound
<1>4. QED BY <1>1, <1>2, <1>3 DEF RowStep

-----------------------------------------------------------------------------
(* What is believed *)

\* While a summary takes over, only its sources share a claim with it.
Heirs ==
  \A d \in Dream : dream[d].at = "absorb" /\ dream[d].new \in Active =>
    \A g \in Active \ {dream[d].new} :
      \A c \in fact[g].says \cap fact[dream[d].new].says :
         c \in Excused \/ g \in dream[d].group

\* A step adds a row with a claim that is neither said nor replaced, or excused;
\* or a summary of facts; or rows cease to be active, and summaries are done with.
Tells(p) ==
  /\ NewRow({Claim[p]}) /\ dream' = dream /\ Excused \subseteq Excused'
  /\ UNCHANGED <<outdated, raced>>
  /\ Claim[p] \in Says(Active) \cup outdated => Claim[p] \in Excused'

Sums(d, from, F) ==
  /\ NewRow(Says(F)) /\ F \subseteq from /\ from \subseteq Facts
  /\ dream[d].at = "merge" /\ from \subseteq Pending(d)
  /\ dream'[d].at = "absorb" /\ dream'[d].group = from /\ dream'[d].new = Len(fact')
  /\ \A e \in Dream \ {d} : dream'[e] = dream[e]
  /\ Excused \subseteq Excused' /\ UNCHANGED <<outdated, raced>>
  /\ \/ Says(from) \subseteq Excused'
     \/ from \subseteq Active /\ \A e \in Dream \ {d} : InHand(e) \cap from = {}

\* d is done with its summary.
Rests(F, d) ==
  \/ fact[dream[d].new].says \subseteq Excused'
  \/ dream[d].group \cap Active \subseteq F

Quiet(F) ==
  /\ Retired(F) /\ Excused \subseteq Excused'
  /\ \A d \in Dream : dream'[d].at = "absorb" => dream'[d] = dream[d]
  /\ \A d \in Dream : dream[d].at = "absorb" => dream'[d] = dream[d] \/ Rests(F, d)

\* What is replaced was in no hand, and active, or it is known to have raced.
Outdates(F) ==
  \/ UNCHANGED <<outdated, raced>>
  \/ \E m \in F :
       /\ outdated' \subseteq outdated \cup fact[m].says /\ raced \subseteq raced'
       /\ \/ fact[m].says \subseteq raced'
          \/ m \in Active /\ \A d \in Dream : m \notin InHand(d)

BeliefStep ==
  \/ \E p \in Ingest : Tells(p)
  \/ \E d \in Dream : \E from, F \in SUBSET Facts : Sums(d, from, F)
  \/ \E F \in SUBSET Facts : Quiet(F) /\ Outdates(F)

LEMMA BeliefSteps ==
  Typed /\ IngestRefs /\ DreamRefs /\ [Next]_vars => BeliefStep
<1> SUFFICES ASSUME Typed, IngestRefs, DreamRefs, [Next]_vars PROVE BeliefStep
  OBVIOUS
<1> USE DEF Excused
<1>0. RowsTyped /\ DreamsTyped BY DEF Typed
<1>1. fact' = fact => Retired({})
  BY <1>0, RowFacts DEF Retired, Facts, FactRow
\* The rows as they were, and no summary taken up or left.
<1>2. ASSUME fact' = fact, UNCHANGED <<outdated, raced>>, Excused \subseteq Excused',
             \A d \in Dream : \/ dream'[d] = dream[d]
                              \/ dream[d].at # "absorb" /\ dream'[d].at # "absorb"
      PROVE  BeliefStep
  BY <1>1, <1>2 DEF BeliefStep, Quiet, Outdates
<1>3. ASSUME UNCHANGED <<fact, dream, outdated, raced, doubled, repeated>> PROVE BeliefStep
  BY <1>2, <1>3
<1>4. ASSUME NEW p \in Ingest, StoreFact(p) PROVE BeliefStep
  <2>1. NewRow({Claim[p]}) BY <1>0, <1>4, ToldRow DEF StoreFact
  <2>2. Tells(p) BY <1>4, <2>1 DEF StoreFact, Insert, Tells
  <2>3. QED BY <2>2 DEF BeliefStep
<1>5. ASSUME NEW p \in Ingest, StoreDirectly(p) PROVE BeliefStep
  <2>1. NewRow({Claim[p]}) BY <1>0, <1>5, ToldRow DEF StoreDirectly
  <2>2. Tells(p) BY <1>5, <2>1 DEF StoreDirectly, Insert, Tells
  <2>3. QED BY <2>2 DEF BeliefStep
<1>6. ASSUME NEW p \in Ingest, SupersedeFact(p) PROVE BeliefStep
  <2>1. PICK m \in Facts :
          /\ Retired({m}) /\ outdated' = outdated \cup (fact[m].says \ {Claim[p]})
          /\ raced' = IF ~fact[m].active \/ \E d \in Dream : m \in InHand(d)
                      THEN raced \cup fact[m].says ELSE raced
    BY <1>0, <1>6, Supersedes
  <2>2. Outdates({m}) BY <2>1 DEF Outdates, Active
  <2>3. Quiet({m}) BY <1>6, <2>1 DEF SupersedeFact, Quiet
  <2>4. QED BY <2>1, <2>2, <2>3 DEF BeliefStep
<1>7. ASSUME NEW d \in Dream, Prune(d) PROVE BeliefStep
  <2>1. PICK F \in SUBSET Active : Retired(F) BY <1>0, <1>7, Prunes
  <2>2. \A e \in Dream : \/ dream'[e] = dream[e]
                         \/ dream[e].at # "absorb" /\ dream'[e].at # "absorb"
    BY <1>0, <1>7 DEF Prune, Goto, Out, DreamsTyped, Run
  <2>3. Quiet(F) /\ Outdates(F) BY <1>7, <2>1, <2>2 DEF Prune, Quiet, Outdates
  <2>4. QED BY <2>3 DEF BeliefStep, Active
<1>8. ASSUME NEW d \in Dream, Sweep(d) PROVE BeliefStep
  <2>1. Retired({}) BY <1>0, <1>8, Sweeps
  <2>2. \A e \in Dream : \/ dream'[e] = dream[e]
                         \/ dream[e].at # "absorb" /\ dream'[e].at # "absorb"
    BY <1>0, <1>8 DEF Sweep, Goto, Out, DreamsTyped, Run
  <2>3. Quiet({}) /\ Outdates({}) BY <1>8, <2>1, <2>2 DEF Sweep, Quiet, Outdates, history
  <2>4. QED BY <2>3 DEF BeliefStep
<1>9. ASSUME NEW d \in Dream, StoreSummary(d) PROVE BeliefStep
  <2>1. PICK g \in dream[d].groups : \E F \in {g.from, {g.first}} :
           /\ g.from \subseteq Facts /\ F \subseteq g.from /\ NewRow(Says(F))
           /\ dream' = [dream EXCEPT ![d].at = "absorb", ![d].groups = @ \ {g},
                                     ![d].group = g.from, ![d].new = Len(fact')]
           /\ doubled' =
                IF g.from \subseteq Active /\ \A e \in Dream \ {d} : InHand(e) \cap g.from = {}
                THEN doubled ELSE doubled \cup Says(g.from)
    BY <1>0, <1>9, Summarises
  <2>1a. PICK F \in {g.from, {g.first}} : F \subseteq g.from /\ NewRow(Says(F)) BY <2>1
  <2>2. g.from \subseteq Pending(d) BY DEF Pending
  <2>3. /\ dream'[d].at = "absorb" /\ dream'[d].group = g.from /\ dream'[d].new = Len(fact')
        /\ \A e \in Dream \ {d} : dream'[e] = dream[e]
    BY <1>0, <2>1 DEF DreamsTyped, Run
  <2>4. Sums(d, g.from, F) BY <1>9, <2>1, <2>1a, <2>2, <2>3 DEF StoreSummary, Sums
  <2>5. QED BY <2>1, <2>1a, <2>4 DEF BeliefStep
<1>10. ASSUME NEW d \in Dream, Absorb(d) PROVE BeliefStep
  <2>1. PICK F \in SUBSET Facts : F = dream[d].group \cap Active BY DEF Active
  <2>2. Retired(F)
    BY <1>0, <1>10, <2>1, Absorbs DEF DreamRefs, DreamsTyped, Run
  <2>3. dream' = [dream EXCEPT ![d].at = "merge", ![d].group = {}, ![d].new = 0]
    BY <1>10 DEF Absorb
  <2>4. \A e \in Dream \ {d} : dream'[e] = dream[e] BY <1>0, <2>3 DEF DreamsTyped
  <2>5. dream'[d].at = "merge" BY <1>0, <2>3 DEF DreamsTyped, Run
  <2>6. Quiet(F) BY <1>10, <2>1, <2>2, <2>4, <2>5 DEF Absorb, Quiet, Rests
  <2>7. Outdates(F) BY <1>10 DEF Absorb, Outdates
  <2>8. QED BY <2>1, <2>6, <2>7 DEF BeliefStep
<1>11. ASSUME NEW d \in Dream, AbsorbFails(d) PROVE BeliefStep
  <2>1. PICK G : dream' = [dream EXCEPT ![d].at = "merge", ![d].group = {}, ![d].new = 0,
                                        ![d].groups = G]
    BY <1>11 DEF AbsorbFails
  <2>2. \A e \in Dream \ {d} : dream'[e] = dream[e] BY <1>0, <2>1 DEF DreamsTyped
  <2>3. dream'[d].at = "merge" BY <1>0, <2>1 DEF DreamsTyped, Run
  <2>4. Retired({}) BY <1>1, <1>11 DEF AbsorbFails
  <2>5. Excused \subseteq Excused' /\ fact[dream[d].new].says \subseteq Excused'
    BY <1>11 DEF AbsorbFails, Says
  <2>6. Quiet({}) BY <2>2, <2>3, <2>4, <2>5 DEF Quiet, Rests
  <2>7. Outdates({}) BY <1>11 DEF AbsorbFails, Outdates
  <2>8. QED BY <2>6, <2>7 DEF BeliefStep
<1>12. ASSUME NEW d \in Dream, DreamDies(d) PROVE BeliefStep
  <2>1. dream' = [dream EXCEPT ![d] = Out] BY <1>12 DEF DreamDies, Goto
  <2>2. \A e \in Dream \ {d} : dream'[e] = dream[e] BY <1>0, <2>1 DEF DreamsTyped
  <2>3. dream'[d].at = "done" BY <1>0, <2>1 DEF DreamsTyped, Out
  <2>4. Retired({}) BY <1>1, <1>12 DEF DreamDies
  <2>5. /\ Excused \subseteq Excused'
        /\ dream[d].at = "absorb" => fact[dream[d].new].says \subseteq Excused'
    BY <1>12 DEF DreamDies, Says
  <2>6. Quiet({}) BY <2>2, <2>3, <2>4, <2>5 DEF Quiet, Rests
  <2>7. Outdates({}) BY <1>12 DEF DreamDies, Outdates
  <2>8. QED BY <2>6, <2>7 DEF BeliefStep
<1>13. ASSUME NEW d \in Dream, Begin(d) PROVE BeliefStep
  <2>1. \A e \in Dream : \/ dream'[e] = dream[e]
                         \/ dream[e].at # "absorb" /\ dream'[e].at # "absorb"
    BY <1>0, <1>13 DEF Begin, Goto, Out, DreamsTyped, Run
  <2>2. QED BY <1>2, <1>13, <2>1 DEF Begin, history
<1>14. ASSUME NEW d \in Dream,
              \/ EnterMaintenance(d) \/ Close(d) \/ Raises(d) \/ Release(d) \/ Delete(d)
       PROVE  BeliefStep
  <2>1. \A e \in Dream : \/ dream'[e] = dream[e]
                         \/ dream[e].at # "absorb" /\ dream'[e].at # "absorb"
    BY <1>0, <1>14
    DEF EnterMaintenance, Close, Raises, Release, Delete, After, Goto, Out, DreamsTyped, Run
  <2>2. QED BY <1>2, <1>14, <2>1 DEF EnterMaintenance, Close, Raises, Release, Delete, history
<1>15. ASSUME NEW d \in Dream, FindGroups(d) \/ SummaryFails(d) PROVE BeliefStep
  <2>1. \A e \in Dream : \/ dream'[e] = dream[e]
                         \/ dream[e].at # "absorb" /\ dream'[e].at # "absorb"
    BY <1>0, <1>15 DEF FindGroups, SummaryFails, Goto, Out, DreamsTyped, Run
  <2>2. QED BY <1>2, <1>15, <2>1 DEF FindGroups, SummaryFails, history
<1> QED
  BY <1>3, <1>4, <1>5, <1>6, <1>7, <1>8, <1>9, <1>10, <1>11, <1>12, <1>13, <1>14, <1>15
  DEF Next, IngestStep, DreamStep, vars, history, FindSimilar, ResolveFails, IngestDies,
      ExpireNight, ExpireIdle

Beliefs ==
  /\ Typed /\ IngestRefs /\ DreamRefs
  /\ CopiesExplained /\ Heirs /\ OutdatedStaysOut

LEMMA ActiveStep ==
  ASSUME RowsTyped
  PROVE  /\ \A C : NewRow(C) =>
              /\ Active' = Active \cup {Len(fact')} /\ Len(fact') \notin Facts
              /\ fact'[Len(fact')].says = C
              /\ \A f \in Facts : fact'[f].says = fact[f].says
         /\ \A F : Retired(F) =>
              /\ Active' = Active \ F
              /\ \A f \in Facts : fact'[f].says = fact[f].says
<1>0. /\ Facts = 1 .. Len(fact) /\ Len(fact) \in Nat
      /\ \A f \in Facts : fact[f].active \in BOOLEAN
  BY RowFacts DEF FactRow
<1>1. ASSUME NEW C, NewRow(C)
      PROVE  /\ Active' = Active \cup {Len(fact')} /\ Len(fact') \notin Facts
             /\ fact'[Len(fact')].says = C
             /\ \A f \in Facts : fact'[f].says = fact[f].says
  <2>1. PICK n : /\ n = Len(fact) + 1 /\ Len(fact') = n
                 /\ Facts' = Facts \cup {n} /\ fact'[n].says = C /\ fact'[n].active = TRUE
                 /\ \A f \in Facts : fact'[f] = fact[f]
    BY <1>1 DEF NewRow, Added
  <2>2. QED BY <1>0, <2>1 DEF Active
<1>2. ASSUME NEW F, Retired(F)
      PROVE  /\ Active' = Active \ F
             /\ \A f \in Facts : fact'[f].says = fact[f].says
  BY <1>0, <1>2 DEF Retired, Active
<1>3. QED BY <1>1, <1>2

\* Whatever shares a claim with a summary in hand is excused, or in hand too.
LEMMA SharedInHand ==
  ASSUME CopiesExplained, Heirs, NEW f \in Active, NEW g \in Active, f # g,
         NEW c \in fact[f].says \cap fact[g].says, c \notin Excused
  PROVE  \E d \in Dream : dream[d].at = "absorb" /\ f \in InHand(d) /\ g \in InHand(d)
<1>1. PICK d \in Dream : dream[d].at = "absorb" /\ dream[d].new \in {f, g}
  BY DEF CopiesExplained
<1>2. CASE dream[d].new = f
  <2>1. g \in dream[d].group BY <1>1, <1>2 DEF Heirs
  <2>2. QED BY <1>1, <1>2, <2>1 DEF InHand
<1>3. CASE dream[d].new = g
  <2>1. f \in dream[d].group BY <1>1, <1>3 DEF Heirs
  <2>2. QED BY <1>1, <1>3, <2>1 DEF InHand
<1>4. QED BY <1>1, <1>2, <1>3

LEMMA TellsStep ==
  ASSUME Beliefs, NEW p \in Ingest, Tells(p)
  PROVE  CopiesExplained' /\ Heirs' /\ OutdatedStaysOut'
<1>1. PICK h : h = Len(fact') OBVIOUS
<1>2. /\ Active' = Active \cup {h} /\ h \notin Facts /\ fact'[h].says = {Claim[p]}
      /\ \A f \in Facts : fact'[f].says = fact[f].says
  BY <1>1, ActiveStep DEF Tells, Beliefs, Typed
<1>3. /\ dream' = dream /\ Excused \subseteq Excused' /\ UNCHANGED <<outdated, raced>>
      /\ Claim[p] \in Says(Active) \cup outdated => Claim[p] \in Excused'
  BY DEF Tells
<1>4. Active \subseteq Facts BY DEF Active
<1>5. \A f \in Active : \A c \in fact[f].says : c \in Says(Active) BY DEF Says
\* The new row shares nothing that is not excused.
<1>6. ASSUME NEW f \in Active, NEW c \in fact'[f].says \cap fact'[h].says
      PROVE  c \in Excused'
  BY <1>2, <1>3, <1>4, <1>5, <1>6
<1>7. CopiesExplained'
  <2>1. ASSUME NEW f \in Active', NEW g \in Active', f # g,
               NEW c \in fact'[f].says \cap fact'[g].says
        PROVE  \/ c \in Excused'
               \/ \E d \in Dream : dream'[d].at = "absorb" /\ dream'[d].new \in {f, g}
    <3>1. CASE f = h \/ g = h BY <1>2, <1>6, <2>1, <3>1
    <3>2. CASE f # h /\ g # h
      <4>1. c \in Excused \/ \E d \in Dream : dream[d].at = "absorb" /\ dream[d].new \in {f, g}
        BY <1>2, <1>4, <2>1, <3>2 DEF Beliefs, CopiesExplained
      <4>2. QED BY <1>3, <4>1
    <3>3. QED BY <3>1, <3>2
  <2>2. QED BY <2>1 DEF CopiesExplained
<1>8. Heirs'
  <2>1. ASSUME NEW d \in Dream, dream'[d].at = "absorb", dream'[d].new \in Active',
               NEW g \in Active' \ {dream'[d].new},
               NEW c \in fact'[g].says \cap fact'[dream'[d].new].says
        PROVE  c \in Excused' \/ g \in dream'[d].group
    <3>1. dream[d].new \in Facts /\ dream[d].new \in Active
      BY <1>2, <1>3, <2>1 DEF Beliefs, DreamRefs
    <3>2. CASE g = h BY <1>3, <1>6, <2>1, <3>1, <3>2
    <3>3. CASE g # h
      BY <1>2, <1>3, <1>4, <2>1, <3>1, <3>3 DEF Beliefs, Heirs
    <3>4. QED BY <3>2, <3>3
  <2>2. QED BY <2>1 DEF Heirs
<1>9. OutdatedStaysOut'
  <2>1. ASSUME NEW f \in Active', NEW c \in fact'[f].says, c \in outdated'
        PROVE  c \in raced' \cup Excused'
    <3>1. CASE f = h BY <1>2, <1>3, <2>1, <3>1 DEF Beliefs
    <3>2. CASE f # h
      <4>1. c \in Says(Active) BY <1>2, <1>4, <2>1, <3>2 DEF Says
      <4>2. QED BY <1>3, <2>1, <4>1 DEF Beliefs, OutdatedStaysOut
    <3>3. QED BY <3>1, <3>2
  <2>2. QED BY <2>1 DEF OutdatedStaysOut, Says
<1>10. QED BY <1>7, <1>8, <1>9

LEMMA QuietStep ==
  ASSUME Beliefs, NEW F \in SUBSET Facts, Quiet(F), Outdates(F)
  PROVE  CopiesExplained' /\ Heirs' /\ OutdatedStaysOut'
<1>2. /\ Active' = Active \ F /\ Active \subseteq Facts
      /\ \A f \in Facts : fact'[f].says = fact[f].says
  BY ActiveStep DEF Quiet, Beliefs, Typed, Active
<1>3. /\ Excused \subseteq Excused'
      /\ \A d \in Dream : dream'[d].at = "absorb" => dream'[d] = dream[d]
      /\ \A d \in Dream : dream[d].at = "absorb" => dream'[d] = dream[d] \/ Rests(F, d)
  BY DEF Quiet
<1>4. CopiesExplained'
  <2>1. ASSUME NEW f \in Active', NEW g \in Active', f # g,
               NEW c \in fact'[f].says \cap fact'[g].says, c \notin Excused'
        PROVE  \E d \in Dream : dream'[d].at = "absorb" /\ dream'[d].new \in {f, g}
    <3>1. /\ f \in Active /\ g \in Active /\ c \in fact[f].says \cap fact[g].says
          /\ c \notin Excused
      BY <1>2, <1>3, <2>1
    <3>2. PICK d \in Dream : dream[d].at = "absorb" /\ dream[d].new \in {f, g}
      BY <2>1, <3>1 DEF Beliefs, CopiesExplained
    <3>3. ~Rests(F, d)
      <4>1. fact[dream[d].new].says \subseteq Excused' => c \in Excused'
        BY <3>1, <3>2
      <4>2. CASE dream[d].new = f
        <5>1. g \in dream[d].group BY <2>1, <3>1, <3>2, <4>2 DEF Beliefs, Heirs
        <5>2. QED BY <1>2, <2>1, <3>1, <4>1, <5>1 DEF Rests
      <4>3. CASE dream[d].new = g
        <5>1. f \in dream[d].group BY <2>1, <3>1, <3>2, <4>3 DEF Beliefs, Heirs
        <5>2. QED BY <1>2, <2>1, <3>1, <4>1, <5>1 DEF Rests
      <4>4. QED BY <3>2, <4>2, <4>3
    <3>4. QED BY <1>3, <3>2, <3>3
  <2>2. QED BY <2>1 DEF CopiesExplained
<1>5. Heirs'
  BY <1>2, <1>3 DEF Beliefs, Heirs
<1>6. ASSUME UNCHANGED <<outdated, raced>> PROVE OutdatedStaysOut'
  <2>1. Says(Active)' \subseteq Says(Active) BY <1>2 DEF Says
  <2>2. QED BY <1>2, <1>3, <1>6, <2>1 DEF Beliefs, OutdatedStaysOut
<1>7. ASSUME NEW m \in F, outdated' \subseteq outdated \cup fact[m].says, raced \subseteq raced',
             \/ fact[m].says \subseteq raced'
             \/ m \in Active /\ \A d \in Dream : m \notin InHand(d)
      PROVE  OutdatedStaysOut'
  <2>1. ASSUME NEW f \in Active', NEW c \in fact'[f].says, c \in outdated'
        PROVE  c \in raced' \cup Excused'
    <3>1. f \in Active /\ c \in fact[f].says /\ f # m BY <1>2, <2>1
    <3>2. CASE c \in outdated
      BY <1>3, <1>7, <3>1, <3>2 DEF Beliefs, OutdatedStaysOut, Says
    <3>3. CASE c \in fact[m].says
      <4>1. CASE fact[m].says \subseteq raced' BY <3>3, <4>1
      <4>2. CASE m \in Active /\ \A d \in Dream : m \notin InHand(d)
        <5>1. c \in Excused BY <3>1, <3>3, <4>2, SharedInHand DEF Beliefs
        <5>2. QED BY <1>3, <5>1
      <4>3. QED BY <1>7, <4>1, <4>2
    <3>4. QED BY <1>7, <2>1, <3>2, <3>3
  <2>2. QED BY <2>1 DEF OutdatedStaysOut, Says
<1>8. QED BY <1>4, <1>5, <1>6, <1>7 DEF Outdates

LEMMA SumsStep ==
  ASSUME Beliefs, NEW d \in Dream, NEW from \in SUBSET Facts, NEW F \in SUBSET Facts,
         Sums(d, from, F)
  PROVE  CopiesExplained' /\ Heirs' /\ OutdatedStaysOut'
<1>1. PICK h : h = Len(fact') OBVIOUS
<1>2. /\ Active' = Active \cup {h} /\ h \notin Facts /\ fact'[h].says = Says(F)
      /\ Active \subseteq Facts /\ \A f \in Facts : fact'[f].says = fact[f].says
  BY <1>1, ActiveStep DEF Sums, Beliefs, Typed, Active
<1>3. /\ F \subseteq from /\ dream[d].at = "merge"
      /\ dream'[d].at = "absorb" /\ dream'[d].group = from /\ dream'[d].new = h
      /\ \A e \in Dream \ {d} : dream'[e] = dream[e]
      /\ Excused \subseteq Excused' /\ UNCHANGED <<outdated, raced>>
  BY <1>1 DEF Sums
\* What the summary says is excused, or its sources are active and in no other hand.
<1>4. \/ Says(F) \subseteq Excused'
      \/ from \subseteq Active /\ \A e \in Dream \ {d} : InHand(e) \cap from = {}
  <2>1. Says(F) \subseteq Says(from) BY <1>3 DEF Says
  <2>2. \/ Says(from) \subseteq Excused'
        \/ from \subseteq Active /\ \A e \in Dream \ {d} : InHand(e) \cap from = {}
    BY DEF Sums
  <2>3. CASE Says(from) \subseteq Excused' BY <2>1, <2>3
  <2>4. QED BY <2>2, <2>3
<1>5. CopiesExplained'
  <2>1. ASSUME NEW f \in Active', NEW g \in Active', f # g,
               NEW c \in fact'[f].says \cap fact'[g].says
        PROVE  \/ c \in Excused'
               \/ \E e \in Dream : dream'[e].at = "absorb" /\ dream'[e].new \in {f, g}
    <3>1. CASE f = h \/ g = h BY <1>3, <3>1
    <3>2. CASE f # h /\ g # h
      <4>1. c \in Excused \/ \E e \in Dream : dream[e].at = "absorb" /\ dream[e].new \in {f, g}
        BY <1>2, <2>1, <3>2 DEF Beliefs, CopiesExplained
      <4>2. QED BY <1>3, <4>1
    <3>3. QED BY <3>1, <3>2
  <2>2. QED BY <2>1 DEF CopiesExplained
\* An active fact that shares a claim with a source is a source.
<1>6. ASSUME NEW g \in Active, NEW f \in F, NEW c \in fact[g].says \cap fact[f].says,
             from \subseteq Active, \A e \in Dream \ {d} : InHand(e) \cap from = {}
      PROVE  c \in Excused \/ g = f
  <2>1. SUFFICES ASSUME g # f, c \notin Excused PROVE FALSE OBVIOUS
  <2>2. f \in Active /\ f \in from BY <1>3, <1>6
  <2>3. PICK e \in Dream : dream[e].at = "absorb" /\ f \in InHand(e)
    BY <2>1, <2>2, SharedInHand DEF Beliefs
  <2>4. e # d BY <1>3, <2>3
  <2>5. QED BY <1>6, <2>2, <2>3, <2>4
<1>7. Heirs'
  <2>1. ASSUME NEW e \in Dream, dream'[e].at = "absorb", dream'[e].new \in Active',
               NEW g \in Active' \ {dream'[e].new},
               NEW c \in fact'[g].says \cap fact'[dream'[e].new].says, c \notin Excused'
        PROVE  g \in dream'[e].group
    <3>1. CASE e = d
      <4>1. g \in Active /\ c \in fact[g].says /\ c \in Says(F)
        BY <1>2, <1>3, <2>1, <3>1
      <4>2. PICK f \in F : c \in fact[f].says BY <4>1 DEF Says
      <4>3. g = f BY <1>3, <1>4, <1>6, <2>1, <4>1, <4>2
      <4>4. QED BY <1>3, <3>1, <4>3
    <3>2. CASE e # d
      <4>1. PICK n \in Active : n = dream[e].new /\ n \in InHand(e)
        BY <1>2, <1>3, <2>1, <3>2 DEF Beliefs, DreamRefs, InHand
      <4>2. CASE g = h
        <5>1. c \in fact[n].says /\ c \in Says(F) BY <1>2, <1>3, <2>1, <3>2, <4>1, <4>2
        <5>2. PICK f \in F : c \in fact[f].says BY <5>1 DEF Says
        <5>3. n = f BY <1>3, <1>4, <1>6, <2>1, <4>1, <5>1, <5>2
        <5>4. n \in InHand(e) \cap from BY <1>3, <4>1, <5>3
        <5>5. QED BY <1>4, <2>1, <3>2, <5>1, <5>4
      <4>3. CASE g # h
        BY <1>2, <1>3, <2>1, <3>2, <4>1, <4>3 DEF Beliefs, Heirs
      <4>4. QED BY <4>2, <4>3
    <3>3. QED BY <3>1, <3>2
  <2>2. QED BY <2>1 DEF Heirs
<1>8. OutdatedStaysOut'
  <2>1. ASSUME NEW f \in Active', NEW c \in fact'[f].says, c \in outdated'
        PROVE  c \in raced' \cup Excused'
    <3>1. CASE c \in Says(Active)
      BY <1>3, <2>1, <3>1 DEF Beliefs, OutdatedStaysOut
    <3>2. CASE c \notin Says(Active)
      <4>1. f = h /\ c \in Says(F) BY <1>2, <2>1, <3>2 DEF Says
      <4>2. QED BY <1>3, <1>4, <3>2, <4>1 DEF Says
    <3>3. QED BY <3>1, <3>2
  <2>2. QED BY <2>1 DEF OutdatedStaysOut, Says
<1>9. QED BY <1>5, <1>7, <1>8

LEMMA BeliefsKept ==
  ASSUME Beliefs, [Next]_vars
  PROVE  CopiesExplained' /\ Heirs' /\ OutdatedStaysOut'
<1>1. BeliefStep BY BeliefSteps DEF Beliefs
<1>2. QED BY <1>1, TellsStep, QuietStep, SumsStep DEF BeliefStep

-----------------------------------------------------------------------------
(* The locks *)

\* Where a run can be says what started it.
RightPlace == \A d \in Dream :
  /\ dream[d].at \in {"enter", "close"} => Full(d)
  /\ dream[d].at = "prune" => Full(d) \/ Dreaming(d)
  /\ dream[d].at \in {"release", "delete"} => Dreaming(d)

\* Until it lapses, a lock is held by whoever does what it guards.
NightHeld == "night" \notin lapsed => \A d \in Dream : Maintaining(d) => night = d
IdleHeld == "idle" \notin lapsed => \A d \in Dream : Autodreaming(d) => idle = d

Locked == DreamsTyped /\ RestTyped /\ RightPlace /\ NightHeld /\ IdleHeld

\* A run goes on to where, under the same kind.
Moved(d, where) ==
  /\ dream'[d].at = where /\ (where # "done" => dream'[d].kind = dream[d].kind)
  /\ \A e \in Dream \ {d} : dream'[e] = dream[e]

LEMMA GotoMoves ==
  ASSUME DreamsTyped, NEW d \in Dream
  PROVE  \A where \in DreamPlaces : Goto(d, where) => Moved(d, where)
<1>1. PICK r \in Run : r = dream[d] BY DEF DreamsTyped
<1>2. ASSUME NEW where \in DreamPlaces, Goto(d, where) PROVE Moved(d, where)
  <2>1. CASE where = "done" BY <1>2, <2>1 DEF Goto, Moved, DreamsTyped, Out
  <2>2. CASE where # "done"
    <3>1. dream' = [dream EXCEPT ![d] = [r EXCEPT !.at = where]] BY <1>1, <1>2, <2>2 DEF Goto
    <3>2. [r EXCEPT !.at = where].at = where /\ [r EXCEPT !.at = where].kind = r.kind
      BY DEF Run
    <3>3. QED BY <1>1, <3>1, <3>2 DEF Moved, DreamsTyped
  <2>3. QED BY <2>1, <2>2
<1>3. QED BY <1>2

LEMMA LockedStep ==
  ASSUME Locked, DreamsTyped', RestTyped', [Next]_vars
  PROVE  RightPlace' /\ NightHeld' /\ IdleHeld'
<1>0. /\ DreamsTyped /\ Nobody \notin Dream /\ lapsed \subseteq {"night", "idle"}
      /\ \A d \in Dream : After(d) = (IF Dreaming(d) THEN "release" ELSE "done")
  BY ClaimFacts DEF Locked, RestTyped, After
<1>1. ASSUME dream' = dream, UNCHANGED locks PROVE RightPlace' /\ NightHeld' /\ IdleHeld'
  BY <1>1 DEF Locked, RightPlace, NightHeld, IdleHeld, locks, Maintaining, Autodreaming, Full,
              Dreaming
\* A run moves, is guarded by nothing it was not guarded by, and the locks stay.
<1>2. ASSUME NEW d \in Dream, NEW w \in DreamPlaces, Moved(d, w), UNCHANGED locks,
             Maintaining(d)' => Maintaining(d), Autodreaming(d)' => Autodreaming(d),
             RightPlace'
      PROVE  RightPlace' /\ NightHeld' /\ IdleHeld'
  <2>1. \A e \in Dream \ {d} : /\ Maintaining(e)' = Maintaining(e)
                               /\ Autodreaming(e)' = Autodreaming(e)
    BY <1>2 DEF Moved, Maintaining, Autodreaming, Full, Dreaming
  <2>2. QED BY <1>2, <2>1 DEF Locked, NightHeld, IdleHeld, locks
<1>3. ASSUME NEW d \in Dream, NEW w \in DreamPlaces, Moved(d, w),
             /\ w \in {"enter", "close"} => Full(d)
             /\ w = "prune" => Full(d) \/ Dreaming(d)
             /\ w \in {"release", "delete"} => Dreaming(d)
      PROVE  RightPlace'
  BY <1>3 DEF Locked, RightPlace, Moved, Full, Dreaming
<1>4. ASSUME NEW d \in Dream, Begin(d) PROVE RightPlace' /\ NightHeld' /\ IdleHeld'
  <2>1. CASE Goto(d, "done") /\ UNCHANGED locks
    <3>1. Moved(d, "done") BY <1>0, <2>1, GotoMoves DEF DreamPlaces
    <3>2. ~Maintaining(d)' /\ ~Autodreaming(d)'
      BY <3>1 DEF Moved, Maintaining, Autodreaming
    <3>3. RightPlace' BY <1>3, <3>1 DEF DreamPlaces
    <3>4. QED BY <1>2, <2>1, <3>1, <3>2, <3>3 DEF DreamPlaces
  <2>2. ASSUME NEW k \in Starts, NEW w \in {"enter", "find"},
               w = IF k \in {"nightly", "deep"} THEN "enter" ELSE "find",
               dream' = [dream EXCEPT ![d].kind = k, ![d].at = w], night' = night,
               lapsed \subseteq lapsed',
               k \in {"light", "deep"} => "idle" \in lapsed' \/ (idle = Nobody /\ idle' = d),
               k \notin {"light", "deep"} => idle' = idle
        PROVE  RightPlace' /\ NightHeld' /\ IdleHeld'
    <3>1. /\ dream'[d].kind = k /\ dream'[d].at = w
          /\ \A e \in Dream \ {d} : dream'[e] = dream[e]
      BY <1>0, <2>2 DEF DreamsTyped, Run
    <3>2. RightPlace' BY <2>2, <3>1 DEF Locked, RightPlace, Full, Dreaming
    <3>3. NightHeld' BY <2>2, <3>1 DEF Locked, NightHeld, Maintaining, Full
    <3>4. IdleHeld' BY <1>0, <2>2, <3>1 DEF Locked, IdleHeld, Autodreaming, Dreaming
    <3>5. QED BY <3>2, <3>3, <3>4
  <2>3. PICK k \in Starts, w \in {"enter", "find"} :
          /\ w = IF k \in {"nightly", "deep"} THEN "enter" ELSE "find"
          /\ night' = night /\ lapsed \subseteq lapsed'
          /\ \/ /\ dream' = [dream EXCEPT ![d].kind = k, ![d].at = w]
                /\ k \in {"light", "deep"} => "idle" \in lapsed' \/ (idle = Nobody /\ idle' = d)
                /\ k \notin {"light", "deep"} => idle' = idle
             \/ Goto(d, "done") /\ UNCHANGED locks
    <3>1. PICK k \in Kinds[d] :
            LET next == IF k \in {"nightly", "deep"} THEN "enter" ELSE "find"
                enter(where) == dream' = [dream EXCEPT ![d].kind = k, ![d].at = where]
            IN \/ k \notin {"light", "deep"} /\ enter(next) /\ UNCHANGED <<idle, lapsed>>
               \/ k \in {"light", "deep"} /\ idle = Nobody /\ idle' = d
                  /\ enter(next) /\ UNCHANGED lapsed
               \/ k \in {"light", "deep"} /\ idle # Nobody
                  /\ Goto(d, "done") /\ UNCHANGED <<idle, lapsed>>
               \/ k \in {"light", "deep"} /\ Lapse("idle")
                  /\ enter(next) /\ UNCHANGED idle
      BY <1>4 DEF Begin
    <3>2. k \in Starts /\ night' = night BY <1>4, ClaimFacts DEF Begin
    <3>3. PICK w \in {"enter", "find"} :
            w = IF k \in {"nightly", "deep"} THEN "enter" ELSE "find"
      OBVIOUS
    <3>4. CASE Goto(d, "done") /\ UNCHANGED <<idle, lapsed>>
      BY <3>2, <3>3, <3>4 DEF locks
    <3>5. CASE ~(Goto(d, "done") /\ UNCHANGED <<idle, lapsed>>)
      <4>1. dream' = [dream EXCEPT ![d].kind = k, ![d].at = w] BY <3>1, <3>3, <3>5
      <4>2. lapsed \subseteq lapsed' BY <3>1, <3>5 DEF Lapse
      <4>3. k \in {"light", "deep"} => "idle" \in lapsed' \/ (idle = Nobody /\ idle' = d)
        BY <3>1, <3>5 DEF Lapse
      <4>4. k \notin {"light", "deep"} => idle' = idle BY <3>1, <3>5
      <4>5. QED BY <3>2, <3>3, <4>1, <4>2, <4>3, <4>4
    <3>6. QED BY <3>4, <3>5
  <2>4. QED BY <2>1, <2>2, <2>3
<1>5. ASSUME NEW d \in Dream, EnterMaintenance(d)
      PROVE  RightPlace' /\ NightHeld' /\ IdleHeld'
  <2>1. PICK w \in {"prune", "release", "done"} :
          /\ Goto(d, w) /\ (w = "release" => Dreaming(d))
          /\ \/ night = Nobody /\ night' = d /\ w = "prune" /\ UNCHANGED lapsed
             \/ w # "prune" /\ UNCHANGED <<night, lapsed>>
             \/ "night" \in lapsed' /\ lapsed \subseteq lapsed' /\ w = "prune"
    BY <1>0, <1>5 DEF EnterMaintenance, Lapse
  <2>2. Moved(d, w) BY <1>0, <2>1, GotoMoves DEF DreamPlaces
  <2>3. Full(d) /\ dream[d].at = "enter" BY <1>5 DEF EnterMaintenance, Locked, RightPlace
  <2>4. RightPlace' BY <1>3, <2>1, <2>2, <2>3 DEF DreamPlaces
  <2>5. NightHeld'
    BY <1>0, <2>1, <2>2, <2>3 DEF Locked, NightHeld, Maintaining, Moved, Full
  <2>6. idle' = idle /\ lapsed \subseteq lapsed' BY <1>5 DEF EnterMaintenance, Lapse
  <2>7. IdleHeld'
    BY <2>1, <2>2, <2>3, <2>6 DEF Locked, IdleHeld, Autodreaming, Moved, Dreaming
  <2>8. QED BY <2>4, <2>5, <2>7
<1>6. ASSUME NEW d \in Dream, Prune(d) \/ Raises(d) \/ Sweep(d) \/ Release(d) \/ DreamDies(d)
      PROVE  RightPlace' /\ NightHeld' /\ IdleHeld'
  <2>1. PICK w \in DreamPlaces :
          /\ Goto(d, w) /\ UNCHANGED locks /\ dream[d].at \notin {"idle", "done"}
          /\ w = "find" => dream[d].at = "prune"
          /\ w = "close" => dream[d].at = "merge" /\ Full(d)
          /\ w = "prune" => Dreaming(d) /\ ~Full(d)
          /\ w \in {"release", "delete"} => Dreaming(d)
          /\ w \notin {"enter", "idle", "merge", "absorb"}
    BY <1>0, <1>6
    DEF Prune, Raises, Sweep, Release, DreamDies, DreamPlaces, Locked, RightPlace
  <2>2. Moved(d, w) BY <1>0, <2>1, GotoMoves
  <2>3. RightPlace' BY <1>3, <2>1, <2>2
  <2>4. Maintaining(d)' => Maintaining(d)
    BY <2>1, <2>2 DEF Moved, Maintaining, Full
  <2>5. Autodreaming(d)' => Autodreaming(d)
    BY <2>1, <2>2 DEF Moved, Autodreaming, Dreaming
  <2>6. QED BY <1>2, <2>1, <2>2, <2>3, <2>4, <2>5
<1>7. ASSUME NEW d \in Dream,
             \/ FindGroups(d) \/ StoreSummary(d) \/ SummaryFails(d) \/ Absorb(d) \/ AbsorbFails(d)
      PROVE  RightPlace' /\ NightHeld' /\ IdleHeld'
  <2>1. PICK w \in {"prune", "done", "merge", "absorb"} :
          /\ Moved(d, w) /\ UNCHANGED locks /\ (w = "prune" => Dreaming(d) /\ ~Full(d))
          /\ dream[d].at \in {"find", "merge", "absorb"}
    <3>1. CASE \E w \in {"prune", "done"} :
                 /\ FindGroups(d) /\ Goto(d, w) /\ (w = "prune" => Dreaming(d) /\ ~Full(d))
      BY <1>0, <3>1, GotoMoves DEF DreamPlaces, FindGroups
    <3>2. CASE \E G : FindGroups(d) /\ dream' = [dream EXCEPT ![d].at = "merge", ![d].groups = G]
      <4>1. Moved(d, "merge") BY <1>0, <3>2 DEF Moved, DreamsTyped, Run
      <4>2. QED BY <3>2, <4>1 DEF FindGroups
    <3>3. FindGroups(d) => \/ \E w \in {"prune", "done"} :
                                Goto(d, w) /\ (w = "prune" => Dreaming(d) /\ ~Full(d))
                           \/ \E G : dream' = [dream EXCEPT ![d].at = "merge", ![d].groups = G]
      BY DEF FindGroups, Enough
    <3>4. CASE StoreSummary(d)
      <4>1. PICK G, H, n : dream' = [dream EXCEPT ![d].at = "absorb", ![d].groups = G,
                                                  ![d].group = H, ![d].new = n]
        BY <3>4 DEF StoreSummary
      <4>2. Moved(d, "absorb") BY <1>0, <4>1 DEF Moved, DreamsTyped, Run
      <4>3. QED BY <3>4, <4>2 DEF StoreSummary
    <3>5. CASE SummaryFails(d)
      <4>1. PICK G : dream' = [dream EXCEPT ![d].groups = G] BY <3>5 DEF SummaryFails
      <4>2. Moved(d, "merge") BY <1>0, <3>5, <4>1 DEF Moved, DreamsTyped, Run, SummaryFails
      <4>3. QED BY <3>5, <4>2 DEF SummaryFails
    <3>6. CASE Absorb(d)
      <4>1. dream' = [dream EXCEPT ![d].at = "merge", ![d].group = {}, ![d].new = 0]
        BY <3>6 DEF Absorb
      <4>2. Moved(d, "merge") BY <1>0, <4>1 DEF Moved, DreamsTyped, Run
      <4>3. QED BY <3>6, <4>2 DEF Absorb
    <3>7. CASE AbsorbFails(d)
      <4>1. PICK G : dream' = [dream EXCEPT ![d].at = "merge", ![d].group = {}, ![d].new = 0,
                                            ![d].groups = G]
        BY <3>7 DEF AbsorbFails
      <4>2. Moved(d, "merge") BY <1>0, <4>1 DEF Moved, DreamsTyped, Run
      <4>3. QED BY <3>7, <4>2 DEF AbsorbFails
    <3>8. QED BY <1>7, <3>1, <3>2, <3>3, <3>4, <3>5, <3>6, <3>7
  <2>2. RightPlace' BY <1>3, <2>1 DEF DreamPlaces
  <2>3. Maintaining(d)' => Maintaining(d) BY <2>1 DEF Moved, Maintaining, Full
  <2>4. Autodreaming(d)' => Autodreaming(d) BY <2>1 DEF Moved, Autodreaming, Dreaming
  <2>5. QED BY <1>2, <2>1, <2>2, <2>3, <2>4 DEF DreamPlaces
<1>8. ASSUME NEW d \in Dream, Close(d) PROVE RightPlace' /\ NightHeld' /\ IdleHeld'
  <2>1. PICK w \in {"release", "done"} :
          /\ Goto(d, w) /\ (w = "release" => Dreaming(d))
          /\ UNCHANGED <<idle, lapsed>> /\ dream[d].at = "close"
    BY <1>0, <1>8 DEF Close
  <2>2. Moved(d, w) BY <1>0, <2>1, GotoMoves DEF DreamPlaces
  <2>3. RightPlace' BY <1>3, <2>1, <2>2 DEF DreamPlaces
  <2>4. Maintaining(d) BY <2>1 DEF Locked, RightPlace, Maintaining
  <2>5. \A e \in Dream \ {d} : Maintaining(e)' => Maintaining(e)
    BY <2>2 DEF Moved, Maintaining, Full
  <2>6. ~Maintaining(d)' BY <2>2 DEF Moved, Maintaining
  <2>7. NightHeld' BY <2>1, <2>4, <2>5, <2>6 DEF Locked, NightHeld
  <2>8. IdleHeld' BY <2>1, <2>2 DEF Locked, IdleHeld, Autodreaming, Moved, Dreaming
  <2>9. QED BY <2>3, <2>7, <2>8
<1>9. ASSUME NEW d \in Dream, Delete(d) PROVE RightPlace' /\ NightHeld' /\ IdleHeld'
  <2>1. /\ Goto(d, "done") /\ UNCHANGED <<night, lapsed>> /\ dream[d].at = "delete"
    BY <1>9 DEF Delete
  <2>2. Moved(d, "done") BY <1>0, <2>1, GotoMoves DEF DreamPlaces
  <2>3. RightPlace' BY <1>3, <2>2 DEF DreamPlaces
  <2>4. Autodreaming(d) BY <2>1 DEF Locked, RightPlace, Autodreaming
  <2>5. \A e \in Dream : Autodreaming(e)' => Autodreaming(e) /\ e # d
    BY <2>2 DEF Moved, Autodreaming, Dreaming
  <2>6. IdleHeld' BY <2>1, <2>4, <2>5 DEF Locked, IdleHeld
  <2>7. NightHeld' BY <2>1, <2>2 DEF Locked, NightHeld, Maintaining, Moved, Full
  <2>8. QED BY <2>3, <2>6, <2>7
<1>10. ASSUME ExpireNight PROVE RightPlace' /\ NightHeld' /\ IdleHeld'
  BY <1>0, <1>10 DEF ExpireNight, Lapse, Locked, RestTyped, RightPlace, NightHeld, IdleHeld,
                     Maintaining, Autodreaming, Full, Dreaming
<1>11. ASSUME ExpireIdle PROVE RightPlace' /\ NightHeld' /\ IdleHeld'
  BY <1>0, <1>11 DEF ExpireIdle, Lapse, Locked, RestTyped, RightPlace, NightHeld, IdleHeld,
                     Maintaining, Autodreaming, Full, Dreaming
<1> QED
  BY <1>1, <1>4, <1>5, <1>6, <1>7, <1>8, <1>9, <1>10, <1>11
  DEF Next, IngestStep, DreamStep, vars, FindSimilar, StoreFact, SupersedeFact, ResolveFails,
      StoreDirectly, IngestDies

\* Whoever holds a lock is one.
LEMMA OneHolder ==
  ASSUME NEW S, NEW x, S \subseteq {x}
  PROVE  Cardinality(S) <= 1
<1>1. S = {} \/ S = {x} OBVIOUS
<1>2. Cardinality({}) = 0 BY FS_EmptySet
<1>3. Cardinality({x}) = 1 BY FS_Singleton
<1>4. QED BY <1>1, <1>2, <1>3

-----------------------------------------------------------------------------
(* The invariant *)

MemoryInv ==
  /\ Beliefs /\ Remembered /\ LineageSound
  /\ RightPlace /\ NightHeld /\ IdleHeld

LEMMA InitInv == Init => MemoryInv
<1> SUFFICES ASSUME Init PROVE MemoryInv
  OBVIOUS
<1>1. Given \in Seq(Claims)
  BY MemoryAssumption
<1>2. PICK n \in Nat : n = Len(Given) /\ DOMAIN Given = 1 .. n BY <1>1
<1>3. /\ DOMAIN fact = 1 .. n
      /\ \A i \in 1 .. n : /\ fact[i] \in FactRow /\ fact[i].says = {Given[i]}
                           /\ fact[i].active = TRUE /\ fact[i].by = 0
  <2>1. ASSUME NEW i \in 1 .. n
        PROVE  /\ fact[i] \in FactRow /\ fact[i].says = {Given[i]}
               /\ fact[i].active = TRUE /\ fact[i].by = 0
    <3>1. Given[i] \in Claims BY <1>1, <1>2
    <3>2. PICK r : r = Row({Given[i]}, Given[i] \in Decisions) /\ fact[i] = r
      BY <1>2 DEF Init
    <3>3. QED BY <3>1, <3>2 DEF Row, FactRow
  <2>2. QED BY <1>2, <2>1 DEF Init
<1>4. RowsTyped
  <2>1. fact \in [1 .. n -> FactRow] BY <1>2, <1>3 DEF Init
  <2>2. QED BY <2>1, SeqDef DEF RowsTyped
<1>5. /\ TasksTyped /\ \A p \in Ingest : task[p].at = "idle" /\ task[p].mine = 0
  BY DEF Init, TasksTyped, Ingestion, IngestPlaces
<1>6. /\ DreamsTyped
      /\ \A d \in Dream : dream[d].at = "idle" /\ dream[d].groups = {} /\ dream[d].group = {}
  BY DEF Init, Out, DreamsTyped, Run, DreamPlaces
<1>7. RestTyped
  <2>1. repeated \subseteq Claims BY <1>1 DEF Init
  <2>2. QED BY <2>1 DEF Init, RestTyped
<1>8. Facts = 1 .. n /\ Len(fact) = n /\ Active = Facts
  BY <1>3, <1>4 DEF RowsTyped, Facts, Active
<1>10. CopiesExplained
  <2>1. ASSUME NEW f \in 1 .. n, NEW g \in 1 .. n, f # g, Given[f] = Given[g]
        PROVE  Given[f] \in repeated
    BY <1>2, <2>1 DEF Init
  <2>2. QED BY <1>3, <1>8, <2>1 DEF CopiesExplained, Excused
<1>12. Beliefs
  BY <1>4, <1>5, <1>6, <1>7, <1>10
  DEF Beliefs, Typed, IngestRefs, DreamRefs, Heirs, OutdatedStaysOut, Init
<1>13. Remembered BY <1>8 DEF Remembered
<1>14. LineageSound BY <1>3, <1>8 DEF LineageSound
<1>15. RightPlace /\ NightHeld /\ IdleHeld
  BY <1>6 DEF RightPlace, NightHeld, IdleHeld, Maintaining, Autodreaming
<1>16. QED BY <1>12, <1>13, <1>14, <1>15 DEF MemoryInv

LEMMA NextInv == MemoryInv /\ [Next]_vars => MemoryInv'
<1> SUFFICES ASSUME MemoryInv, [Next]_vars PROVE MemoryInv'
  OBVIOUS
<1>1. Typed /\ IngestRefs /\ DreamRefs BY DEF MemoryInv, Beliefs
<1>2. Typed'
  BY <1>1, RowsTypedStep, TasksTypedStep, DreamsTypedStep, RestTypedStep DEF Typed
<1>3. IngestRefs' /\ DreamRefs'
  BY <1>1, IngestRefsStep, DreamRefsStep
<1>4. CopiesExplained' /\ Heirs' /\ OutdatedStaysOut'
  BY BeliefsKept DEF MemoryInv
<1>5. RowStep /\ Grows BY <1>1, RowSteps
<1>6. Remembered' /\ LineageSound'
  BY <1>1, <1>5, RememberedStep, LineageStep DEF MemoryInv, Typed
<1>7. RightPlace' /\ NightHeld' /\ IdleHeld'
  BY <1>1, <1>2, LockedStep DEF MemoryInv, Locked, Typed
<1>8. QED BY <1>2, <1>3, <1>4, <1>6, <1>7 DEF MemoryInv, Beliefs

LEMMA Inductive == Spec => []MemoryInv
  BY InitInv, NextInv, PTL DEF Spec

-----------------------------------------------------------------------------
(* The theorems *)

\* The rows, the program counters, the locks and the histories keep their types.
THEOREM MemoryTypeCorrect == Spec => []TypeOK
<1>1. MemoryInv => TypeOK
  BY DEF MemoryInv, Beliefs, Typed, RowsTyped, TasksTyped, DreamsTyped, RestTyped, TypeOK,
         FactRow, Ingestion, IngestPlaces, Run, DreamPlaces
<1>2. QED BY <1>1, Inductive, PTL

\* Whatever was stored is said by an active fact, unless it was replaced, pruned
\* or left out of a summary; and superseded_by leads on to what took a fact's place.
THEOREM KnowledgeIsKept == Spec => []KnowledgeKept
<1>1. MemoryInv => KnowledgeKept
  BY DEF MemoryInv, Remembered, Lost, KnowledgeKept, NothingForgotten, Known, Says
<1>2. QED BY <1>1, Inductive, PTL

\* Whatever two active facts both say, or an active fact says although it was
\* replaced, is said so because a step failed, came late or overlapped, or because
\* an ingestion stored what was said or replaced before.
THEOREM BeliefsAreExplained == Spec => []BeliefsExplained
<1>1. MemoryInv => BeliefsExplained
  BY DEF MemoryInv, Beliefs, BeliefsExplained
<1>2. QED BY <1>1, Inductive, PTL

\* A lock that did not lapse keeps maintenance runs, or autodreams, apart.
THEOREM LocksAreHeld == Spec => []LocksHold
<1>1. MemoryInv => LocksHold
  <2>1. SUFFICES ASSUME MemoryInv PROVE LocksHold OBVIOUS
  <2>2. ASSUME "night" \notin lapsed PROVE Cardinality({d \in Dream : Maintaining(d)}) <= 1
    <3>1. PICK n : n = night OBVIOUS
    <3>2. {d \in Dream : Maintaining(d)} \subseteq {n}
      BY <2>1, <2>2, <3>1 DEF MemoryInv, NightHeld
    <3>3. QED BY <3>2, OneHolder
  <2>3. ASSUME "idle" \notin lapsed PROVE Cardinality({d \in Dream : Autodreaming(d)}) <= 1
    <3>1. PICK n : n = idle OBVIOUS
    <3>2. {d \in Dream : Autodreaming(d)} \subseteq {n}
      BY <2>1, <2>3, <3>1 DEF MemoryInv, IdleHeld
    <3>3. QED BY <3>2, OneHolder
  <2>4. QED BY <2>2, <2>3 DEF LocksHold
<1>2. QED BY <1>1, Inductive, PTL
====
