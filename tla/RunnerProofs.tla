---------------------------- MODULE RunnerProofs ----------------------------
(***************************************************************************)
(* Proofs about the four modules of the agent runner, for any number of    *)
(* runs, keys, permits, agents and tools and any limits.                   *)
(*                                                                         *)
(* SpawnTree: DepthBounded is about a run's place in the tree, but the     *)
(* code compares a depth it reads from whatever SpawnContext the task's    *)
(* variable names.  It holds because that context is never less deep below *)
(* its home than the run that reads it: a child that overwrites the        *)
(* variable is deeper than every run it shares the task with, and the      *)
(* context a retried verification makes has that run as its home.          *)
(* KeyExclusion needs only that every home is the top-level run or one     *)
(* that was retried.                                                       *)
(*                                                                         *)
(* RunLocks: ExclusiveUntilReaped is not inductive: that a run may not     *)
(* begin while its key is taken helps only if every holder's key is still  *)
(* in the set.  HolderRegistered says so, up to the keys the reaper has    *)
(* released.                                                               *)
(*                                                                         *)
(* StallWatchdog: the shared attribute harms the runs it has left.  The    *)
(* run it names is treated as documented, because it executes alone in its *)
(* task: nothing was started after it, so no cancellation meant for it     *)
(* hits another run and its flag is seen before the next answer comes.     *)
(*                                                                         *)
(* AgentLoop: every step keeps the last batch of calls, drops it, takes a  *)
(* new one or answers its next call, and an answer leaves the answers      *)
(* before it in place even where todo_write overwrites one.  The budget    *)
(* needs a count of the iterations behind the answers it bounds, and the   *)
(* errors a bound for every call of the batch under way.                   *)
(***************************************************************************)
EXTENDS SpawnTree, RunLocks, StallWatchdog, AgentLoop,
        FiniteSetTheorems, SequenceTheorems, TLAPS


-----------------------------------------------------------------------------
(* SpawnTree: the runs and their sub-agents. *)

\* Every variable has its type in every reachable state.
THEOREM SpawnTypeCorrect == Spec => []TypeOK
<1>1. Init => TypeOK
  BY RootAssumption, SizeAssumption
  DEF Init, TypeOK, PC, SpawnContext, FreshContext, Contexts, First
<1>2. TypeOK /\ [Next]_vars => TypeOK'
  <2> SUFFICES ASSUME TypeOK, [Next]_vars PROVE TypeOK'
    OBVIOUS
  <2> USE DEF TypeOK
  <2>0. ASSUME NEW p \in Run
        PROVE  /\ Current(p) \in SpawnContext /\ ChildContext(p) \in SpawnContext
               /\ FreshContext(p) \in SpawnContext
               /\ First(p) \in Contexts /\ Second(p) \in Contexts
               /\ current[task[p]] \in Contexts
    <3>1. First(p) \in Contexts /\ Second(p) \in Contexts
      BY DEF Contexts, First, Second
    <3>2. current[task[p]] \in Contexts
      OBVIOUS
    <3>3. Current(p) \in SpawnContext BY <3>2 DEF Current
    <3>4. ChildDepth(p) \in Nat BY <3>3 DEF ChildDepth, SpawnContext
    <3>5. ChildContext(p) \in SpawnContext
      BY <3>3, <3>4 DEF ChildContext, SpawnContext
    <3>6. FreshContext(p) \in SpawnContext BY DEF FreshContext, SpawnContext
    <3>7. QED BY <3>1, <3>2, <3>3, <3>5, <3>6
  <2>1. ASSUME NEW p \in Run, NEW S \in SUBSET Sub, NEW own \in BOOLEAN,
               Spawn(p, S, own)
        PROVE  TypeOK'
    <3>2. pc' \in [Run -> PC] /\ fired' \in SUBSET Run
      BY <2>1 DEF Spawn, PC
    <3>3. parent' \in [Run -> Run] /\ task' \in [Run -> Run]
      BY <2>1 DEF Spawn
    <3>4. current' \in [Run -> Contexts] /\ source' \in [Run -> Contexts]
      BY <2>0, <2>1 DEF Spawn
    <3>5. context' \in [Contexts -> SpawnContext]
      BY <2>0, <2>1 DEF Spawn
    <3>6. level' \in [Run -> Nat]
      BY <2>1 DEF Spawn
    <3>7. locked' \in SUBSET (Run \X Key)
      <4>1. Current(p).home \in Run BY <2>0 DEF SpawnContext
      <4>2. Keys(S, Current(p).home) \subseteq Run \X Key
        BY <4>1, <2>1 DEF Keys, Sub
      <4>3. QED BY <2>1, <4>2 DEF Spawn
    <3>8. QED BY <2>1, <3>2, <3>3, <3>4, <3>5, <3>6, <3>7 DEF Spawn
  <2>2. ASSUME NEW c \in Sub, Start(c) PROVE TypeOK'
    <3>1. c \in Run /\ context[First(c)].tokens \in Nat
      BY <2>0 DEF Sub, SpawnContext
    <3>2. Granted(context[First(c)].tokens) \in Nat
      BY <3>1, SizeAssumption DEF Granted
    <3>3. QED BY <2>0, <2>2, <3>1, <3>2 DEF Start, PC
  <2>3. ASSUME NEW p \in Run, NEW c \in Sub, Help(p, c) PROVE TypeOK'
    <3>1. c \in Run /\ Current(p).tokens \in Nat
      BY <2>0 DEF Sub, SpawnContext
    <3>2. Granted(Current(p).tokens) \in Nat
      BY <3>1, SizeAssumption DEF Granted
    <3>3. QED BY <2>0, <2>3, <3>1, <3>2 DEF Help, PC
  <2>4. ASSUME NEW c \in Sub, End(c) PROVE TypeOK'
    <3>1. context' \in [Contexts -> SpawnContext]
      <4>1. PICK used \in 0 .. budget[c] :
              context' = [context EXCEPT ![source[c]].tokens =
                            IF used < @ THEN @ - used ELSE 0]
        BY <2>4 DEF End
      <4>2. budget[c] \in Nat /\ source[c] \in Contexts BY DEF Sub
      <4>3. used \in Nat BY <4>2
      <4>4. \A n \in Nat : (IF used < n THEN n - used ELSE 0) \in Nat
        BY <4>3
      <4>5. context[source[c]] \in SpawnContext BY <4>2
      <4>6. [context[source[c]] EXCEPT !.tokens = IF used < @ THEN @ - used ELSE 0]
              \in SpawnContext
        BY <4>4, <4>5 DEF SpawnContext
      <4>7. QED BY <4>1, <4>2, <4>6
    <3>2. pc' \in [Run -> PC] /\ locked' \in SUBSET (Run \X Key)
      BY <2>4 DEF End, Unlock, PC
    <3>3. QED BY <2>4, <3>1, <3>2 DEF End, Forget
  <2>5. ASSUME NEW c \in Sub, Withdraw(c) PROVE TypeOK'
    BY <2>5 DEF Withdraw, PC, Forget
  <2>6. ASSUME NEW r \in Run, Return(r) PROVE TypeOK'
    BY <2>6 DEF Return, PC, Forget
  <2>7. ASSUME NEW p \in Run, Retry(p) PROVE TypeOK'
    BY <2>0, <2>7 DEF Retry
  <2>8. ASSUME NEW p \in Run, ToolTimeout(p) PROVE TypeOK'
    <3>1. Innermost(p) \subseteq Sub BY DEF Innermost, Below
    <3>2. QED BY <2>8, <3>1 DEF ToolTimeout
  <2>9. CASE UNCHANGED vars
    BY <2>9 DEF vars
  <2>10. QED
    BY <2>1, <2>2, <2>3, <2>4, <2>5, <2>6, <2>7, <2>8, <2>9 DEF Next
<1>3. QED BY <1>1, <1>2, PTL DEF Spec

-----------------------------------------------------------------------------
(* Permits *)

PermitInv == IsFiniteSet(Executing) /\ PermitsRespected

LEMMA ExecutingKept ==
  ASSUME PermitInv, Executing' = Executing PROVE PermitInv'
BY DEF PermitInv, PermitsRespected

LEMMA ExecutingLess ==
  ASSUME PermitInv, NEW c, Executing' = Executing \ {c} PROVE PermitInv'
<1>1. IsFiniteSet(Executing \ {c})
      /\ Cardinality(Executing \ {c}) <= Cardinality(Executing)
  BY FS_Subset DEF PermitInv
<1>2. Cardinality(Executing) \in Nat /\ Cardinality(Executing \ {c}) \in Nat
  BY <1>1, FS_CardinalityType DEF PermitInv
<1>3. QED BY <1>1, <1>2, SizeAssumption DEF PermitInv, PermitsRespected

\* Helpers run.
HelpersUsed == \A c \in helpers : pc[c] \in {"running", "ended"}

LEMMA HelpersRun == Spec => []HelpersUsed
<1>1. Init => HelpersUsed BY DEF Init, HelpersUsed
<1>2. TypeOK /\ HelpersUsed /\ [Next]_vars => HelpersUsed'
  <2> SUFFICES ASSUME TypeOK, HelpersUsed, [Next]_vars PROVE HelpersUsed'
    OBVIOUS
  <2> USE DEF TypeOK
  <2>1. ASSUME NEW p \in Run, NEW S \in SUBSET Sub, NEW own \in BOOLEAN,
               Spawn(p, S, own)
        PROVE  HelpersUsed'
    <3>1. \A c \in helpers : c \notin S /\ pc'[c] = pc[c] /\ helpers' = helpers
      BY <2>1 DEF Spawn, HelpersUsed, Sub
    <3>2. QED BY <2>1, <3>1 DEF Spawn, HelpersUsed
  <2>2. ASSUME NEW p \in Run, NEW c \in Sub, Help(p, c) PROVE HelpersUsed'
    BY <2>2 DEF Help, HelpersUsed, Sub
  <2>3. ASSUME NEW c \in Sub, Start(c) \/ End(c) \/ Withdraw(c) PROVE HelpersUsed'
    BY <2>3 DEF Start, End, Withdraw, HelpersUsed, Sub
  <2>4. ASSUME NEW r \in Run, Retry(r) \/ Return(r) \/ ToolTimeout(r)
        PROVE  HelpersUsed'
    BY <2>4 DEF Retry, Return, ToolTimeout, HelpersUsed, Sub
  <2>5. CASE UNCHANGED vars BY <2>5 DEF vars, HelpersUsed
  <2>6. QED BY <2>1, <2>2, <2>3, <2>4, <2>5 DEF Next
<1>3. QED BY <1>1, <1>2, SpawnTypeCorrect, PTL DEF Spec

\* Never more sub-agents at work than permits, however they start and end.
THEOREM PermitBound == Spec => []PermitsRespected
<1>1. Init => PermitInv
  <2> SUFFICES ASSUME Init PROVE PermitInv
    OBVIOUS
  <2>1. Executing = {} BY DEF Init, Executing, Sub
  <2>2. QED
    BY <2>1, FS_EmptySet, SizeAssumption DEF PermitInv, PermitsRespected
<1>2. TypeOK /\ HelpersUsed /\ PermitInv /\ [Next]_vars => PermitInv'
  <2> SUFFICES ASSUME TypeOK, HelpersUsed, PermitInv, [Next]_vars PROVE PermitInv'
    OBVIOUS
  <2> USE DEF TypeOK, HelpersUsed
  <2>1. ASSUME NEW p \in Run, NEW S \in SUBSET Sub, NEW own \in BOOLEAN,
               Spawn(p, S, own)
        PROVE  PermitInv'
    <3>1. Executing' = Executing BY <2>1 DEF Spawn, Executing, Sub
    <3>2. QED BY <3>1, ExecutingKept
  <2>2. ASSUME NEW c \in Sub, Start(c) PROVE PermitInv'
    <3>1. Executing' = Executing \cup {c} /\ c \notin Executing
      BY <2>2 DEF Start, Executing, Sub
    <3>2. IsFiniteSet(Executing \cup {c})
          /\ Cardinality(Executing \cup {c}) = Cardinality(Executing) + 1
      BY <3>1, FS_AddElement DEF PermitInv
    <3>3. Cardinality(Executing) < Permits BY <2>2 DEF Start, PermitFree
    <3>4. Cardinality(Executing) \in Nat
      BY FS_CardinalityType DEF PermitInv
    <3>5. QED
      BY <3>1, <3>2, <3>3, <3>4, SizeAssumption
      DEF PermitInv, PermitsRespected
  <2>3. ASSUME NEW c \in Sub, End(c) PROVE PermitInv'
    <3>1. Executing' = Executing \ {c} BY <2>3 DEF End, Executing, Sub
    <3>2. QED BY <3>1, ExecutingLess
  <2>4. ASSUME NEW c \in Sub, Withdraw(c) PROVE PermitInv'
    <3>1. Executing' = Executing BY <2>4 DEF Withdraw, Executing, Sub
    <3>2. QED BY <3>1, ExecutingKept
  <2>5. ASSUME NEW p \in Run, NEW c \in Sub, Help(p, c) PROVE PermitInv'
    <3>1. Executing' = Executing BY <2>5 DEF Help, Executing, Sub
    <3>2. QED BY <3>1, ExecutingKept
  <2>6. ASSUME NEW r \in Run, Retry(r) \/ Return(r) \/ ToolTimeout(r)
        PROVE  PermitInv'
    <3>1. Executing' = Executing
      BY <2>6 DEF Retry, Return, ToolTimeout, Executing, Sub
    <3>2. QED BY <3>1, ExecutingKept
  <2>7. CASE UNCHANGED vars
    <3>1. Executing' = Executing BY <2>7 DEF vars, Executing
    <3>2. QED BY <3>1, ExecutingKept
  <2>8. QED BY <2>1, <2>2, <2>3, <2>4, <2>5, <2>6, <2>7 DEF Next
<1>3. PermitInv => PermitsRespected
  BY DEF PermitInv
<1>4. QED BY <1>1, <1>2, <1>3, HelpersRun, SpawnTypeCorrect, PTL DEF Spec

-----------------------------------------------------------------------------
(* Dedup keys *)

\* The context of a run that was spawned keeps its depth and name space.
LEMMA GivenKept ==
  ASSUME TypeOK, [Next]_vars, NEW r \in Run, pc[r] # "unused"
  PROVE  /\ context'[First(r)].home = context[First(r)].home
         /\ context'[First(r)].depth = context[First(r)].depth
<1> USE DEF TypeOK
<1>0. First(r) \in Contexts /\ First(r) \notin {Second(q) : q \in Run}
      /\ \A q \in Run : First(q) = First(r) => q = r
  BY DEF First, Second, Contexts
<1>1. ASSUME NEW p \in Run, NEW S \in SUBSET Sub, NEW own \in BOOLEAN,
             Spawn(p, S, own)
      PROVE  context'[First(r)] = context[First(r)]
  <2>1. ~\E c \in S : First(r) = First(c)
    BY <1>0, <1>1 DEF Spawn, Sub
  <2>2. QED BY <1>0, <1>1, <2>1 DEF Spawn
<1>2. ASSUME NEW p \in Run, NEW c \in Sub, Help(p, c)
      PROVE  context'[First(r)] = context[First(r)]
  BY <1>0, <1>2 DEF Help, Sub
<1>3. ASSUME NEW c \in Sub, End(c)
      PROVE  /\ context'[First(r)].home = context[First(r)].home
             /\ context'[First(r)].depth = context[First(r)].depth
  <2>1. PICK used \in 0 .. budget[c] :
          context' = [context EXCEPT ![source[c]].tokens =
                        IF used < @ THEN @ - used ELSE 0]
    BY <1>3 DEF End
  <2>2. context[First(r)] \in SpawnContext BY <1>0
  <2>3. QED BY <1>0, <2>1, <2>2 DEF SpawnContext
<1>4. ASSUME NEW c \in Sub, Start(c) \/ Withdraw(c)
      PROVE  context'[First(r)] = context[First(r)]
  BY <1>4 DEF Start, Withdraw
<1>5. ASSUME NEW p \in Run, Return(p) \/ ToolTimeout(p)
      PROVE  context'[First(r)] = context[First(r)]
  BY <1>5 DEF Return, ToolTimeout
<1>6. ASSUME NEW p \in Run, Retry(p)
      PROVE  context'[First(r)] = context[First(r)]
  BY <1>0, <1>6 DEF Retry
<1>7. CASE UNCHANGED vars BY <1>7 DEF vars
<1>8. QED BY <1>1, <1>2, <1>3, <1>4, <1>5, <1>6, <1>7 DEF Next

\* A name space is that of the top-level run or of one that was retried.
HomesKnown ==
  /\ \A r \in retried : pc[r] # "unused"
  /\ \A x \in Contexts : context[x].home \in retried \cup {Root}

LEMMA HomeSteps ==
  TypeOK /\ HomesKnown /\ [Next]_vars => HomesKnown'
<1> SUFFICES ASSUME TypeOK, HomesKnown, [Next]_vars PROVE HomesKnown'
  OBVIOUS
<1> USE DEF TypeOK
<1>0. \A p \in Run : Current(p).home \in retried \cup {Root}
                     /\ ChildContext(p).home = Current(p).home
  BY DEF HomesKnown, Current, ChildContext, SpawnContext
<1>1. ASSUME NEW p \in Run, NEW S \in SUBSET Sub, NEW own \in BOOLEAN,
             Spawn(p, S, own)
      PROVE  HomesKnown'
  <2>1. retried' = retried /\ \A r \in Run : pc[r] # "unused" => pc'[r] # "unused"
    BY <1>1 DEF Spawn
  <2>2. \A x \in Contexts : context'[x] \in {ChildContext(p), context[x]}
    BY <1>1 DEF Spawn
  <2>3. QED BY <1>0, <2>1, <2>2 DEF HomesKnown
<1>2. ASSUME NEW p \in Run, NEW c \in Sub, Help(p, c) PROVE HomesKnown'
  <2>1. retried' = retried /\ \A r \in Run : pc[r] # "unused" => pc'[r] # "unused"
    BY <1>2 DEF Help
  <2>2. \A x \in Contexts : context'[x] \in {ChildContext(p), context[x]}
    BY <1>2 DEF Help
  <2>3. QED BY <1>0, <2>1, <2>2 DEF HomesKnown
<1>3. ASSUME NEW c \in Sub, End(c) PROVE HomesKnown'
  <2>1. PICK used \in 0 .. budget[c] :
          context' = [context EXCEPT ![source[c]].tokens =
                        IF used < @ THEN @ - used ELSE 0]
    BY <1>3 DEF End
  <2>2. \A x \in Contexts : context'[x].home = context[x].home
    BY <2>1 DEF SpawnContext
  <2>3. retried' = retried /\ \A r \in Run : pc[r] # "unused" => pc'[r] # "unused"
    BY <1>3 DEF End
  <2>4. QED BY <2>2, <2>3 DEF HomesKnown
<1>4. ASSUME NEW c \in Sub, Start(c) \/ Withdraw(c) PROVE HomesKnown'
  BY <1>4 DEF Start, Withdraw, HomesKnown
<1>5. ASSUME NEW p \in Run, Return(p) \/ ToolTimeout(p) PROVE HomesKnown'
  BY <1>5 DEF Return, ToolTimeout, HomesKnown
<1>6. ASSUME NEW p \in Run, Retry(p) PROVE HomesKnown'
  <2>1. retried' = retried \cup {p} /\ pc' = pc /\ pc[p] = "running"
    BY <1>6 DEF Retry
  <2>2. \A x \in Contexts : context'[x] \in {FreshContext(p), context[x]}
    BY <1>6 DEF Retry
  <2>3. QED BY <2>1, <2>2 DEF HomesKnown, FreshContext
<1>7. CASE UNCHANGED vars BY <1>7 DEF vars, HomesKnown
<1>8. QED BY <1>1, <1>2, <1>3, <1>4, <1>5, <1>6, <1>7 DEF Next

DedupKey(c) == <<Home(c), key[c]>>
KeyInv ==
  /\ locked = {DedupKey(c) : c \in Claimants}
  /\ \A c, d \in Claimants : DedupKey(c) = DedupKey(d) => c = d

LEMMA KeyStep ==
  TypeOK /\ HelpersUsed /\ KeyInv /\ [Next]_vars => KeyInv'
<1> SUFFICES ASSUME TypeOK, HelpersUsed, KeyInv, [Next]_vars PROVE KeyInv'
  OBVIOUS
<1> USE DEF TypeOK
<1>0. \A c \in Claimants : c \in Run /\ c \in Sub /\ DedupKey(c)' = DedupKey(c)
  <2> SUFFICES ASSUME NEW c \in Claimants PROVE c \in Run /\ c \in Sub /\ DedupKey(c)' = DedupKey(c)
    OBVIOUS
  <2>1. c \in Run /\ c \in Sub /\ pc[c] # "unused" BY DEF Claimants, Live, Sub
  <2>2. Home(c)' = Home(c) BY <2>1, GivenKept DEF Home
  <2>3. key' = key
    BY DEF Next, Spawn, Help, Start, End, Withdraw, Retry, Return, ToolTimeout, vars
  <2>4. QED BY <2>1, <2>2, <2>3 DEF DedupKey
<1>1. ASSUME NEW p \in Run, NEW S \in SUBSET Sub, NEW own \in BOOLEAN,
             Spawn(p, S, own)
      PROVE  KeyInv'
  <2>1. Claimants' = Claimants \cup S
    <3>1. helpers' = helpers /\ \A c \in S : c \notin helpers
      BY <1>1 DEF Spawn, HelpersUsed
    <3>2. \A c \in Sub : Live(c)' <=> Live(c) \/ c \in S
      BY <1>1 DEF Spawn, Sub, Live
    <3>3. QED BY <3>1, <3>2 DEF Claimants
  <2>2. \A c \in S : DedupKey(c)' = <<Current(p).home, key[c]>>
    <3> SUFFICES ASSUME NEW c \in S PROVE DedupKey(c)' = <<Current(p).home, key[c]>>
      OBVIOUS
    <3>1. First(c) \in Contexts BY DEF First, Contexts, Sub
    <3>2. context'[First(c)] = ChildContext(p) BY <1>1, <3>1 DEF Spawn
    <3>3. ChildContext(p).home = Current(p).home
      BY DEF ChildContext, Current, SpawnContext
    <3>4. key' = key BY <1>1 DEF Spawn
    <3>5. QED BY <3>2, <3>3, <3>4 DEF DedupKey, Home
  <2>3. locked' = locked \cup {<<Current(p).home, key[c]>> : c \in S}
    BY <1>1 DEF Spawn, Keys
  <2>4. \A c \in S : <<Current(p).home, key[c]>> \notin locked
    BY <1>1 DEF Spawn, Keys, KeyFree
  <2>5. \A c, d \in S : key[c] = key[d] => c = d
    BY <1>1 DEF Spawn
  <2>6. (locked = {DedupKey(c) : c \in Claimants})'
    BY <1>0, <2>1, <2>2, <2>3 DEF KeyInv
  <2>7. (\A c, d \in Claimants : DedupKey(c) = DedupKey(d) => c = d)'
    <3> SUFFICES ASSUME NEW c \in Claimants', NEW d \in Claimants', DedupKey(c)' = DedupKey(d)'
                 PROVE  c = d
      OBVIOUS
    <3>1. CASE c \in S /\ d \in S BY <2>2, <2>5, <3>1
    <3>2. CASE c \in S /\ d \notin S
      <4>1. d \in Claimants /\ DedupKey(d) \in locked /\ DedupKey(d)' = DedupKey(d)
        BY <1>0, <2>1, <3>2 DEF KeyInv
      <4>2. QED BY <2>2, <2>4, <3>2, <4>1
    <3>3. CASE c \notin S /\ d \in S
      <4>1. c \in Claimants /\ DedupKey(c) \in locked /\ DedupKey(c)' = DedupKey(c)
        BY <1>0, <2>1, <3>3 DEF KeyInv
      <4>2. QED BY <2>2, <2>4, <3>3, <4>1
    <3>4. CASE c \notin S /\ d \notin S
      BY <1>0, <2>1, <3>4 DEF KeyInv
    <3>5. QED BY <3>1, <3>2, <3>3, <3>4
  <2>8. QED BY <2>6, <2>7 DEF KeyInv
<1>2. ASSUME UNCHANGED <<Claimants, locked>> PROVE KeyInv'
  BY <1>0, <1>2 DEF KeyInv
<1>3. ASSUME NEW p \in Run, NEW c \in Sub, Help(p, c) PROVE KeyInv'
  <2>1. \A d \in Sub \ helpers' : Live(d)' <=> Live(d)
    BY <1>3 DEF Help, Live, Sub
  <2>2. \A d \in Claimants : d # c BY <1>3 DEF Help, Claimants, Live
  <2>3. Claimants' = Claimants BY <1>3, <2>1, <2>2 DEF Claimants, Help
  <2>4. QED BY <1>2, <1>3, <2>3 DEF Help
<1>4. ASSUME NEW c \in Sub, Start(c) PROVE KeyInv'
  <2>1. \A d \in Sub : Live(d)' <=> Live(d) BY <1>4 DEF Start, Live, Sub
  <2>2. QED BY <1>2, <1>4, <2>1 DEF Claimants, Start
<1>5. ASSUME NEW c \in Sub, End(c) \/ Withdraw(c) PROVE KeyInv'
  <2>1. c \in Claimants
    BY <1>5 DEF End, Withdraw, Claimants, Live, HelpersUsed
  <2>2. Claimants' = Claimants \ {c}
    BY <1>5 DEF End, Withdraw, Claimants, Live, Sub
  <2>3. locked' = locked \ {DedupKey(c)}
    BY <1>5 DEF End, Withdraw, Unlock, DedupKey
  <2>4. QED BY <1>0, <2>1, <2>2, <2>3 DEF KeyInv
<1>6. ASSUME NEW r \in Run, Return(r) PROVE KeyInv'
  <2>1. Claimants' = Claimants
    BY <1>6 DEF Return, Claimants, Live, Sub
  <2>2. QED BY <1>2, <1>6, <2>1 DEF Return
<1>7. ASSUME NEW r \in Run, Retry(r) \/ ToolTimeout(r) PROVE KeyInv'
  BY <1>2, <1>7 DEF Retry, ToolTimeout, Claimants, Live
<1>8. CASE UNCHANGED vars BY <1>2, <1>8 DEF vars, Claimants, Live
<1>9. QED BY <1>1, <1>3, <1>4, <1>5, <1>6, <1>7, <1>8 DEF Next

\* A key is locked exactly as long as one run of its name space needs it, and
\* only a retried verification opens a second name space.
THEOREM KeyExclusion == Spec => []KeysExclusive
<1>1. Init => HomesKnown /\ KeyInv
  <2> SUFFICES ASSUME Init PROVE HomesKnown /\ KeyInv
    OBVIOUS
  <2>1. Claimants = {} BY DEF Init, Claimants, Live, Sub
  <2>2. HomesKnown BY DEF Init, HomesKnown, FreshContext
  <2>3. QED BY <2>1, <2>2 DEF Init, KeyInv
<1>2. TypeOK /\ HomesKnown /\ KeyInv => KeysExclusive
  <2> SUFFICES ASSUME TypeOK, HomesKnown, KeyInv PROVE KeysExclusive
    OBVIOUS
  <2>1. \A c \in Claimants : Home(c) \in retried \cup {Root}
    BY DEF HomesKnown, Home, First, Contexts, Claimants, Sub
  <2>2. QED BY <2>1 DEF KeysExclusive, KeyInv, DedupKey
<1>3. QED
  BY <1>1, <1>2, HomeSteps, KeyStep, HelpersRun, SpawnTypeCorrect, PTL DEF Spec

\* Both: a run holds the permits and the keys it claims, and no other run does.
THEOREM ClaimsAreSound == Spec => []ClaimsSound
<1>1. PermitsRespected /\ KeysExclusive => ClaimsSound BY DEF ClaimsSound
<1>2. QED BY <1>1, PermitBound, KeyExclusion, PTL

-----------------------------------------------------------------------------
(* The tree *)

\* A child is one level below its parent, which runs.
ParentRuns ==
  \A c \in Sub : Live(c) =>
    pc[parent[c]] = "running" /\ level[c] = level[parent[c]] + 1

\* Only the top-level run is at level 0.
LevelsSound ==
  /\ pc[Root] # "unused" /\ level[Root] = 0
  /\ \A c \in Sub : pc[c] # "unused" => level[c] > 0

\* A task was created for a run that was spawned.
TasksUsed == \A r \in Run : Live(r) => pc[task[r]] # "unused"

\* Run q waits for a child in its own task, and r is below it.
Above(q, r) ==
  /\ level[q] < level[r]
  /\ \E d \in Children(q) : task[d] = task[q]

\* The live runs of a task are on one path of the tree.
TaskIsPath ==
  \A q, r \in Run :
    Live(q) /\ Live(r) /\ q # r /\ task[q] = task[r] => Above(q, r) \/ Above(r, q)

TreeInv == ParentRuns /\ LevelsSound /\ TasksUsed /\ TaskIsPath

\* A run that has no children ends.
LEMMA TreeLeave ==
  ASSUME TypeOK, TreeInv, NEW c \in Run, Live(c), Children(c) = {},
         pc' = [pc EXCEPT ![c] = "ended"], UNCHANGED <<parent, task, level>>
  PROVE  TreeInv'
<1> USE DEF TypeOK
<1>1. \A r \in Run : Live(r)' <=> Live(r) /\ r # c
  BY DEF Live
<1>2. \A q \in Run : Children(q)' = Children(q) \ {c}
  BY <1>1 DEF Children, Sub
<1>3. ParentRuns'
  <2> SUFFICES ASSUME NEW d \in Sub, Live(d)'
               PROVE  /\ pc'[parent'[d]] = "running"
                      /\ level'[d] = level'[parent'[d]] + 1
    BY DEF ParentRuns
  <2>1. Live(d) /\ d # c BY <1>1 DEF Sub
  <2>2. parent[d] # c BY <2>1 DEF Children
  <2>3. QED BY <2>1, <2>2 DEF TreeInv, ParentRuns, Sub
<1>4. LevelsSound' BY RootAssumption DEF TreeInv, LevelsSound, Sub, Live
<1>5. TasksUsed' BY <1>1 DEF TreeInv, TasksUsed
<1>6. TaskIsPath'
  <2>1. ASSUME NEW q \in Run, NEW r \in Run, Live(q)', Live(r)', q # r,
               task[q] = task[r], Above(q, r)
        PROVE  Above(q, r)'
    <3>1. PICK d \in Children(q) : task[d] = task[q]
      BY <2>1 DEF Above
    <3>2. d # c
      <4> SUFFICES ASSUME d = c PROVE FALSE
        OBVIOUS
      <4>1. c \in Sub /\ level[c] = level[q] + 1 /\ parent[c] = q
        BY <3>1 DEF Children, TreeInv, ParentRuns
      <4>2. Live(r) /\ r # c BY <1>1, <2>1
      <4>3. Above(r, c) \/ Above(c, r)
        BY <2>1, <3>1, <4>2 DEF TreeInv, TaskIsPath
      <4>4. ~Above(c, r) BY DEF Above
      <4>5. level[q] < level[r] /\ level[r] < level[c]
        BY <2>1, <4>3, <4>4 DEF Above
      <4>6. QED BY <4>1, <4>5, <2>1
    <3>3. d \in Children(q)' BY <1>2, <3>1, <3>2
    <3>4. QED BY <2>1, <3>1, <3>3 DEF Above
  <2>2. QED BY <1>1, <2>1 DEF TreeInv, TaskIsPath
<1>7. QED BY <1>3, <1>4, <1>5, <1>6 DEF TreeInv

\* A run without children gets some.
LEMMA TreeGrow ==
  ASSUME TypeOK, TreeInv, NEW p \in Run, NEW S \in SUBSET Sub,
         NEW own \in BOOLEAN, NEW st \in {"waiting", "running"},
         pc[p] = "running", Children(p) = {}, \A c \in S : pc[c] = "unused",
         ~own => \E c \in S : S = {c},
         pc' = [r \in Run |-> IF r \in S THEN st ELSE pc[r]],
         parent' = [r \in Run |-> IF r \in S THEN p ELSE parent[r]],
         task' = [r \in Run |-> IF r \in S THEN (IF own THEN r ELSE task[p])
                                           ELSE task[r]],
         level' = [r \in Run |-> IF r \in S THEN level[p] + 1 ELSE level[r]]
  PROVE  TreeInv'
<1> USE DEF TypeOK
<1>1. p \notin S /\ \A c \in S : c \in Run /\ c \in Sub /\ ~Live(c)
  BY DEF Live, Sub
<1>2. \A r \in Run \ S :
        /\ pc'[r] = pc[r] /\ parent'[r] = parent[r] /\ task'[r] = task[r]
        /\ level'[r] = level[r]
  OBVIOUS
<1>3. \A c \in S :
        /\ pc'[c] = st /\ parent'[c] = p
        /\ task'[c] = IF own THEN c ELSE task[p]
        /\ level'[c] = level[p] + 1
  BY <1>1
<1>4. \A r \in Run : Live(r)' <=> Live(r) \/ r \in S
  BY <1>1, <1>2, <1>3 DEF Live
<1>5. Live(p) BY DEF Live
<1>6. \A r \in Run : Live(r) => r \notin S /\ task[r] \in Run \ S /\ task'[r] = task[r]
  BY <1>1, <1>2 DEF TreeInv, TasksUsed
<1>7. ParentRuns'
  <2> SUFFICES ASSUME NEW c \in Sub, Live(c)'
               PROVE  /\ pc'[parent'[c]] = "running"
                      /\ level'[c] = level'[parent'[c]] + 1
    BY DEF ParentRuns
  <2>1. CASE c \in S
    BY <1>1, <1>2, <1>3, <2>1
  <2>2. CASE c \notin S
    <3>1. c \in Run /\ Live(c) BY <1>4, <2>2 DEF Sub
    <3>2. pc[parent[c]] = "running" /\ level[c] = level[parent[c]] + 1
      BY <3>1 DEF TreeInv, ParentRuns
    <3>3. parent[c] \in Run \ S BY <1>1, <3>1, <3>2
    <3>4. QED BY <1>2, <2>2, <3>1, <3>2, <3>3
  <2>3. QED BY <2>1, <2>2
<1>8. LevelsSound'
  <2>1. Root \in Run \ S BY <1>1, RootAssumption DEF Sub
  <2>2. \A c \in S : level'[c] > 0
    <3> SUFFICES ASSUME NEW c \in S PROVE level'[c] > 0
      OBVIOUS
    <3>1. level[p] \in Nat OBVIOUS
    <3>2. level'[c] = level[p] + 1 BY <1>3
    <3>3. QED BY <3>1, <3>2
  <2>3. \A c \in Sub \ S : pc'[c] # "unused" => level'[c] > 0
    BY <1>2 DEF TreeInv, LevelsSound, Sub
  <2>4. QED BY <1>2, <2>1, <2>2, <2>3 DEF TreeInv, LevelsSound
<1>9. TasksUsed'
  <2> SUFFICES ASSUME NEW r \in Run, Live(r)' PROVE pc'[task'[r]] # "unused"
    BY DEF TasksUsed
  <2>1. \A q \in Run : Live(q) => pc'[task[q]] # "unused"
    BY <1>2, <1>6 DEF TreeInv, TasksUsed
  <2>2. QED BY <1>3, <1>4, <1>5, <1>6, <2>1
<1>10. TaskIsPath'
  <2>1. ASSUME NEW q \in Run, NEW r \in Run, Live(q), Live(r), Above(q, r)
        PROVE  Above(q, r)'
    <3>1. PICK d \in Children(q) : task[d] = task[q]
      BY <2>1 DEF Above
    <3>2. d \in Run /\ Live(d) /\ parent[d] = q /\ d \in Sub
      BY <3>1 DEF Children, Sub
    <3>3. d \in Children(q)' /\ task'[d] = task'[q]
      BY <1>2, <1>4, <1>6, <2>1, <3>1, <3>2 DEF Children
    <3>4. level'[q] < level'[r] BY <1>2, <1>6, <2>1 DEF Above
    <3>5. QED BY <3>3, <3>4 DEF Above
  <2>2. ASSUME NEW q \in Run, NEW c \in S, Live(q), task[q] = task'[c]
        PROVE  Above(q, c)'
    <3>1. ~own /\ task'[c] = task[p]
      <4>1. task[q] \notin S BY <1>6, <2>2
      <4>2. task'[c] # c BY <2>2, <4>1
      <4>3. QED BY <1>3, <4>2
    <3>2. CASE q = p
      <4>1. c \in Children(p)' BY <1>3, <1>4, <1>1 DEF Children
      <4>2. level'[p] < level'[c] BY <1>1, <1>2, <1>3
      <4>3. QED BY <1>1, <1>2, <3>1, <3>2, <4>1, <4>2 DEF Above
    <3>3. CASE q # p
      <4>1. Above(q, p) \/ Above(p, q)
        BY <1>5, <2>2, <3>1, <3>3 DEF TreeInv, TaskIsPath
      <4>2. Above(q, p) BY <1>1, <4>1 DEF Above
      <4>3. Above(q, p)' BY <1>5, <2>1, <2>2, <4>2
      <4>4. level'[p] < level'[c] /\ level'[p] \in Nat /\ level'[q] \in Nat
            /\ level'[c] \in Nat
        BY <1>1, <1>2, <1>3, <1>6, <2>2
      <4>5. level'[q] < level'[p] BY <4>3 DEF Above
      <4>6. level'[q] < level'[c] BY <4>4, <4>5
      <4>7. QED BY <4>3, <4>6 DEF Above
    <3>4. QED BY <3>2, <3>3
  <2>3. ASSUME NEW b \in S, NEW c \in S, b # c PROVE task'[b] # task'[c]
    BY <1>1, <1>3, <2>3
  <2> SUFFICES ASSUME NEW q \in Run, NEW r \in Run, Live(q)', Live(r)', q # r,
                      task'[q] = task'[r]
               PROVE  Above(q, r)' \/ Above(r, q)'
    BY DEF TaskIsPath
  <2>4. CASE q \in S /\ r \in S BY <2>3, <2>4
  <2>5. CASE q \in S /\ r \notin S BY <1>2, <1>4, <2>2, <2>5
  <2>6. CASE q \notin S /\ r \in S BY <1>2, <1>4, <2>2, <2>6
  <2>7. CASE q \notin S /\ r \notin S
    BY <1>2, <1>4, <2>1, <2>7 DEF TreeInv, TaskIsPath
  <2>8. QED BY <2>4, <2>5, <2>6, <2>7
<1>11. QED BY <1>7, <1>8, <1>9, <1>10 DEF TreeInv

LEMMA TreeStep == TypeOK /\ TreeInv /\ [Next]_vars => TreeInv'
<1> SUFFICES ASSUME TypeOK, TreeInv, [Next]_vars PROVE TreeInv'
  OBVIOUS
<1>1. ASSUME NEW p \in Run, NEW S \in SUBSET Sub, NEW own \in BOOLEAN,
             Spawn(p, S, own)
      PROVE  TreeInv'
  BY <1>1, TreeGrow DEF Spawn
<1>2. ASSUME NEW p \in Run, NEW c \in Sub, Help(p, c) PROVE TreeInv'
  <2>1. {c} \in SUBSET Sub /\ (~FALSE => \E d \in {c} : {c} = {d})
    OBVIOUS
  <2>2. /\ pc' = [r \in Run |-> IF r \in {c} THEN "running" ELSE pc[r]]
        /\ parent' = [r \in Run |-> IF r \in {c} THEN p ELSE parent[r]]
        /\ task' = [r \in Run |-> IF r \in {c} THEN (IF FALSE THEN r ELSE task[p])
                                               ELSE task[r]]
        /\ level' = [r \in Run |-> IF r \in {c} THEN level[p] + 1 ELSE level[r]]
    BY <1>2 DEF Help, TypeOK
  <2>3. pc[p] = "running" /\ Children(p) = {} /\ \A d \in {c} : pc[d] = "unused"
    BY <1>2 DEF Help
  <2>4. QED BY <2>1, <2>2, <2>3, TreeGrow
<1>3. ASSUME NEW c \in Sub, Start(c) PROVE TreeInv'
  <2> USE DEF TypeOK
  <2>0. /\ c \in Run /\ pc[c] = "waiting"
        /\ pc' = [pc EXCEPT ![c] = "running"]
        /\ UNCHANGED <<parent, task, level>>
    BY <1>3 DEF Start, Sub
  <2>1. \A r \in Run : Live(r)' <=> Live(r)
    BY <2>0 DEF Live
  <2>2. \A q \in Run : Children(q)' = Children(q)
    BY <2>0, <2>1 DEF Children, Sub
  <2>3. ParentRuns' BY <2>0, <2>1 DEF TreeInv, ParentRuns, Sub
  <2>4. TaskIsPath' BY <2>0, <2>1, <2>2 DEF TreeInv, TaskIsPath, Above
  <2>5. TasksUsed' /\ LevelsSound'
    BY <2>0, <2>1, RootAssumption DEF TreeInv, TasksUsed, LevelsSound, Sub
  <2>6. QED BY <2>3, <2>4, <2>5 DEF TreeInv
<1>4. ASSUME NEW c \in Sub, End(c) PROVE TreeInv'
  BY <1>4, TreeLeave DEF End, Live, Sub
<1>5. ASSUME NEW c \in Sub, Withdraw(c) PROVE TreeInv'
  <2>1. Children(c) = {}
    BY <1>5 DEF Withdraw, Children, TreeInv, ParentRuns
  <2>2. QED BY <1>5, <2>1, TreeLeave DEF Withdraw, Live, Sub
<1>6. ASSUME NEW r \in Run, Return(r) PROVE TreeInv'
  BY <1>6, TreeLeave DEF Return, Live
<1>7. CASE UNCHANGED <<pc, parent, task, level>>
  BY <1>7 DEF TreeInv, ParentRuns, LevelsSound, TasksUsed, TaskIsPath, Above, Children, Live
<1>8. QED
  BY <1>1, <1>2, <1>3, <1>4, <1>5, <1>6, <1>7 DEF Next, Retry, ToolTimeout, vars

-----------------------------------------------------------------------------
(* Depth *)

\* Contexts are those of runs that have been spawned, or retried.
Known(x) ==
  \/ \E r \in Run : x = First(r) /\ pc[r] # "unused"
  \/ \E r \in retried : x = Second(r)
CurrentsKnown == \A r \in Run : Live(r) => Known(current[task[r]])

\* The depth a run was given accounts for its levels below its home.
GivenDeepEnough ==
  \A c \in Sub : pc[c] # "unused" =>
    level[c] <= level[Home(c)] + context[First(c)].depth

\* So does the context that its task names while it runs; one that may spawn is
\* not at the limit.
CurrentDeepEnough ==
  \A p \in Run : pc[p] = "running" =>
    /\ level[p] <= level[Current(p).home] + Current(p).depth
    /\ MaySpawn(p) /\ p # Root => level[p] < level[Current(p).home] + MaxDepth

DepthInv == CurrentsKnown /\ GivenDeepEnough /\ CurrentDeepEnough /\ DepthBounded

SpawnBase == TypeOK /\ HomesKnown /\ TreeInv

\* What no step changes: the levels, the homes and the depths of known contexts.
LEMMA KnownKept ==
  ASSUME SpawnBase, [Next]_vars
  PROVE  /\ \A r \in Run : pc[r] # "unused" =>
              pc'[r] # "unused" /\ level'[r] = level[r]
         /\ retried \subseteq retried'
         /\ \A x \in Contexts : Known(x) =>
              /\ Known(x)' /\ context'[x].home = context[x].home
              /\ context'[x].depth = context[x].depth
<1> USE DEF SpawnBase, TypeOK
<1>1. \A r \in Run : pc[r] # "unused" => pc'[r] # "unused" /\ level'[r] = level[r]
  BY DEF Next, Spawn, Help, Start, End, Withdraw, Retry, Return, ToolTimeout, vars, Sub
<1>2. retried \subseteq retried'
  BY DEF Next, Spawn, Help, Start, End, Withdraw, Retry, Return, ToolTimeout, vars
<1>3. ASSUME NEW r \in retried
      PROVE  context'[Second(r)].home = context[Second(r)].home
             /\ context'[Second(r)].depth = context[Second(r)].depth
  <2>0. r \in Run /\ Second(r) \in Contexts
        /\ \A q \in Run : First(q) # Second(r) /\ (Second(q) = Second(r) => q = r)
    BY DEF First, Second, Contexts
  <2>1. ASSUME NEW p \in Run, NEW S \in SUBSET Sub, NEW own \in BOOLEAN,
               Spawn(p, S, own)
        PROVE  context'[Second(r)] = context[Second(r)]
    <3>1. ~\E c \in S : Second(r) = First(c) BY <2>0 DEF Sub
    <3>2. QED BY <2>0, <2>1, <3>1 DEF Spawn
  <2>2. ASSUME NEW p \in Run, NEW c \in Sub, Help(p, c)
        PROVE  context'[Second(r)] = context[Second(r)]
    BY <2>0, <2>2 DEF Help, Sub
  <2>3. ASSUME NEW c \in Sub, End(c)
        PROVE  context'[Second(r)].home = context[Second(r)].home
               /\ context'[Second(r)].depth = context[Second(r)].depth
    <3>1. PICK used \in 0 .. budget[c] :
            context' = [context EXCEPT ![source[c]].tokens =
                          IF used < @ THEN @ - used ELSE 0]
      BY <2>3 DEF End
    <3>2. context[Second(r)] \in SpawnContext BY <2>0
    <3>3. QED BY <2>0, <3>1, <3>2 DEF SpawnContext
  <2>4. ASSUME NEW c \in Sub, Start(c) \/ Withdraw(c)
        PROVE  context'[Second(r)] = context[Second(r)]
    BY <2>4 DEF Start, Withdraw
  <2>5. ASSUME NEW p \in Run, Return(p) \/ ToolTimeout(p)
        PROVE  context'[Second(r)] = context[Second(r)]
    BY <2>5 DEF Return, ToolTimeout
  <2>6. ASSUME NEW p \in Run, Retry(p)
        PROVE  context'[Second(r)] = context[Second(r)]
    BY <2>0, <2>6 DEF Retry
  <2>7. CASE UNCHANGED vars BY <2>7 DEF vars
  <2>8. QED BY <2>1, <2>2, <2>3, <2>4, <2>5, <2>6, <2>7 DEF Next
<1>4. QED BY <1>1, <1>2, <1>3, GivenKept DEF Known

\* Every home is a run that was spawned.
LEMMA HomeUsed ==
  ASSUME SpawnBase, NEW x \in Contexts
  PROVE  context[x].home \in Run /\ pc[context[x].home] # "unused"
BY RootAssumption
DEF SpawnBase, TypeOK, HomesKnown, TreeInv, LevelsSound, SpawnContext

\* What holds of a run that may read its task's context.
DeepEnough(q) ==
  /\ level[q] <= level[Current(q).home] + Current(q).depth
  /\ MaySpawn(q) /\ q # Root => level[q] < level[Current(q).home] + MaxDepth

\* It stays true while the task names the same context.
LEMMA SameContext ==
  ASSUME SpawnBase, DepthInv, [Next]_vars, NEW q \in Run, Live(q),
         task'[q] = task[q], current'[task[q]] = current[task[q]]
  PROVE  /\ Known(current[task[q]])'
         /\ pc[q] = "running" => DeepEnough(q)'
<1> USE DEF SpawnBase, TypeOK
<1>1. current[task[q]] \in Contexts /\ Known(current[task[q]])
  BY DEF DepthInv, CurrentsKnown
<1>2. /\ Known(current[task[q]])'
      /\ Current(q)'.home = Current(q).home /\ Current(q)'.depth = Current(q).depth
  BY <1>1, KnownKept DEF Current
<1>3. pc[q] # "unused" BY DEF Live
<1>4. Current(q).home \in Run /\ pc[Current(q).home] # "unused"
  BY <1>1, HomeUsed DEF Current
<1>5. level'[q] = level[q] /\ level'[Current(q).home] = level[Current(q).home]
  BY <1>3, <1>4, KnownKept
<1>6. MaySpawn(q)' <=> MaySpawn(q)
  BY <1>3, GivenKept DEF MaySpawn
<1>7. QED
  BY <1>2, <1>5, <1>6 DEF DeepEnough, DepthInv, CurrentDeepEnough

\* A run that was spawned stays within its bounds.
LEMMA SameGiven ==
  ASSUME SpawnBase, DepthInv, [Next]_vars, NEW c \in Sub, pc[c] # "unused"
  PROVE  /\ level'[c] <= level'[Home(c)'] + context'[First(c)].depth
         /\ \/ level'[c] <= level'[Home(c)'] + MaxDepth
            \/ c \in helpers' /\ level'[c] = 1
<1>1. c \in Run /\ First(c) \in Contexts BY DEF Sub, First, Contexts
<1>2. Home(c)' = Home(c) /\ context'[First(c)].depth = context[First(c)].depth
  BY <1>1, GivenKept DEF Home, SpawnBase
<1>3. level'[c] = level[c] /\ level'[Home(c)] = level[Home(c)]
  BY <1>1, KnownKept, HomeUsed DEF Home
<1>4. helpers \subseteq helpers'
  BY DEF Next, Spawn, Help, Start, End, Withdraw, Retry, Return, ToolTimeout, vars
<1>5. QED
  BY <1>2, <1>3, <1>4 DEF DepthInv, GivenDeepEnough, DepthBounded

\* The context of run c has become that of the task of q, which is c or above it.
LEMMA NewContext ==
  ASSUME TypeOK', LevelsSound', NEW c \in Sub, NEW q \in Run,
         Current(q)' = context'[First(c)], pc'[q] # "unused",
         q = c \/ level'[q] < level'[c],
         level'[c] <= level'[Home(c)'] + context'[First(c)].depth,
         \/ level'[c] <= level'[Home(c)'] + MaxDepth
         \/ level'[c] = 1
  PROVE  DeepEnough(q)'
<1> USE DEF TypeOK
<1>1. c \in Run /\ First(c) \in Contexts BY DEF Sub, First, Contexts
<1>2. Home(c)' \in Run /\ Current(q)'.home = Home(c)' /\ Current(q)'.depth \in Nat
  BY <1>1 DEF Home, SpawnContext
<1>3. level'[q] \in Nat /\ level'[c] \in Nat /\ level'[Home(c)'] \in Nat
      /\ MaxDepth \in Nat
  BY <1>1, <1>2, SizeAssumption
<1>4. level'[q] <= level'[Current(q)'.home] + Current(q)'.depth
  BY <1>2, <1>3
<1>5. ASSUME MaySpawn(q)', q # Root
      PROVE  level'[q] < level'[Current(q)'.home] + MaxDepth
  <2>1. CASE q = c
    BY <1>1, <1>2, <1>3, <1>5, <2>1 DEF MaySpawn
  <2>2. CASE level'[q] < level'[c]
    <3>1. level'[q] > 0 BY <1>5 DEF LevelsSound, Sub
    <3>2. level'[c] <= level'[Home(c)'] + MaxDepth BY <1>3, <2>2, <3>1
    <3>3. QED BY <1>2, <1>3, <2>2, <3>2
  <2>3. QED BY <2>1, <2>2
<1>6. QED BY <1>4, <1>5 DEF DeepEnough

LEMMA DepthStart ==
  ASSUME SpawnBase, SpawnBase', DepthInv, NEW c \in Sub, Start(c)
  PROVE  DepthInv'
<1> USE DEF SpawnBase, TypeOK
<1>0. /\ c \in Run /\ pc[c] = "waiting" /\ Live(c)
      /\ pc' = [pc EXCEPT ![c] = "running"]
      /\ current' = [current EXCEPT ![task[c]] = First(c)]
      /\ UNCHANGED <<parent, task, context, helpers, retried, level>>
  BY DEF Start, Sub, Live
<1>1. [Next]_vars BY DEF Next
<1>2. \A r \in Run : (Live(r)' <=> Live(r)) /\ (pc'[r] # "unused" <=> pc[r] # "unused")
  BY <1>0 DEF Live
<1>3. GivenDeepEnough' /\ DepthBounded'
  BY <1>1, <1>2, SameGiven DEF GivenDeepEnough, DepthBounded, Sub
<1>4. ASSUME NEW r \in Run, Live(r)
      PROVE  Known(current[task[r]])' /\ (pc'[r] = "running" => DeepEnough(r)')
  <2>1. CASE task[r] = task[c]
    <3>1. current'[task'[r]] = First(c) BY <1>0, <2>1
    <3>2. r = c \/ level[r] < level[c]
      <4>1. Children(c) = {}
        BY <1>0 DEF Children, TreeInv, ParentRuns
      <4>2. QED
        BY <1>0, <1>4, <2>1, <4>1 DEF TreeInv, TaskIsPath, Above
    <3>3. Current(r)' = context'[First(c)] BY <3>1 DEF Current
    <3>4. pc[r] # "unused" /\ pc'[r] # "unused" /\ pc'[c] # "unused"
      BY <1>0, <1>2, <1>4 DEF Live
    <3>5. DeepEnough(r)'
      <4>1. r = c \/ level'[r] < level'[c] BY <1>0, <3>2
      <4>2. /\ level'[c] <= level'[Home(c)'] + context'[First(c)].depth
            /\ level'[c] <= level'[Home(c)'] + MaxDepth \/ level'[c] = 1
        BY <1>0, <1>1, SameGiven
      <4>3. QED BY <3>3, <3>4, <4>1, <4>2, NewContext DEF TreeInv
    <3>6. Known(current[task[r]])' BY <1>0, <3>1, <3>4 DEF Known
    <3>7. QED BY <3>5, <3>6
  <2>2. CASE task[r] # task[c]
    <3>1. current'[task[r]] = current[task[r]] /\ task'[r] = task[r]
          /\ pc'[r] = pc[r]
      BY <1>0, <2>2
    <3>2. QED BY <1>1, <1>4, <3>1, SameContext
  <2>3. QED BY <2>1, <2>2
<1>5. CurrentsKnown' BY <1>2, <1>4 DEF CurrentsKnown
<1>6. CurrentDeepEnough'
  BY <1>2, <1>4 DEF CurrentDeepEnough, DeepEnough, Live
<1>7. QED BY <1>3, <1>5, <1>6 DEF DepthInv

\* A child is given a context one level deeper than the one its parent reads.
LEMMA ChildDeepEnough ==
  ASSUME SpawnBase, NEW p \in Run, NEW c \in Sub, DeepEnough(p),
         context'[First(c)] = ChildContext(p),
         level'[c] = level[p] + 1, level'[Current(p).home] = level[Current(p).home]
  PROVE  /\ level'[c] <= level'[Home(c)'] + context'[First(c)].depth
         /\ ChildDepth(p) <= MaxDepth => level'[c] <= level'[Home(c)'] + MaxDepth
         /\ MaySpawn(p) => level'[c] <= level'[Home(c)'] + MaxDepth \/ level'[c] = 1
<1> USE DEF SpawnBase, TypeOK
<1>1. Current(p) \in SpawnContext /\ level[p] \in Nat BY DEF Current
<1>2. /\ Current(p).home \in Run /\ Current(p).depth \in Nat
      /\ level[Current(p).home] \in Nat /\ MaxDepth \in Nat
  BY <1>1, SizeAssumption DEF SpawnContext
<1>3. Home(c)' = Current(p).home /\ context'[First(c)].depth = Current(p).depth + 1
  BY <1>1 DEF Home, ChildContext, ChildDepth, SpawnContext
<1>4. MaySpawn(p) /\ p = Root => level'[c] = 1
  BY DEF TreeInv, LevelsSound
<1>5. QED BY <1>1, <1>2, <1>3, <1>4 DEF DeepEnough, ChildDepth

LEMMA DepthSpawn ==
  ASSUME SpawnBase, DepthInv, NEW p \in Run, NEW S \in SUBSET Sub,
         NEW own \in BOOLEAN, Spawn(p, S, own)
  PROVE  DepthInv'
<1> USE DEF SpawnBase, TypeOK
<1>0. [Next]_vars BY DEF Next
<1>1. /\ pc[p] = "running" /\ Live(p) /\ p \notin S
      /\ \A c \in S : c \in Run /\ c \in Sub /\ pc[c] = "unused" /\ ~Live(c)
      /\ ChildDepth(p) <= MaxDepth
  BY DEF Spawn, DepthAllowed, Live, Sub
<1>2. \A r \in Run \ S :
        pc'[r] = pc[r] /\ task'[r] = task[r] /\ current'[r] = current[r]
  BY DEF Spawn
<1>3. \A c \in S :
        /\ pc'[c] = "waiting" /\ level'[c] = level[p] + 1
        /\ task'[c] = IF own THEN c ELSE task[p]
        /\ own => current'[c] = current[task[p]]
        /\ context'[First(c)] = ChildContext(p)
  <2> SUFFICES ASSUME NEW c \in S
               PROVE  /\ pc'[c] = "waiting" /\ level'[c] = level[p] + 1
                      /\ task'[c] = IF own THEN c ELSE task[p]
                      /\ own => current'[c] = current[task[p]]
                      /\ context'[First(c)] = ChildContext(p)
    OBVIOUS
  <2>1. c \in Run /\ First(c) \in Contexts BY <1>1 DEF First, Contexts
  <2>2. QED BY <2>1 DEF Spawn
<1>4. \A r \in Run : (Live(r)' <=> Live(r) \/ r \in S)
                     /\ (Live(r) => r \notin S /\ task[r] \in Run \ S)
  BY <1>1, <1>2, <1>3 DEF Live, TreeInv, TasksUsed
<1>5. DeepEnough(p)
  BY <1>1 DEF DepthInv, CurrentDeepEnough, DeepEnough
<1>6. level'[Current(p).home] = level[Current(p).home]
  <2>1. current[task[p]] \in Contexts OBVIOUS
  <2>2. QED BY <1>0, <2>1, HomeUsed, KnownKept DEF Current
<1>7. ASSUME NEW c \in Sub, pc'[c] # "unused"
      PROVE  /\ level'[c] <= level'[Home(c)'] + context'[First(c)].depth
             /\ \/ level'[c] <= level'[Home(c)'] + MaxDepth
                \/ c \in helpers' /\ level'[c] = 1
  <2>1. CASE c \in S
    BY <1>1, <1>3, <1>5, <1>6, <2>1, ChildDeepEnough
  <2>2. CASE c \notin S
    <3>1. pc[c] # "unused" BY <1>2, <1>7, <2>2 DEF Sub
    <3>2. QED BY <1>0, <3>1, SameGiven
  <2>3. QED BY <2>1, <2>2
<1>8. ASSUME NEW r \in Run, Live(r)
      PROVE  Known(current[task[r]])' /\ (pc[r] = "running" => DeepEnough(r)')
  <2>1. task'[r] = task[r] /\ current'[task[r]] = current[task[r]]
    BY <1>2, <1>4, <1>8
  <2>2. QED BY <1>0, <1>8, <2>1, SameContext
<1>9. CurrentsKnown'
  <2> SUFFICES ASSUME NEW r \in Run, Live(r)' PROVE Known(current[task[r]])'
    BY DEF CurrentsKnown
  <2>1. CASE r \in S
    <3>1. current'[task'[r]] = current[task[p]]
      BY <1>1, <1>2, <1>3, <1>4, <2>1
    <3>2. current'[task'[p]] = current[task[p]]
      BY <1>1, <1>2, <1>4
    <3>3. QED BY <1>1, <1>8, <3>1, <3>2
  <2>2. CASE r \notin S BY <1>4, <1>8, <2>2
  <2>3. QED BY <2>1, <2>2
<1>10. CurrentDeepEnough'
  <2> SUFFICES ASSUME NEW r \in Run, pc'[r] = "running" PROVE DeepEnough(r)'
    BY DEF CurrentDeepEnough, DeepEnough
  <2>1. r \notin S BY <1>3
  <2>2. pc[r] = "running" /\ Live(r) BY <1>2, <2>1 DEF Live
  <2>3. QED BY <1>8, <2>2
<1>11. GivenDeepEnough' /\ DepthBounded'
  BY <1>7 DEF GivenDeepEnough, DepthBounded
<1>12. QED BY <1>9, <1>10, <1>11 DEF DepthInv

LEMMA DepthHelp ==
  ASSUME SpawnBase, SpawnBase', DepthInv, NEW p \in Run, NEW c \in Sub, Help(p, c)
  PROVE  DepthInv'
<1> USE DEF SpawnBase, TypeOK
<1>0. [Next]_vars BY DEF Next
<1>1. /\ c \in Run /\ pc[p] = "running" /\ Live(p) /\ MaySpawn(p) /\ p # c
      /\ Children(p) = {} /\ pc[c] = "unused" /\ ~Live(c)
      /\ pc' = [pc EXCEPT ![c] = "running"]
      /\ task' = [task EXCEPT ![c] = task[p]]
      /\ current' = [current EXCEPT ![task[p]] = First(c)]
      /\ helpers' = helpers \cup {c} /\ level'[c] = level[p] + 1
      /\ retried' = retried
  BY DEF Help, Live, Sub
<1>2. context'[First(c)] = ChildContext(p)
  BY <1>1 DEF Help, First, Contexts
<1>3. DeepEnough(p)
  BY <1>1 DEF DepthInv, CurrentDeepEnough, DeepEnough
<1>4. level'[Current(p).home] = level[Current(p).home]
  <2>1. current[task[p]] \in Contexts OBVIOUS
  <2>2. QED BY <1>0, <2>1, HomeUsed, KnownKept DEF Current
<1>5. ASSUME NEW d \in Sub, pc'[d] # "unused"
      PROVE  /\ level'[d] <= level'[Home(d)'] + context'[First(d)].depth
             /\ \/ level'[d] <= level'[Home(d)'] + MaxDepth
                \/ d \in helpers' /\ level'[d] = 1
  <2>1. CASE d = c
    BY <1>1, <1>2, <1>3, <1>4, <2>1, ChildDeepEnough
  <2>2. CASE d # c
    <3>1. pc[d] # "unused" BY <1>1, <1>5, <2>2 DEF Sub
    <3>2. QED BY <1>0, <3>1, SameGiven
  <2>3. QED BY <2>1, <2>2
<1>6. \A r \in Run : Live(r)' <=> Live(r) \/ r = c BY <1>1 DEF Live
<1>7. ASSUME NEW r \in Run, Live(r)'
      PROVE  Known(current[task[r]])' /\ (pc'[r] = "running" => DeepEnough(r)')
  <2>1. CASE task'[r] = task[p]
    <3>1. current'[task'[r]] = First(c) BY <1>1, <2>1
    <3>2. r = c \/ level'[r] < level'[c]
      <4>1. CASE r = p
        <5>1. pc[p] # "unused" BY <1>1
        <5>2. level'[p] = level[p] BY <1>0, <5>1, KnownKept
        <5>3. level[p] \in Nat OBVIOUS
        <5>4. QED BY <1>1, <4>1, <5>2, <5>3
      <4>2. CASE r # p /\ r # c
        <5>1. Live(r) /\ task[r] = task[p] BY <1>1, <1>6, <1>7, <2>1, <4>2
        <5>2. level[r] < level[p]
          BY <1>1, <4>2, <5>1 DEF TreeInv, TaskIsPath, Above
        <5>3. level'[r] = level[r] BY <1>0, <5>1, KnownKept DEF Live
        <5>4. QED BY <1>1, <5>2, <5>3
      <4>3. QED BY <4>1, <4>2
    <3>3. Current(r)' = context'[First(c)] BY <3>1 DEF Current
    <3>4. pc'[r] # "unused" /\ pc'[c] # "unused"
      BY <1>1, <1>7 DEF Live
    <3>5. DeepEnough(r)'
      <4>1. /\ level'[c] <= level'[Home(c)'] + context'[First(c)].depth
            /\ level'[c] <= level'[Home(c)'] + MaxDepth \/ level'[c] = 1
        BY <1>5, <3>4
      <4>2. QED BY <3>2, <3>3, <3>4, <4>1, NewContext DEF TreeInv
    <3>6. Known(current[task[r]])' BY <1>1, <3>1, <3>4 DEF Known
    <3>7. QED BY <3>5, <3>6
  <2>2. CASE task'[r] # task[p]
    <3>1. r # c /\ Live(r) BY <1>1, <1>6, <1>7, <2>2
    <3>2. task'[r] = task[r] /\ current'[task[r]] = current[task[r]]
          /\ pc'[r] = pc[r]
      BY <1>1, <2>2, <3>1
    <3>3. QED BY <1>0, <3>1, <3>2, SameContext
  <2>3. QED BY <2>1, <2>2
<1>8. CurrentsKnown' BY <1>7 DEF CurrentsKnown
<1>9. CurrentDeepEnough'
  BY <1>7 DEF CurrentDeepEnough, DeepEnough, Live
<1>10. GivenDeepEnough' /\ DepthBounded'
  BY <1>5 DEF GivenDeepEnough, DepthBounded
<1>11. QED BY <1>8, <1>9, <1>10 DEF DepthInv

LEMMA DepthRetry ==
  ASSUME SpawnBase, SpawnBase', DepthInv, NEW p \in Run, Retry(p)
  PROVE  DepthInv'
<1> USE DEF SpawnBase, TypeOK
<1>0. [Next]_vars BY DEF Next
<1>1. /\ pc[p] = "running" /\ Live(p) /\ MaySpawn(p) /\ Children(p) = {}
      /\ current' = [current EXCEPT ![task[p]] = Second(p)]
      /\ retried' = retried \cup {p}
      /\ UNCHANGED <<pc, parent, task, helpers, level>>
  BY DEF Retry, Live
<1>2. context'[Second(p)] = [home |-> p, depth |-> 0, tokens |-> budget[p]]
  BY DEF Retry, FreshContext, Second, Contexts
<1>3. GivenDeepEnough' /\ DepthBounded'
  BY <1>0, <1>1, SameGiven DEF GivenDeepEnough, DepthBounded
<1>4. ASSUME NEW r \in Run, Live(r)
      PROVE  Known(current[task[r]])' /\ (pc'[r] = "running" => DeepEnough(r)')
  <2>1. CASE task[r] = task[p]
    <3>1. current'[task'[r]] = Second(p) BY <1>1, <2>1
    <3>2. r = p \/ level[r] < level[p]
      BY <1>1, <1>4, <2>1 DEF TreeInv, TaskIsPath, Above
    <3>3. Current(r)'.home = p /\ Current(r)'.depth = 0
      BY <1>2, <3>1 DEF Current
    <3>4. level[r] \in Nat /\ level[p] \in Nat /\ MaxDepth \in Nat
      BY SizeAssumption
    <3>5. MaySpawn(r)' /\ r # Root => MaxDepth > 0
      <4>1. First(r) \in Contexts BY DEF First, Contexts
      <4>2. context'[First(r)].depth \in Nat BY <4>1 DEF SpawnContext
      <4>3. QED BY <3>4, <4>2 DEF MaySpawn
    <3>6. DeepEnough(r)'
      BY <1>1, <3>2, <3>3, <3>4, <3>5 DEF DeepEnough
    <3>7. Known(current[task[r]])' BY <1>1, <3>1 DEF Known
    <3>8. QED BY <3>6, <3>7
  <2>2. CASE task[r] # task[p]
    <3>1. current'[task[r]] = current[task[r]] /\ task'[r] = task[r]
          /\ pc'[r] = pc[r]
      BY <1>1, <2>2
    <3>2. QED BY <1>0, <1>4, <3>1, SameContext
  <2>3. QED BY <2>1, <2>2
<1>5. \A r \in Run : Live(r)' <=> Live(r) BY <1>1 DEF Live
<1>6. CurrentsKnown' BY <1>4, <1>5 DEF CurrentsKnown
<1>7. CurrentDeepEnough'
  BY <1>4, <1>5 DEF CurrentDeepEnough, DeepEnough, Live
<1>8. QED BY <1>3, <1>6, <1>7 DEF DepthInv

\* Other steps leave the contexts of the tasks alone, and start nothing.
LEMMA DepthSame ==
  ASSUME SpawnBase, DepthInv, [Next]_vars, UNCHANGED <<task, current>>,
         \A r \in Run : pc'[r] = pc[r] \/ (pc'[r] = "ended" /\ Live(r))
  PROVE  DepthInv'
<1> USE DEF SpawnBase, TypeOK
<1>1. \A r \in Run : /\ Live(r)' => Live(r)
                     /\ pc'[r] = "running" => pc[r] = "running"
                     /\ pc'[r] # "unused" => pc[r] # "unused"
  BY DEF Live
<1>2. GivenDeepEnough' /\ DepthBounded'
  BY <1>1, SameGiven DEF GivenDeepEnough, DepthBounded, Sub
<1>3. ASSUME NEW r \in Run, Live(r)
      PROVE  Known(current[task[r]])' /\ (pc[r] = "running" => DeepEnough(r)')
  BY <1>3, SameContext
<1>4. CurrentsKnown' BY <1>1, <1>3 DEF CurrentsKnown
<1>5. CurrentDeepEnough'
  BY <1>1, <1>3 DEF CurrentDeepEnough, DeepEnough, Live
<1>6. QED BY <1>2, <1>4, <1>5 DEF DepthInv

\* No run is nested deeper than the limit below the run its context began with,
\* whatever contexts are shared, copied or overwritten.
THEOREM DepthLimit == Spec => []DepthBounded
<1>1. Init => TreeInv /\ DepthInv
  <2> SUFFICES ASSUME Init PROVE TreeInv /\ DepthInv
    OBVIOUS
  <2>1. \A r \in Run : (pc[r] # "unused" => r = Root) /\ current[r] = First(Root)
                       /\ task[r] = Root
    BY DEF Init
  <2>2. pc[Root] = "running" /\ level[Root] = 0 /\ Root \notin Sub
    BY RootAssumption DEF Init, Sub
  <2>3. TreeInv
    BY <2>1, <2>2, RootAssumption
    DEF TreeInv, ParentRuns, LevelsSound, TasksUsed, TaskIsPath, Live, Sub
  <2>4. Current(Root).home = Root /\ Current(Root).depth = 0
    BY <2>1, RootAssumption DEF Init, Current, FreshContext, First, Contexts
  <2>5. CurrentDeepEnough
    BY <2>1, <2>2, <2>4, SizeAssumption DEF CurrentDeepEnough
  <2>6. CurrentsKnown
    BY <2>1, <2>2, RootAssumption DEF CurrentsKnown, Known, Live
  <2>7. GivenDeepEnough /\ DepthBounded
    BY <2>1 DEF GivenDeepEnough, DepthBounded, Sub
  <2>8. QED BY <2>3, <2>5, <2>6, <2>7 DEF DepthInv
<1>2. SpawnBase /\ SpawnBase' /\ DepthInv /\ [Next]_vars => DepthInv'
  <2> SUFFICES ASSUME SpawnBase, SpawnBase', DepthInv, [Next]_vars PROVE DepthInv'
    OBVIOUS
  <2>1. ASSUME NEW p \in Run, NEW S \in SUBSET Sub, NEW own \in BOOLEAN,
               Spawn(p, S, own)
        PROVE  DepthInv'
    BY <2>1, DepthSpawn
  <2>2. ASSUME NEW p \in Run, NEW c \in Sub, Help(p, c) PROVE DepthInv'
    BY <2>2, DepthHelp
  <2>3. ASSUME NEW c \in Sub, Start(c) PROVE DepthInv'
    BY <2>3, DepthStart
  <2>4. ASSUME NEW p \in Run, Retry(p) PROVE DepthInv'
    BY <2>4, DepthRetry
  <2>5. ASSUME NEW c \in Sub, End(c) \/ Withdraw(c) PROVE DepthInv'
    <3>1. UNCHANGED <<task, current>> BY <2>5 DEF End, Withdraw
    <3>2. \A r \in Run : pc'[r] = pc[r] \/ (pc'[r] = "ended" /\ Live(r))
      <4>1. pc \in [Run -> PC] /\ c \in Run BY DEF SpawnBase, TypeOK, Sub
      <4>2. pc' = [pc EXCEPT ![c] = "ended"] /\ pc[c] \in {"waiting", "running"}
        BY <2>5 DEF End, Withdraw
      <4>3. QED BY <4>1, <4>2 DEF Live
    <3>3. QED BY <3>1, <3>2, DepthSame
  <2>6. ASSUME NEW r \in Run, Return(r) \/ ToolTimeout(r) PROVE DepthInv'
    <3>1. UNCHANGED <<task, current>> BY <2>6 DEF Return, ToolTimeout
    <3>2. \A q \in Run : pc'[q] = pc[q] \/ (pc'[q] = "ended" /\ Live(q))
      <4>1. pc \in [Run -> PC] BY DEF SpawnBase, TypeOK
      <4>2. CASE Return(r) BY <4>1, <4>2 DEF Return, Live
      <4>3. CASE ToolTimeout(r) BY <4>3 DEF ToolTimeout
      <4>4. QED BY <2>6, <4>2, <4>3
    <3>3. QED BY <3>1, <3>2, DepthSame
  <2>7. CASE UNCHANGED vars
    <3>1. UNCHANGED <<task, current>> BY <2>7 DEF vars
    <3>2. \A r \in Run : pc'[r] = pc[r] BY <2>7 DEF vars
    <3>3. QED BY <3>1, <3>2, DepthSame
  <2>8. QED BY <2>1, <2>2, <2>3, <2>4, <2>5, <2>6, <2>7 DEF Next
<1>3. Init => HomesKnown
  <2> SUFFICES ASSUME Init PROVE HomesKnown
    OBVIOUS
  <2>1. QED BY DEF Init, HomesKnown, FreshContext
<1>4. DepthInv => DepthBounded BY DEF DepthInv
<1>5. TypeOK /\ HomesKnown /\ TreeInv <=> SpawnBase BY DEF SpawnBase
<1>6. QED
  BY <1>1, <1>2, <1>3, <1>4, <1>5, HomeSteps, TreeStep, SpawnTypeCorrect, PTL
  DEF Spec

-----------------------------------------------------------------------------
(* RunLocks: the locks of dedup.py and the circuit breaker. *)

\* A run between acquire and release has its key in the set, unless the
\* reaper released that key.
HolderRegistered ==
  \A r \in Run : Holds(r) => KeyOf(r) \in running \cup reaped

\* The reaper never releases a heartbeat key.
ReapedOrdinary == reaped \subseteq Agent \X {"runs"}

LockInv ==
  /\ LockTypeOK
  /\ HolderRegistered
  /\ ExclusiveUntilReaped
  /\ NoLeakedLock
  /\ ReapedOrdinary

LEMMA KeyOfType == ASSUME LockTypeOK, NEW r \in Run PROVE KeyOf(r) \in LockKey
  BY DEF LockTypeOK, KeyOf, LockKey

\* Every variable has its type in every reachable state.
THEOREM LocksTypeCorrect == LockSpec => []LockTypeOK
<1>1. LockInit => LockTypeOK
  BY DEF LockInit, LockTypeOK, Stage
<1>2. LockTypeOK /\ [LockNext]_lockVars => LockTypeOK'
  <2> SUFFICES ASSUME LockTypeOK, [LockNext]_lockVars PROVE LockTypeOK'
    OBVIOUS
  <2> USE DEF LockTypeOK
  <2>1. ASSUME NEW r \in Run, RunStep(r) PROVE LockTypeOK'
    <3> USE KeyOfType
    <3>1. CASE Skip(r) BY <3>1 DEF Skip, Stage
    <3>2. CASE BreakerSkip(r) BY <3>2 DEF BreakerSkip, Stage
    <3>3. CASE Acquire(r) BY <3>3 DEF Acquire, Stage
    <3>4. CASE Record(r) BY <3>4 DEF Record, Stage
    <3>5. CASE FirstCall(r) BY <3>5 DEF FirstCall, Stage
    <3>6. CASE SetupRaises(r) BY <3>6 DEF SetupRaises, Release, Stage
    <3>7. CASE Finish(r) BY <3>7 DEF Finish, Stage
    <3>8. CASE Persist(r)
      BY <3>8 DEF Persist
    <3>9. CASE Settle(r)
      <4>1. errors' \in [LockKey -> Nat] BY <3>9 DEF Settle, CountRun
      <4>2. QED BY <3>9, <4>1 DEF Settle, Release, Stage
    <3>10. CASE SafetyTimeout(r)
      <4>1. errors' \in [LockKey -> Nat] BY <3>10 DEF SafetyTimeout, CountRun
      <4>2. QED BY <3>10, <4>1 DEF SafetyTimeout, Release, Stage
    <3>11. CASE Age(r) BY <3>11 DEF Age
    <3>12. QED
      BY <2>1, <3>1, <3>2, <3>3, <3>4, <3>5, <3>6, <3>7, <3>8, <3>9, <3>10,
         <3>11 DEF RunStep
  <2>2. CASE Reap
    BY <2>2 DEF Reap, ReapedRows, StaleRows, Outcome
  <2>3. ASSUME NEW a \in Agent, ReapRelease(a) PROVE LockTypeOK'
    BY <2>3 DEF ReapRelease, ReaperKeys, LockKey
  <2>4. CASE Crash
    BY <2>4 DEF Crash, Stage
  <2>5. ASSUME NEW ok \in DbOk, Restart(ok) PROVE LockTypeOK'
    BY <2>5 DEF Restart, ReapedRows, Outcome
  <2>6. CASE UNCHANGED lockVars
    BY <2>6 DEF lockVars
  <2>7. QED BY <2>1, <2>2, <2>3, <2>4, <2>5, <2>6 DEF LockNext
<1>3. QED BY <1>1, <1>2, PTL DEF LockSpec

-----------------------------------------------------------------------------
(* The lock invariant *)

LEMMA KeyOfStable ==
  ASSUME kind' = kind, agent' = agent, NEW r \in Run
  PROVE  KeyOf(r)' = KeyOf(r) /\ Locks(r)' = Locks(r)
  BY DEF KeyOf, Locks

\* Steps that neither begin nor end a run, nor touch the set.
LEMMA LockInvKept ==
  ASSUME LockInv, LockTypeOK', kind' = kind, agent' = agent,
         running' = running, reaped' = reaped,
         \A q \in Run : Holds(q)' <=> Holds(q)
  PROVE  LockInv'
<1> USE KeyOfStable DEF LockInv
<1>1. HolderRegistered' BY DEF HolderRegistered
<1>2. ExclusiveUntilReaped' BY DEF ExclusiveUntilReaped, Overlap
<1>3. NoLeakedLock' BY DEF NoLeakedLock
<1>4. QED BY <1>1, <1>2, <1>3 DEF ReapedOrdinary

\* Steps that end run r with the release of its finally block.
LEMMA LockInvReleased ==
  ASSUME LockInv, LockTypeOK', kind' = kind, agent' = agent, reaped' = reaped,
         NEW r \in Run, Release(r), Locks(r) => Holds(r), ~Holds(r)',
         \A q \in Run \ {r} : Holds(q)' <=> Holds(q)
  PROVE  LockInv'
<1> USE KeyOfStable DEF LockInv
<1>1. \A q \in Run : Holds(q)' => q # r /\ Holds(q)
  OBVIOUS
<1>2. HolderRegistered'
  <2> SUFFICES ASSUME NEW q \in Run, Holds(q)'
               PROVE  KeyOf(q) \in running' \cup reaped'
    BY DEF HolderRegistered
  <2>1. q # r /\ Holds(q) /\ KeyOf(q) \in running \cup reaped
    BY <1>1 DEF HolderRegistered
  <2>2. CASE KeyOf(q) \in reaped BY <2>2
  <2>3. CASE KeyOf(q) \in running /\ KeyOf(q) \notin reaped
    <3>1. Locks(r) => KeyOf(r) # KeyOf(q)
      BY <2>1, <2>3 DEF ExclusiveUntilReaped, Overlap
    <3>2. QED BY <2>3, <3>1 DEF Release
  <2>4. QED BY <2>1, <2>2, <2>3
<1>3. ExclusiveUntilReaped'
  BY <1>1 DEF ExclusiveUntilReaped, Overlap
<1>4. NoLeakedLock'
  <2> SUFFICES ASSUME NEW k \in running'
               PROVE  \E q \in Run : Holds(q)' /\ KeyOf(q) = k
    BY DEF NoLeakedLock
  <2>1. k \in running /\ (Locks(r) => k # KeyOf(r))
    BY DEF Release
  <2>2. PICK q \in Run : Holds(q) /\ KeyOf(q) = k
    BY <2>1 DEF NoLeakedLock
  <2>3. q # r BY <2>1, <2>2 DEF Holds
  <2>4. QED BY <2>2, <2>3
<1>5. QED BY <1>2, <1>3, <1>4 DEF ReapedOrdinary

LEMMA LockInvBegin ==
  ASSUME LockInv, LockTypeOK', NEW r \in Run, Acquire(r)
  PROVE  LockInv'
<1> USE DEF LockInv
<1>1. kind' = kind /\ agent' = agent /\ reaped' = reaped
  BY DEF Acquire
<1>2. \A q \in Run : KeyOf(q)' = KeyOf(q) /\ Locks(q)' = Locks(q)
  BY <1>1, KeyOfStable
<1>3. \A q \in Run \ {r} : Holds(q)' <=> Holds(q)
  BY <1>2 DEF Acquire, Holds, LockTypeOK
<1>4. ~Holds(r) /\ (Holds(r)' <=> Locks(r))
  BY <1>2 DEF Acquire, Holds, LockTypeOK
<1>5. running' = IF Locks(r) THEN running \cup {KeyOf(r)} ELSE running
  BY DEF Acquire
<1>6. HolderRegistered'
  BY <1>1, <1>2, <1>3, <1>4, <1>5 DEF HolderRegistered
<1>7. \A q \in Run \ {r} :
        Holds(q) /\ Locks(r) /\ KeyOf(q) = KeyOf(r) => KeyOf(q) \in reaped
  BY DEF Acquire, MayAcquire, HolderRegistered
<1>8. ExclusiveUntilReaped'
  BY <1>1, <1>2, <1>3, <1>4, <1>7 DEF ExclusiveUntilReaped, Overlap
<1>9. NoLeakedLock'
  <2> SUFFICES ASSUME NEW k \in running'
               PROVE  \E q \in Run : Holds(q)' /\ KeyOf(q) = k
    BY <1>2 DEF NoLeakedLock
  <2>1. CASE k \in running
    BY <2>1, <1>3, <1>4 DEF NoLeakedLock
  <2>2. CASE Locks(r) /\ k = KeyOf(r)
    BY <2>2, <1>4
  <2>3. QED BY <2>1, <2>2, <1>5
<1>10. QED BY <1>1, <1>6, <1>8, <1>9 DEF ReapedOrdinary

LEMMA LockInvReapRelease ==
  ASSUME LockInv, LockTypeOK', NEW a \in Agent, ReapRelease(a)
  PROVE  LockInv'
<1> USE DEF LockInv
<1>1. /\ kind' = kind /\ agent' = agent /\ stage' = stage
      /\ running' = running \ {<<a, "runs">>}
      /\ reaped' = reaped \cup {<<a, "runs">>}
  BY DEF ReapRelease, ReaperKeys
<1>2. \A q \in Run : KeyOf(q)' = KeyOf(q) /\ (Holds(q)' <=> Holds(q))
  BY <1>1 DEF KeyOf, Holds, Locks
<1>3. HolderRegistered' BY <1>1, <1>2 DEF HolderRegistered
<1>4. ExclusiveUntilReaped'
  BY <1>1, <1>2 DEF ExclusiveUntilReaped, Overlap
<1>5. NoLeakedLock' BY <1>1, <1>2 DEF NoLeakedLock
<1>6. QED BY <1>1, <1>3, <1>4, <1>5 DEF ReapedOrdinary

LEMMA LockInvStep == LockInv /\ LockTypeOK' /\ [LockNext]_lockVars => LockInv'
<1> SUFFICES ASSUME LockInv, LockTypeOK', [LockNext]_lockVars PROVE LockInv'
  OBVIOUS
<1>1. ASSUME NEW r \in Run, RunStep(r) PROVE LockInv'
  <2> USE DEF Holds, Locks, LockTypeOK
  <2>1. CASE Skip(r) BY <2>1, LockInvKept DEF Skip, LockInv
  <2>2. CASE BreakerSkip(r) BY <2>2, LockInvKept DEF BreakerSkip, LockInv
  <2>3. CASE Acquire(r) BY <2>3, LockInvBegin
  <2>4. CASE Record(r) BY <2>4, LockInvKept DEF Record, LockInv
  <2>5. CASE FirstCall(r) BY <2>5, LockInvKept DEF FirstCall, LockInv
  <2>6. CASE SetupRaises(r)
    BY <2>6, LockInvReleased DEF SetupRaises, LockInv
  <2>7. CASE Finish(r) BY <2>7, LockInvKept DEF Finish, LockInv
  <2>8. CASE Persist(r) BY <2>8, LockInvKept DEF Persist, LockInv
  <2>9. CASE Settle(r) BY <2>9, LockInvReleased DEF Settle, LockInv
  <2>10. CASE SafetyTimeout(r)
    BY <2>10, LockInvReleased DEF SafetyTimeout, LockInv
  <2>11. CASE Age(r) BY <2>11, LockInvKept DEF Age, LockInv
  <2>12. QED
    BY <1>1, <2>1, <2>2, <2>3, <2>4, <2>5, <2>6, <2>7, <2>8, <2>9, <2>10,
       <2>11 DEF RunStep
<1>2. CASE Reap
  BY <1>2, LockInvKept DEF Reap, Holds, Locks
<1>3. ASSUME NEW a \in Agent, ReapRelease(a) PROVE LockInv'
  BY <1>3, LockInvReapRelease
<1>4. CASE Crash
  <2>1. running' = {} /\ reaped' = {} /\ \A q \in Run : ~Holds(q)'
    BY <1>4 DEF Crash, Holds, LockInv, LockTypeOK
  <2>2. QED
    BY <2>1 DEF LockInv, HolderRegistered, ExclusiveUntilReaped, Overlap,
                NoLeakedLock, ReapedOrdinary
<1>5. ASSUME NEW ok \in DbOk, Restart(ok) PROVE LockInv'
  BY <1>5, LockInvKept DEF Restart, Holds, Locks
<1>6. CASE UNCHANGED lockVars
  BY <1>6, LockInvKept DEF lockVars, Holds, Locks
<1>7. QED BY <1>1, <1>2, <1>3, <1>4, <1>5, <1>6 DEF LockNext

\* The inductive invariant that carries the properties of the locks.
THEOREM LockInvariant == LockSpec => []LockInv
<1>1. LockInit => LockInv
  <2> SUFFICES ASSUME LockInit PROVE LockInv
    OBVIOUS
  <2>1. LockTypeOK BY DEF LockInit, LockTypeOK, Stage
  <2>2. \A r \in Run : ~Holds(r) BY DEF LockInit, Holds
  <2>3. running = {} /\ reaped = {} BY DEF LockInit
  <2>4. QED
    BY <2>1, <2>2, <2>3 DEF LockInv, HolderRegistered, ExclusiveUntilReaped,
                            Overlap, NoLeakedLock, ReapedOrdinary
<1>2. QED BY <1>1, LockInvStep, LocksTypeCorrect, PTL DEF LockSpec

\* Two runs of one key overlap only after the reaper has released that key:
\* dedup.py is right, for any number of runs, but for the reaper.
THEOREM ExclusionUntilReaped == LockSpec => []ExclusiveUntilReaped
<1>1. LockInv => ExclusiveUntilReaped BY DEF LockInv
<1>2. QED BY <1>1, LockInvariant, PTL

\* Whatever way a run ends, it never leaves its key behind in the set.
THEOREM NoLockLeaks == LockSpec => []NoLeakedLock
<1>1. LockInv => NoLeakedLock BY DEF LockInv
<1>2. QED BY <1>1, LockInvariant, PTL

\* Two heartbeats of one agent are never under way together, reaper or not.
THEOREM HeartbeatExclusion == LockSpec => []HeartbeatsExclusive
<1>1. LockInv => HeartbeatsExclusive
  <2> SUFFICES ASSUME LockInv, NEW p \in Run, NEW q \in Run, Overlap(p, q),
                      kind[p] = "heartbeat"
               PROVE  FALSE
    BY DEF HeartbeatsExclusive
  <2>1. KeyOf(p) \in reaped BY DEF LockInv, ExclusiveUntilReaped
  <2>2. KeyOf(p) = <<agent[p], "heartbeat">> BY DEF KeyOf
  <2>3. QED BY <2>1, <2>2 DEF LockInv, ReapedOrdinary
<1>2. QED BY <1>1, LockInvariant, PTL

\* All three: locks exclude all that the reaper has not released, heartbeats
\* always, and every locked key has a run that will release it.
THEOREM KeysAreSound == LockSpec => []KeysSound
<1>1. ExclusiveUntilReaped /\ HeartbeatsExclusive /\ NoLeakedLock => KeysSound
  BY DEF KeysSound
<1>2. QED BY <1>1, ExclusionUntilReaped, HeartbeatExclusion, NoLockLeaks, PTL

-----------------------------------------------------------------------------
(* The circuit breaker *)

\* Keys that the breaker does not answer for.
Loose == reaped \cup blind

\* A scheduled run under way whose key the reaper left alone found the
\* breaker closed, and nobody has raised the count of its key since.
CountBelow ==
  \A r \in Run : Scheduled(r) /\ Holds(r) /\ KeyOf(r) \notin Loose
                   => errors[KeyOf(r)] < Threshold

\* One step: CountBelow is kept and the counts of intact keys stay bounded.
CountStep ==
  \A k \in LockKey : errors'[k] > errors[k] /\ errors'[k] > Threshold
                   => k \in Loose

LEMMA CountKept ==
  ASSUME LockInv, LockInv', CountBelow, kind' = kind, agent' = agent,
         errors' = errors, Loose \subseteq Loose',
         \A q \in Run : Holds(q)' => Holds(q)
  PROVE  CountBelow' /\ CountStep
<1>1. \A q \in Run : KeyOf(q)' = KeyOf(q) /\ Scheduled(q)' = Scheduled(q)
  BY DEF KeyOf, Scheduled
<1>2. CountBelow' BY <1>1 DEF CountBelow
<1>3. CountStep BY DEF CountStep, LockInv, LockTypeOK
<1>4. QED BY <1>2, <1>3

LEMMA CountRunKept ==
  ASSUME LockInv, LockInv', CountBelow, kind' = kind, agent' = agent,
         Loose' = Loose, DbOk \subseteq BOOLEAN,
         NEW r \in Run, NEW failed \in BOOLEAN, CountRun(r, failed),
         Scheduled(r) => Holds(r), ~Holds(r)',
         \A q \in Run \ {r} : Holds(q)' <=> Holds(q)
  PROVE  CountBelow' /\ CountStep
<1>1. \A q \in Run : KeyOf(q)' = KeyOf(q) /\ Scheduled(q)' = Scheduled(q)
  BY DEF KeyOf, Scheduled
<1>2. \A q \in Run : KeyOf(q) \in LockKey
  BY KeyOfType DEF LockInv
<1>3. errors \in [LockKey -> Nat] BY DEF LockInv, LockTypeOK
<1>4. \/ errors' = errors
      \/ /\ Scheduled(r)
         /\ \E n \in {0, 1, errors[KeyOf(r)] + 1} :
              errors' = [errors EXCEPT ![KeyOf(r)] = n]
  BY DEF CountRun
<1>5. CountBelow'
  <2> SUFFICES ASSUME NEW q \in Run, Scheduled(q), Holds(q)',
                      KeyOf(q) \notin Loose
               PROVE  errors'[KeyOf(q)] < Threshold
    BY <1>1 DEF CountBelow
  <2>1. q # r /\ Holds(q) /\ errors[KeyOf(q)] < Threshold
    BY DEF CountBelow
  <2>2. Scheduled(r) => KeyOf(q) # KeyOf(r)
    BY <2>1 DEF LockInv, ExclusiveUntilReaped, Overlap, Loose
  <2>3. QED BY <1>2, <1>3, <1>4, <2>1, <2>2
<1>6. CountStep
  <2> SUFFICES ASSUME NEW k \in LockKey, errors'[k] > errors[k],
                      errors'[k] > Threshold, k \notin Loose
               PROVE  FALSE
    BY DEF CountStep
  <2>1. Scheduled(r) /\ k = KeyOf(r) /\ errors'[k] \in {0, 1, errors[k] + 1}
    BY <1>2, <1>3, <1>4
  <2>2. errors[k] < Threshold BY <2>1 DEF CountBelow
  <2>3. QED BY <1>3, <2>1, <2>2, ThresholdAssumption
<1>7. QED BY <1>5, <1>6

LEMMA CountBegin ==
  ASSUME LockInv, LockInv', CountBelow,
         NEW r \in Run, Acquire(r)
  PROVE  CountBelow' /\ CountStep
<1>1. kind' = kind /\ agent' = agent /\ errors' = errors
      /\ Loose \subseteq Loose'
  BY DEF Acquire, Loose
<1>2. \A q \in Run : KeyOf(q)' = KeyOf(q) /\ Scheduled(q)' = Scheduled(q)
  BY <1>1 DEF KeyOf, Scheduled
<1>3. \A q \in Run \ {r} : Holds(q)' <=> Holds(q)
  BY DEF Acquire, Holds, Locks, LockInv, LockTypeOK
<1>4. KeyOf(r) \in LockKey /\ errors \in [LockKey -> Nat]
  BY KeyOfType DEF LockInv, LockTypeOK
<1>5. Scheduled(r) /\ KeyOf(r) \notin Loose' => errors[KeyOf(r)] < Threshold
  BY <1>4, ThresholdAssumption DEF Acquire, BreakerOpen, Loose
<1>6. CountBelow' BY <1>1, <1>2, <1>3, <1>5 DEF CountBelow
<1>7. CountStep BY <1>1, <1>4 DEF CountStep, LockInv, LockTypeOK
<1>8. QED BY <1>6, <1>7

LEMMA CountNext ==
  LockInv /\ LockInv' /\ CountBelow /\ [LockNext]_lockVars
    => CountBelow' /\ [CountStep]_lockVars
<1> SUFFICES ASSUME LockInv, LockInv', CountBelow, [LockNext]_lockVars
             PROVE  CountBelow' /\ CountStep
  OBVIOUS
<1>0. DbOk \subseteq BOOLEAN BY DEF DbOk
<1>1. ASSUME NEW r \in Run, RunStep(r) PROVE CountBelow' /\ CountStep
  <2> USE <1>0 DEF Holds, Locks, Scheduled, LockInv, LockTypeOK, Loose
  <2>1. CASE Skip(r) BY <2>1, CountKept DEF Skip
  <2>2. CASE BreakerSkip(r) BY <2>2, CountKept DEF BreakerSkip
  <2>3. CASE Acquire(r) BY <2>3, CountBegin
  <2>4. CASE Record(r) BY <2>4, CountKept DEF Record
  <2>5. CASE FirstCall(r) BY <2>5, CountKept DEF FirstCall
  <2>6. CASE SetupRaises(r) BY <2>6, CountKept DEF SetupRaises
  <2>7. CASE Finish(r) BY <2>7, CountKept DEF Finish
  <2>8. CASE Persist(r) BY <2>8, CountKept DEF Persist
  <2>9. CASE Settle(r)
    <3>1. (result[r] # "completed") \in BOOLEAN OBVIOUS
    <3>2. QED BY <2>9, <3>1, CountRunKept DEF Settle
  <2>10. CASE SafetyTimeout(r)
    BY <2>10, CountRunKept DEF SafetyTimeout
  <2>11. CASE Age(r) BY <2>11, CountKept DEF Age
  <2>12. QED
    BY <1>1, <2>1, <2>2, <2>3, <2>4, <2>5, <2>6, <2>7, <2>8, <2>9, <2>10,
       <2>11 DEF RunStep
<1>2. CASE Reap
  BY <1>2, CountKept DEF Reap, Holds, Locks, Loose
<1>3. ASSUME NEW a \in Agent, ReapRelease(a) PROVE CountBelow' /\ CountStep
  BY <1>3, CountKept DEF ReapRelease, Holds, Locks, Loose
<1>4. CASE Crash
  <2>1. errors' = errors /\ \A q \in Run : ~Holds(q)'
    BY <1>4 DEF Crash, Holds, LockInv, LockTypeOK
  <2>2. QED BY <2>1 DEF CountBelow, CountStep, LockInv, LockTypeOK
<1>5. ASSUME NEW ok \in DbOk, Restart(ok) PROVE CountBelow' /\ CountStep
  BY <1>5, CountKept DEF Restart, Holds, Locks, Loose
<1>6. CASE UNCHANGED lockVars
  BY <1>6, CountKept DEF lockVars, Holds, Locks, Loose
<1>7. QED BY <1>1, <1>2, <1>3, <1>4, <1>5, <1>6 DEF LockNext

\* The error count of a key passes the breaker threshold only after the
\* reaper has released the key, or after a run took it without an answer
\* about the breaker.
THEOREM BreakerThreshold == LockSpec => BreakerHolds
<1>1. LockInit => CountBelow
  BY DEF LockInit, CountBelow, Holds
<1>2. LockInv /\ LockInv' /\ CountBelow /\ [LockNext]_lockVars
        => CountBelow' /\ [CountStep]_lockVars
  BY CountNext
<1>3. [CountStep]_lockVars =>
        [\A k \in LockKey : errors'[k] > errors[k] /\ errors'[k] > Threshold
                          => k \in reaped \cup blind]_lockVars
  BY DEF CountStep, Loose
<1>4. QED BY <1>1, <1>2, <1>3, LockInvariant, PTL DEF LockSpec, BreakerHolds

-----------------------------------------------------------------------------
(* StallWatchdog: the watchdog and the timeouts of a run. *)

\* No run executes in the task of a run that has not begun ...
NotYetParent ==
  \A p, c \in Run : state[p] = "unused" /\ host[c] = p => c = p
\* ... nor, other than itself, in the task of the one that began last.
LatestAlone == \A c \in Run : host[c] = active => c = active

\* A watchdog that is touched has not waited longer than its run.
IdleIsQuiet ==
  \A r \in Run : r = active \/ state[r] = "unused" => idle[r] <= quiet[r]

OnlyBegunFlagged == \A r \in flagged : state[r] # "unused"

\* The latest run, once flagged, is on its way to look at the flag.
FlaggedOverdue ==
  \A r \in flagged : r = active /\ Alive(r) => state[r] = "top" /\ Overdue(r)

TypeInv == WatchTypeOK /\ NoStrayWatchdog
LatestInv == /\ NotYetParent /\ LatestAlone /\ IdleIsQuiet
             /\ OnlyBegunFlagged /\ FlaggedOverdue

\* Whose execution a cancellation ends.
LEMMA Inners ==
  ASSUME WatchTypeOK, NEW r \in Run
  PROVE  /\ Inner(r) \in Run
         /\ \/ Inner(r) = r
            \/ Alive(Inner(r)) /\ host[Inner(r)] = r /\ Inner(r) # r
  BY DEF Inner, ChildrenOf

\* What a cancellation of r's task may do.
LEMMA Cancels ==
  ASSUME WatchTypeOK, NEW r \in Run, NEW W \in SUBSET Run, CancelTask(r, W)
  PROVE  /\ \/ /\ state' = [state EXCEPT ![Inner(r)] = "timeout"]
               /\ watching' = W \ {Inner(r)}
            \/ /\ state[Inner(r)] = "busy"
               /\ state' = [state EXCEPT ![Inner(r)] = "top"]
               /\ watching' = W
         /\ \A q \in Run : idle'[q] = idle[q] \/ idle'[q] = 0
         /\ idle' \in [Run -> 0 .. Limit + 1]
  BY LimitAssumption DEF CancelTask, Touched, WatchTypeOK

\* Every variable has its type in every reachable state, and no watchdog
\* outlives its run.
LEMMA TypeStart == WatchInit => TypeInv
  BY LimitAssumption DEF WatchInit, TypeInv, WatchTypeOK, NoStrayWatchdog, State

LEMMA TypeStep == TypeInv /\ [WatchNext]_watchVars => TypeInv'
<1> SUFFICES ASSUME TypeInv, [WatchNext]_watchVars PROVE TypeInv'
  OBVIOUS
<1>1. WatchTypeOK /\ NoStrayWatchdog
  BY DEF TypeInv
<1>2. ASSUME NEW r \in Run, NEW p \in Run, Begin(r, p) PROVE TypeInv'
  BY <1>1, <1>2 DEF TypeInv, Begin, WatchTypeOK, NoStrayWatchdog, Alive, State
<1>3. ASSUME NEW r \in Run, Iterate(r) PROVE TypeInv'
  <2>1. turn' \in [Run -> 0 .. Cap]
    BY <1>1, <1>3, LimitAssumption DEF Iterate, CapReached, WatchTypeOK
  <2>2. state' \in [Run -> State] /\ watching' \subseteq watching /\ aborted' \subseteq Run
    BY <1>1, <1>3 DEF Iterate, Stopped, WatchTypeOK, State
  <2>3. NoStrayWatchdog'
    BY <1>1, <1>3 DEF Iterate, Stopped, NoStrayWatchdog, Alive, WatchTypeOK
  <2>4. QED BY <1>1, <1>3, <2>1, <2>2, <2>3 DEF TypeInv, Iterate, WatchTypeOK
<1>4. ASSUME NEW r \in Run, Respond(r) PROVE TypeInv'
  <2>1. idle' \in [Run -> 0 .. Limit + 1] /\ quiet' \in [Run -> 0 .. Limit + 1]
    <3>1. idle' = [idle EXCEPT ![active] = 0] /\ quiet' = [quiet EXCEPT ![r] = 0]
      BY <1>4 DEF Respond, Touched
    <3>2. 0 \in 0 .. Limit + 1 BY LimitAssumption
    <3>3. QED BY <1>1, <3>1, <3>2 DEF WatchTypeOK
  <2>2. state' \in [Run -> State] /\ watching' \subseteq watching
    BY <1>1, <1>4 DEF Respond, Stopped, WatchTypeOK, State
  <2>3. NoStrayWatchdog'
    BY <1>1, <1>4 DEF Respond, Stopped, NoStrayWatchdog, Alive, WatchTypeOK
  <2>4. QED BY <1>1, <1>4, <2>1, <2>2, <2>3 DEF TypeInv, Respond, WatchTypeOK
<1>5. ASSUME NEW r \in Run, NEW W \in SUBSET watching, CancelTask(r, W),
             UNCHANGED <<host, active, age, turn, quiet, aborted>>,
             flagged' \subseteq Run, expired' \subseteq Run
      PROVE  TypeInv'
  <2>1. W \in SUBSET Run BY <1>1 DEF WatchTypeOK
  <2>2. idle' \in [Run -> 0 .. Limit + 1] BY <1>1, <1>5, <2>1, Cancels
  <2>3. Inner(r) \in Run BY <1>1, Inners
  <2>4. state' \in [Run -> State] /\ watching' \subseteq Run
    BY <1>1, <1>5, <2>1, <2>3, Cancels DEF WatchTypeOK, State
  <2>5. NoStrayWatchdog'
    BY <1>1, <1>5, <2>1, <2>3, Cancels DEF NoStrayWatchdog, Alive, WatchTypeOK
  <2>6. QED BY <1>1, <1>5, <2>2, <2>4, <2>5 DEF TypeInv, WatchTypeOK
<1>6. ASSUME NEW r \in Run, Fire(r) PROVE TypeInv'
  BY <1>1, <1>5, <1>6 DEF Fire, WatchTypeOK
<1>7. ASSUME NEW r \in Run, HardTimeout(r) PROVE TypeInv'
  BY <1>1, <1>5, <1>7 DEF HardTimeout, WatchTypeOK
<1>8. CASE Tick
  <2>1. idle' \in [Run -> 0 .. Limit + 1] /\ quiet' \in [Run -> 0 .. Limit + 1]
        /\ age' \in [Run -> 0 .. Hard + 1]
    BY <1>1, <1>8, LimitAssumption DEF Tick, Up, WatchTypeOK
  <2>2. QED BY <1>1, <1>8, <2>1 DEF TypeInv, Tick, WatchTypeOK, NoStrayWatchdog, Alive
<1>9. CASE UNCHANGED watchVars
  BY <1>1, <1>9 DEF TypeInv, watchVars, WatchTypeOK, NoStrayWatchdog, Alive
<1>10. QED
  BY <1>2, <1>3, <1>4, <1>6, <1>7, <1>8, <1>9 DEF WatchNext, StartTop, SpawnChild

THEOREM WatchdogTypeCorrect == WatchSpec => []WatchTypeOK
<1>1. TypeInv => WatchTypeOK BY DEF TypeInv
<1>2. QED BY <1>1, TypeStart, TypeStep, PTL DEF WatchSpec

\* However a run ends, its watchdog ends with it.
THEOREM WatchdogsEnd == WatchSpec => []NoStrayWatchdog
<1>1. TypeInv => NoStrayWatchdog BY DEF TypeInv
<1>2. QED BY <1>1, TypeStart, TypeStep, PTL DEF WatchSpec

-----------------------------------------------------------------------------
(* The run that began last *)

LEMMA LatestStart == WatchInit => LatestInv
  BY LimitAssumption DEF WatchInit, LatestInv, NotYetParent, LatestAlone, IdleIsQuiet,
     OnlyBegunFlagged, FlaggedOverdue

\* What the steps other than Begin and Tick have in common.
LEMMA SameRuns ==
  ASSUME WatchTypeOK, LatestInv, UNCHANGED <<host, active>>, WatchTypeOK',
         \A r \in Run : (state'[r] = "unused") <=> (state[r] = "unused")
  PROVE  NotYetParent' /\ LatestAlone'
  BY DEF LatestInv, NotYetParent, LatestAlone

LEMMA CancelLatest ==
  ASSUME WatchTypeOK, LatestInv, WatchTypeOK', NEW r \in Run, NEW W \in SUBSET Run, Alive(r),
         CancelTask(r, W), UNCHANGED <<host, active, age, quiet>>,
         flagged \subseteq flagged', flagged' \subseteq flagged \cup {r},
         r \in flagged' /\ r \notin flagged => Overdue(r) \/ r # active
  PROVE  LatestInv'
<1>1. /\ Inner(r) \in Run
      /\ Alive(Inner(r))
      /\ Inner(r) # r => host[Inner(r)] = r
  BY Inners
<1>2. Inner(r) = active \/ r = active => r = Inner(r) \/ host[active] = r
  BY <1>1 DEF LatestInv, LatestAlone
<1>3. \A q \in Run : (state'[q] = "unused") <=> (state[q] = "unused")
  BY <1>1, Cancels DEF WatchTypeOK, Alive
<1>4. NotYetParent' /\ LatestAlone'
  BY <1>3, SameRuns
<1>5. IdleIsQuiet'
  <2>1. \A q \in Run : idle'[q] = idle[q] \/ idle'[q] = 0 BY Cancels
  <2>2. \A q \in Run : idle[q] \in Nat /\ quiet[q] \in Nat
    BY LimitAssumption DEF WatchTypeOK
  <2>3. QED BY <1>3, <2>1, <2>2 DEF LatestInv, IdleIsQuiet
<1>6. OnlyBegunFlagged'
  BY <1>3 DEF LatestInv, OnlyBegunFlagged, Alive, WatchTypeOK
<1>7. FlaggedOverdue'
  <2> SUFFICES ASSUME NEW q \in Run, q \in flagged', q = active, Alive(q)'
               PROVE  state'[q] = "top" /\ Overdue(q)'
    BY DEF FlaggedOverdue, WatchTypeOK
  <2>1. CASE q = Inner(r)
    <3>1. state[q] = "busy" /\ state'[q] = "top"
      BY <1>1, <2>1, Cancels DEF Alive, WatchTypeOK
    <3>2. q \notin flagged
      BY <1>1, <2>1, <3>1 DEF LatestInv, FlaggedOverdue
    <3>3. q = r /\ Overdue(r) BY <3>2
    <3>4. QED BY <3>1, <3>3 DEF Overdue
  <2>2. CASE q # Inner(r)
    <3>1. state'[q] = state[q] BY <1>1, <2>2, Cancels DEF WatchTypeOK
    <3>2. q # r BY <1>1, <2>2 DEF LatestInv, LatestAlone
    <3>3. q \in flagged /\ Alive(q) BY <3>1, <3>2 DEF Alive
    <3>4. QED BY <3>1, <3>3 DEF LatestInv, FlaggedOverdue, Overdue
  <2>3. QED BY <2>1, <2>2
<1>8. QED BY <1>4, <1>5, <1>6, <1>7 DEF LatestInv

LEMMA LatestStep == TypeInv /\ LatestInv /\ [WatchNext]_watchVars => LatestInv'
<1> SUFFICES ASSUME TypeInv, LatestInv, [WatchNext]_watchVars PROVE LatestInv'
  OBVIOUS
<1>1. WatchTypeOK /\ NoStrayWatchdog /\ WatchTypeOK'
  BY TypeStep DEF TypeInv
<1>2. \A r \in Run : idle[r] \in Nat /\ quiet[r] \in Nat /\ age[r] \in Nat
  BY <1>1, LimitAssumption DEF WatchTypeOK
<1>3. ASSUME NEW r \in Run, NEW p \in Run, Begin(r, p), p = r \/ state[p] = "busy"
      PROVE  LatestInv'
  <2>1. /\ state[r] = "unused" /\ active' = r
        /\ \A q \in Run : state'[q] = IF q = r THEN "top" ELSE state[q]
        /\ \A q \in Run : host'[q] = IF q = r THEN p ELSE host[q]
    BY <1>1, <1>3 DEF Begin, WatchTypeOK
  <2>2. NotYetParent'
    BY <1>3, <2>1 DEF LatestInv, NotYetParent
  <2>3. LatestAlone'
    BY <1>3, <2>1 DEF LatestInv, NotYetParent, LatestAlone
  <2>4. IdleIsQuiet'
    BY <1>3, <2>1 DEF Begin, LatestInv, IdleIsQuiet
  <2>5. OnlyBegunFlagged'
    BY <1>1, <1>3, <2>1 DEF Begin, LatestInv, OnlyBegunFlagged, WatchTypeOK
  <2>6. r \notin flagged' BY <1>3, <2>1 DEF Begin, LatestInv, OnlyBegunFlagged
  <2>7. FlaggedOverdue' BY <2>1, <2>6 DEF FlaggedOverdue
  <2>8. QED BY <2>2, <2>3, <2>4, <2>5, <2>7 DEF LatestInv
<1>4. ASSUME NEW r \in Run, Iterate(r) PROVE LatestInv'
  <2>1. /\ state[r] = "top" /\ state'[r] \in {"completed", "busy"}
        /\ \A q \in Run \ {r} : state'[q] = state[q]
        /\ UNCHANGED <<host, active, flagged, idle, age, quiet>>
    BY <1>1, <1>4 DEF Iterate, WatchTypeOK
  <2>2. NotYetParent' /\ LatestAlone'
    BY <1>1, <2>1, SameRuns
  <2>3. IdleIsQuiet' BY <2>1 DEF LatestInv, IdleIsQuiet
  <2>4. OnlyBegunFlagged' BY <1>1, <2>1 DEF LatestInv, OnlyBegunFlagged, WatchTypeOK
  <2>5. FlaggedOverdue'
    <3> SUFFICES ASSUME NEW q \in Run, q \in flagged', q = active', Alive(q)'
                 PROVE  state'[q] = "top" /\ Overdue(q)'
      BY <1>1 DEF FlaggedOverdue, WatchTypeOK
    <3>1. AbortFlagged
      BY <2>1, NoneAssumption DEF AbortFlagged
    <3>2. state'[r] = "completed" BY <1>1, <1>4, <3>1 DEF Iterate, WatchTypeOK
    <3>3. q # r BY <3>2 DEF Alive
    <3>4. QED BY <2>1, <3>3 DEF LatestInv, FlaggedOverdue, Alive, Overdue
  <2>6. QED BY <2>2, <2>3, <2>4, <2>5 DEF LatestInv
<1>5. ASSUME NEW r \in Run, Respond(r) PROVE LatestInv'
  <2>1. /\ state[r] = "busy" /\ state'[r] \in {"completed", "top"}
        /\ \A q \in Run \ {r} : state'[q] = state[q]
        /\ UNCHANGED <<host, active, flagged, age>>
    BY <1>1, <1>5 DEF Respond, WatchTypeOK
  <2>2. NotYetParent' /\ LatestAlone'
    BY <1>1, <2>1, SameRuns
  <2>3. /\ \A q \in Run : idle'[q] = IF q = active THEN 0 ELSE idle[q]
        /\ \A q \in Run : quiet'[q] = IF q = r THEN 0 ELSE quiet[q]
    BY <1>1, <1>5 DEF Respond, Touched, WatchTypeOK
  <2>4. IdleIsQuiet' BY <1>2, <2>1, <2>3 DEF LatestInv, IdleIsQuiet
  <2>5. OnlyBegunFlagged' BY <1>1, <2>1 DEF LatestInv, OnlyBegunFlagged, WatchTypeOK
  <2>6. FlaggedOverdue'
    BY <1>1, <2>1, <2>3 DEF LatestInv, FlaggedOverdue, Alive, Overdue, WatchTypeOK
  <2>7. QED BY <2>2, <2>4, <2>5, <2>6 DEF LatestInv
<1>6. ASSUME NEW r \in Run, Fire(r) PROVE LatestInv'
  <2>1. Alive(r) /\ watching \ {r} \in SUBSET Run
    BY <1>1, <1>6 DEF Fire, NoStrayWatchdog, WatchTypeOK
  <2>2. r = active => Overdue(r)
    BY <1>2, <1>6, LimitAssumption DEF Fire, Stalled, Overdue, LatestInv, IdleIsQuiet
  <2>3. QED BY <1>1, <1>6, <2>1, <2>2, CancelLatest DEF Fire
<1>7. ASSUME NEW r \in Run, HardTimeout(r) PROVE LatestInv'
  <2>1. watching \in SUBSET Run BY <1>1 DEF WatchTypeOK
  <2>2. QED BY <1>1, <1>7, <2>1, CancelLatest DEF HardTimeout
<1>8. CASE Tick
  <2>1. UNCHANGED <<state, host, active, flagged>> BY <1>8 DEF Tick
  <2>2. /\ \A r \in Run : idle'[r] = IF Alive(r) /\ idle[r] < Limit + 1
                                     THEN idle[r] + 1 ELSE idle[r]
        /\ \A r \in Run : quiet'[r] = IF Alive(r) /\ quiet[r] < Limit + 1
                                      THEN quiet[r] + 1 ELSE quiet[r]
        /\ \A r \in Run : age'[r] = IF Alive(r) /\ age[r] < Hard + 1
                                    THEN age[r] + 1 ELSE age[r]
    BY <1>8 DEF Tick, Up
  <2>3. NotYetParent' /\ LatestAlone' BY <1>1, <2>1, SameRuns
  <2>4. IdleIsQuiet'
    BY <1>1, <1>2, <2>1, <2>2, LimitAssumption DEF LatestInv, IdleIsQuiet, WatchTypeOK
  <2>5. OnlyBegunFlagged' BY <2>1 DEF LatestInv, OnlyBegunFlagged
  <2>6. \A r \in Run : Overdue(r) => Overdue(r)'
    BY <1>2, <2>2, LimitAssumption DEF Overdue
  <2>7. FlaggedOverdue'
    BY <1>1, <2>1, <2>6 DEF LatestInv, FlaggedOverdue, Alive, WatchTypeOK
  <2>8. QED BY <2>3, <2>4, <2>5, <2>7 DEF LatestInv
<1>9. CASE UNCHANGED watchVars
  BY <1>9 DEF watchVars, LatestInv, NotYetParent, LatestAlone, IdleIsQuiet,
     OnlyBegunFlagged, FlaggedOverdue, Alive, Overdue
<1>10. QED
  BY <1>3, <1>4, <1>5, <1>6, <1>7, <1>8, <1>9 DEF WatchNext, StartTop, SpawnChild

\* The run that began last, if no parent waits for it, is killed only after
\* that long without a response, or at its hard timeout, whatever the other
\* runs do.
THEOREM LatestKilledFairly == WatchSpec => LatestKilledOnlyIfIdle
<1>1. TypeInv /\ LatestInv /\ [WatchNext]_watchVars =>
        \A r \in Run : KilledStep(r) /\ active = r /\ host[r] = r => Overdue(r)
  <2> SUFFICES ASSUME TypeInv, LatestInv, [WatchNext]_watchVars, NEW r \in Run,
                      KilledStep(r), active = r, host[r] = r
               PROVE  Overdue(r)
    OBVIOUS
  <2>1. WatchTypeOK BY DEF TypeInv
  <2>2. Alive(r) BY DEF KilledStep
  <2>3. ASSUME UNCHANGED state, UNCHANGED aborted PROVE FALSE
    BY <2>2, <2>3 DEF KilledStep, Alive
  <2>4. \A q \in Run : idle[q] \in Nat /\ quiet[q] \in Nat
    BY <2>1, LimitAssumption DEF WatchTypeOK
  <2>5. ASSUME NEW q \in Run, NEW p \in Run, Begin(q, p) PROVE FALSE
    BY <2>1, <2>2, <2>5 DEF Begin, KilledStep, Alive, WatchTypeOK
  <2>6. ASSUME NEW q \in Run, Respond(q) PROVE FALSE
    BY <2>1, <2>2, <2>6 DEF Respond, KilledStep, Alive, WatchTypeOK
  <2>7. ASSUME NEW q \in Run, Iterate(q) PROVE Overdue(r)
    <3>1. state'[r] # "timeout" BY <2>1, <2>2, <2>7 DEF Iterate, Alive, WatchTypeOK
    <3>2. AbortFlagged BY <2>7, <3>1 DEF Iterate, KilledStep
    <3>3. QED BY <2>2, <3>2 DEF AbortFlagged, LatestInv, FlaggedOverdue
  <2>8. ASSUME NEW q \in Run, NEW W \in SUBSET Run, CancelTask(q, W),
               UNCHANGED aborted
        PROVE  q = r
    <3>1. state'[r] = "timeout" /\ state[r] # "timeout"
      BY <2>2, <2>8 DEF KilledStep, Alive
    <3>2. r = Inner(q) BY <2>1, <2>8, <3>1, Cancels, Inners DEF WatchTypeOK
    <3>3. QED BY <2>1, <3>2, Inners
  <2>9. ASSUME NEW q \in Run, Fire(q) PROVE Overdue(r)
    <3>1. watching \ {q} \in SUBSET Run BY <2>1 DEF WatchTypeOK
    <3>2. q = r BY <2>8, <2>9, <3>1 DEF Fire
    <3>3. QED
      BY <2>1, <2>4, <2>9, <3>2, LimitAssumption
      DEF Fire, Stalled, Overdue, LatestInv, IdleIsQuiet, WatchTypeOK
  <2>10. ASSUME NEW q \in Run, HardTimeout(q) PROVE Overdue(r)
    <3>1. watching \in SUBSET Run BY <2>1 DEF WatchTypeOK
    <3>2. q = r BY <2>8, <2>10, <3>1 DEF HardTimeout
    <3>3. QED BY <2>10, <3>2 DEF HardTimeout, Overdue
  <2>11. CASE Tick BY <2>3, <2>11 DEF Tick
  <2>12. CASE UNCHANGED watchVars BY <2>3, <2>12 DEF watchVars
  <2>13. QED
    BY <2>5, <2>6, <2>7, <2>9, <2>10, <2>11, <2>12 DEF WatchNext, StartTop, SpawnChild
<1>2. QED
  BY <1>1, TypeStart, TypeStep, LatestStart, LatestStep, PTL
     DEF WatchSpec, LatestKilledOnlyIfIdle

-----------------------------------------------------------------------------
(* AgentLoop: the conversation loop. *)

\* What record_tool_call appends, and that it changes nothing before it.
LEMMA Recording ==
  ASSUME NEW t \in TailOf, NEW k \in Nat, NEW note \in BOOLEAN,
         NEW u, u = RecordCall(t, k, note)
  PROVE  /\ u \in TailOf /\ u.calls = t.calls /\ u.own = t.own
         /\ Len(u.after) = Len(t.after) + 1
         /\ \A i \in 1..Len(t.after) : u.after[i] = t.after[i]
         /\ u.after[Len(t.after) + 1] =
              [of |-> k, own |-> TRUE, note |-> IF note THEN "own" ELSE "none"]
<1> DEFINE e == [of |-> k, own |-> TRUE, note |-> IF note THEN "own" ELSE "none"]
<1>1. e \in Entry
  BY DEF Entry
<1>2. t.calls \in Seq(Tools) /\ t.own \in BOOLEAN /\ t.after \in Seq(Entry)
  BY DEF TailOf
<1>3. u = [calls |-> t.calls, own |-> t.own, after |-> Append(t.after, e)]
  BY DEF RecordCall, TailOf
<1>4. u.after = Append(t.after, e) /\ u.after \in Seq(Entry)
  BY <1>1, <1>2, <1>3
<1>5. u \in TailOf
  BY <1>2, <1>3, <1>4 DEF TailOf
<1>6. /\ Len(u.after) = Len(t.after) + 1 /\ u.after[Len(t.after) + 1] = e
      /\ \A i \in 1..Len(t.after) : u.after[i] = t.after[i]
  BY <1>1, <1>2, <1>4, AppendProperties
<1> QED
  BY <1>3, <1>5, <1>6

\* What the interception of todo_write destroys: at most the content of the message
\* before it, never its place.
LEMMA Overwriting ==
  ASSUME NEW t \in TailOf, NEW u, u = Overwrite(t)
  PROVE  /\ u \in TailOf /\ u.calls = t.calls
         /\ Len(u.after) = Len(t.after)
         /\ Len(t.after) > 0 => u.own = t.own
         /\ \A i \in 1..Len(t.after) :
              /\ u.after[i].of = t.after[i].of
              /\ u.after[i].note = "none" <=> t.after[i].note = "none"
              /\ i < Len(t.after) => u.after[i] = t.after[i]
<1> DEFINE n == Len(t.after)
<1>1. t.calls \in Seq(Tools) /\ t.own \in BOOLEAN /\ t.after \in Seq(Entry) /\ n \in Nat
      /\ t = [calls |-> t.calls, own |-> t.own, after |-> t.after]
  BY DEF TailOf
<1>2. CASE n = 0
  <2>1. u = [t EXCEPT !.own = FALSE]
    BY <1>2 DEF Overwrite
  <2>2. u = [calls |-> t.calls, own |-> FALSE, after |-> t.after]
    BY <1>1, <2>1
  <2> QED
    BY <1>1, <1>2, <2>2 DEF TailOf
<1>3. CASE n > 0
  <2> DEFINE e == t.after[n]
             d == IF e.note = "none" THEN [e EXCEPT !.own = FALSE]
                  ELSE [e EXCEPT !.note = "lost"]
  <2>1. n \in 1..n /\ e \in Entry
    BY <1>1, <1>3
  <2>2. /\ d \in Entry /\ d.of = e.of
        /\ d.note = "none" <=> e.note = "none"
    BY <2>1 DEF Entry
  <2>3. u.calls = t.calls /\ u.own = t.own /\ u.after = [t.after EXCEPT ![n] = d]
        /\ u = [calls |-> t.calls, own |-> t.own, after |-> u.after]
    <3>0. n # 0
      BY <1>3
    <3>1. ASSUME e.note = "none" PROVE u = [t EXCEPT !.after[n].own = FALSE]
      BY <3>0, <3>1 DEF Overwrite
    <3>2. ASSUME e.note # "none" PROVE u = [t EXCEPT !.after[n].note = "lost"]
      BY <3>0, <3>2 DEF Overwrite
    <3>3. ASSUME e.note = "none"
          PROVE  u = [calls |-> t.calls, own |-> t.own,
                      after |-> [t.after EXCEPT ![n] = [e EXCEPT !.own = FALSE]]]
      BY <1>1, <3>1, <3>3
    <3>4. ASSUME e.note # "none"
          PROVE  u = [calls |-> t.calls, own |-> t.own,
                      after |-> [t.after EXCEPT ![n] = [e EXCEPT !.note = "lost"]]]
      BY <1>1, <3>2, <3>4
    <3>5. u = [calls |-> t.calls, own |-> t.own, after |-> [t.after EXCEPT ![n] = d]]
      BY <3>3, <3>4
    <3> HIDE DEF d
    <3> QED
      BY <3>5
  <2>4. u.after \in Seq(Entry) /\ Len(u.after) = n /\ u.after[n] = d
        /\ \A i \in 1..n : i # n => u.after[i] = t.after[i]
    <3> HIDE DEF d
    <3>1. n \in 1..Len(t.after) /\ t.after \in Seq(Entry)
      BY <1>1, <2>1
    <3> DEFINE v == [t.after EXCEPT ![n] = d]
    <3>3. /\ v \in Seq(Entry) /\ Len(v) = n
          /\ \A i \in 1..n : v[i] = IF i = n THEN d ELSE t.after[i]
      BY <2>2, <3>1, ExceptSeq
    <3> QED
      BY <2>3, <3>1, <3>3
  <2>5. u \in TailOf
    BY <1>1, <2>3, <2>4 DEF TailOf
  <2> HIDE DEF d
  <2> QED
    BY <1>1, <1>3, <2>2, <2>3, <2>4, <2>5
<1> QED
  BY <1>1, <1>2, <1>3

\* The next call of the batch of t is answered: its result follows, and perhaps a
\* note of the engine; a todo_write has gone through the message before.
Answered(t, u, note) ==
  \/ u = RecordCall(t, Len(t.after) + 1, note)
  \/ /\ t.calls[Len(t.after) + 1] = Todo
     /\ u = RecordCall(Overwrite(t), Len(t.after) + 1, note)

\* An answer leaves the answers before it in their places, and their notes.
LEMMA Answering ==
  ASSUME NEW t \in TailOf, NEW note \in BOOLEAN, NEW u, Answered(t, u, note)
  PROVE  /\ u \in TailOf /\ u.calls = t.calls
         /\ Len(u.after) = Len(t.after) + 1
         /\ u.after[Len(t.after) + 1].of = Len(t.after) + 1
         /\ u.after[Len(t.after) + 1].note # "none" <=> note
         /\ \A i \in 1..Len(t.after) :
              /\ u.after[i].of = t.after[i].of
              /\ u.after[i].note = "none" <=> t.after[i].note = "none"
<1>1. Len(t.after) + 1 \in Nat
  BY DEF TailOf
<1>2. CASE u = RecordCall(t, Len(t.after) + 1, note)
  <2>1. /\ u \in TailOf /\ u.calls = t.calls
        /\ Len(u.after) = Len(t.after) + 1
        /\ \A i \in 1..Len(t.after) : u.after[i] = t.after[i]
        /\ u.after[Len(t.after) + 1] =
             [of |-> Len(t.after) + 1, own |-> TRUE, note |-> IF note THEN "own" ELSE "none"]
    BY <1>1, <1>2, Recording
  <2> QED
    BY <2>1
<1>3. CASE u = RecordCall(Overwrite(t), Len(t.after) + 1, note)
  <2>1. PICK w : w = Overwrite(t)
    OBVIOUS
  <2>2. w \in TailOf /\ w.calls = t.calls /\ Len(w.after) = Len(t.after)
        /\ \A i \in 1..Len(t.after) :
              /\ w.after[i].of = t.after[i].of
              /\ w.after[i].note = "none" <=> t.after[i].note = "none"
    BY <2>1, Overwriting
  <2>3. u = RecordCall(w, Len(t.after) + 1, note)
    BY <1>3, <2>1
  <2>4. /\ u \in TailOf /\ u.calls = w.calls
        /\ Len(u.after) = Len(w.after) + 1
        /\ \A i \in 1..Len(w.after) : u.after[i] = w.after[i]
        /\ u.after[Len(w.after) + 1] =
             [of |-> Len(t.after) + 1, own |-> TRUE, note |-> IF note THEN "own" ELSE "none"]
    BY <1>1, <2>2, <2>3, Recording
  <2> QED
    BY <2>2, <2>4
<1> QED
  BY <1>2, <1>3 DEF Answered

\* So results stay in the order of the calls.
LEMMA OrderKept ==
  ASSUME NEW t \in TailOf, NEW note \in BOOLEAN, NEW u, Answered(t, u, note), InOrder(t)
  PROVE  InOrder(u)
<1>1. Len(t.after) \in Nat /\ DOMAIN t.after = 1..Len(t.after)
  BY DEF TailOf
<1>2. u \in TailOf /\ Len(u.after) = Len(t.after) + 1
  BY Answering
<1>3. DOMAIN u.after = 1..(Len(t.after) + 1)
  BY <1>2 DEF TailOf
<1> QED
  BY <1>1, <1>3, Answering DEF InOrder

\* And only a todo_write touches the content of a message that was there.
LEMMA ContentStays ==
  ASSUME NEW t \in TailOf, NEW note \in BOOLEAN, NEW u, Answered(t, u, note), ContentKept(t)
  PROVE  ContentKept(u)
<1> DEFINE n == Len(t.after)
<1>1. n \in Nat /\ DOMAIN t.after = 1..n
  BY DEF TailOf
<1>2. u \in TailOf /\ Len(u.after) = n + 1 /\ u.calls = t.calls
  BY Answering
<1>3. DOMAIN u.after = 1..(n + 1)
  BY <1>2 DEF TailOf
<1>4. CASE u = RecordCall(t, n + 1, note)
  <2>1. /\ u.own = t.own /\ \A i \in 1..n : u.after[i] = t.after[i]
        /\ u.after[n + 1] =
             [of |-> n + 1, own |-> TRUE, note |-> IF note THEN "own" ELSE "none"]
    BY <1>1, <1>4, Recording
  <2>2. u.after[n + 1].own /\ u.after[n + 1].note # "lost"
    BY <2>1
  <2> QED
    BY <1>1, <1>2, <1>3, <2>1, <2>2 DEF ContentKept
<1>5. CASE t.calls[n + 1] = Todo /\ u = RecordCall(Overwrite(t), n + 1, note)
  <2>1. PICK w : w = Overwrite(t)
    OBVIOUS
  <2>2. w \in TailOf /\ Len(w.after) = n /\ (n > 0 => w.own = t.own)
        /\ \A i \in 1..n : i < n => w.after[i] = t.after[i]
    BY <2>1, Overwriting
  <2>3. u = RecordCall(w, n + 1, note)
    BY <1>5, <2>1
  <2>3a. /\ u \in TailOf /\ u.calls = w.calls /\ u.own = w.own
         /\ Len(u.after) = Len(w.after) + 1
         /\ \A i \in 1..Len(w.after) : u.after[i] = w.after[i]
         /\ u.after[Len(w.after) + 1] =
              [of |-> Len(t.after) + 1, own |-> TRUE, note |-> IF note THEN "own" ELSE "none"]
    <3>1. Len(t.after) + 1 \in Nat
      BY <1>1
    <3>2. w \in TailOf
      BY <2>2
    <3>3. u = RecordCall(w, Len(t.after) + 1, note)
      BY <2>3
    <3> HIDE DEF n
    <3> QED
      BY <3>1, <3>2, <3>3, Recording
  <2>4. /\ u.own = w.own /\ \A i \in 1..n : u.after[i] = w.after[i]
        /\ u.after[n + 1] =
             [of |-> n + 1, own |-> TRUE, note |-> IF note THEN "own" ELSE "none"]
    BY <2>2, <2>3a
  <2>5. u.after[n + 1].own /\ u.after[n + 1].note # "lost"
    BY <2>4
  <2>6. u.own \/ (Len(u.after) > 0 /\ u.calls[1] = Todo)
    <3>1. CASE n = 0
      BY <1>1, <1>2, <1>5, <3>1
    <3>2. CASE n > 0
      BY <1>1, <1>2, <2>2, <2>4, <3>2 DEF ContentKept
    <3> QED
      BY <1>1, <3>1, <3>2
  <2>7. ASSUME NEW i \in 1..(n + 1)
        PROVE  \/ u.after[i].own /\ u.after[i].note # "lost"
               \/ i < Len(u.after) /\ u.calls[i + 1] = Todo
    <3>1. CASE i < n
      <4>1. u.after[i] = t.after[i] /\ i \in 1..n
        BY <1>1, <2>2, <2>4, <3>1
      <4>2. \/ t.after[i].own /\ t.after[i].note # "lost"
            \/ t.calls[i + 1] = Todo
        BY <1>1, <4>1 DEF ContentKept
      <4> QED
        BY <1>1, <1>2, <3>1, <4>1, <4>2
    <3>2. CASE i = n
      BY <1>1, <1>2, <1>5, <3>2
    <3>3. CASE i = n + 1
      BY <2>5, <3>3
    <3> QED
      BY <1>1, <3>1, <3>2, <3>3
  <2> QED
    BY <1>3, <2>6, <2>7 DEF ContentKept
<1> QED
  BY <1>4, <1>5 DEF Answered

\* An iteration is under way only below the safety cap.
Iterating ==
  at \in {"model", "tools", "recover", "helper"} => iteration < config.safetyCap

\* Between two tool calls a call is left.
Batched == at = "tools" => Len(tail.after) < Len(tail.calls)

LEMMA NoTailTyped == NoTail \in TailOf
BY DEF NoTail, TailOf

LEMMA BatchTail ==
  ASSUME NEW batch \in Batches
  PROVE  LET t == [NoTail EXCEPT !.calls = batch]
         IN /\ t \in TailOf /\ t.calls = batch /\ t.own = TRUE /\ t.after = <<>>
            /\ Len(batch) \in 1..MaxCalls
<1>1. PICK n \in 1..MaxCalls : batch \in [1..n -> Tools]
  BY DEF Batches
<1>2. batch \in Seq(Tools) /\ Len(batch) \in 1..MaxCalls
  BY <1>1, LoopAssumption
<1> QED
  <2>1. PICK t : t = [NoTail EXCEPT !.calls = batch]
    OBVIOUS
  <2>2. t = [calls |-> batch, own |-> TRUE, after |-> <<>>]
    BY <2>1 DEF NoTail
  <2>3. <<>> \in Seq(Entry)
    OBVIOUS
  <2>4. t \in TailOf /\ t.calls = batch /\ t.own = TRUE /\ t.after = <<>>
    BY <1>2, <2>2, <2>3 DEF TailOf
  <2> QED
    BY <1>2, <2>1, <2>4
LEMMA ToolKnown ==
  ASSUME LoopTypeOK, Batched, at = "tools"
  PROVE  tool \in Tools
BY DEF LoopTypeOK, TailOf, Batched, tool, call

\* The four outcomes of a tool call are answers to it.
LEMMA CallsAreAnswered ==
  ASSUME LoopTypeOK, Batched, TurnedDown \/ Blocked \/ Succeeds \/ Fails
  PROVE  /\ at = "tools" /\ NextCall /\ UNCHANGED <<config, phase, saved>>
         /\ tail' \in TailOf
         /\ \E note \in BOOLEAN :
              /\ Answered(tail, tail', note)
              /\ note => tool = Todo \/ failures'[tool] = NoteAfter
<1>0. tail \in TailOf
  BY DEF LoopTypeOK
<1>1. CASE TurnedDown
  BY <1>0, <1>1, Answering DEF TurnedDown, Answered, call
<1>2. CASE Blocked
  BY <1>0, <1>2, Answering DEF Blocked, Answered, call
<1>3. CASE Succeeds
  <2>1. PICK reminded \in {FALSE, tool = Todo} :
          tail' = RecordCall(IF tool = Todo THEN Overwrite(tail) ELSE tail, call, reminded)
    BY <1>3 DEF Succeeds
  <2>2. reminded \in BOOLEAN /\ (reminded => tool = Todo)
    BY <2>1
  <2>3. Answered(tail, tail', reminded)
    BY <2>1 DEF Answered, call, tool
  <2> QED
    BY <1>0, <1>3, <2>2, <2>3, Answering DEF Succeeds
<1>4. CASE Fails
  <2>1. tail' = RecordCall(tail, call, Failed(tool) = NoteAfter)
        /\ failures' = [failures EXCEPT ![tool] = Failed(tool)]
    BY <1>4 DEF Fails
  <2>2. PICK note : note = (Failed(tool) = NoteAfter)
    OBVIOUS
  <2>3. note \in BOOLEAN /\ Answered(tail, tail', note)
    BY <2>1, <2>2 DEF Answered, call
  <2>4. note => failures'[tool] = NoteAfter
    <3>1. tool \in DOMAIN failures
      BY <1>4, ToolKnown DEF Fails, LoopTypeOK
    <3> QED
      BY <2>1, <2>2, <3>1
  <2> QED
    BY <1>0, <1>4, <2>3, <2>4, Answering DEF Fails
<1> QED
  BY <1>1, <1>2, <1>3, <1>4

\* A helper is asked for only below the limit, and about an error.
Helping == at = "helper" => helped < MaxHelpers /\ iterErrors # <<>>

LoopBase == LoopTypeOK /\ Iterating /\ Batched /\ Helping

LEMMA LoopStarts == LoopInit => LoopBase
<1> SUFFICES ASSUME LoopInit PROVE LoopBase
  OBVIOUS
<1>1. LoopTypeOK
  <2>1. <<>> \in Seq(ErrorKinds)
    OBVIOUS
  <2>2. config \in Config /\ config.safetyCap \in Nat \ {0}
    BY LoopAssumption DEF LoopInit, Config
  <2>3. /\ failures \in [Tools -> 0..NoteAfter]
        /\ pastIters \in 0..(Grace + 1) /\ helped \in 0..MaxHelpers
    BY LoopAssumption DEF LoopInit
  <2> QED
    <3>1. /\ offered \in BOOLEAN /\ exhausted \in BOOLEAN /\ noticed \in BOOLEAN
          /\ aborting \in BOOLEAN /\ resumed \in BOOLEAN /\ strayed \subseteq {"run", "helper"}
      BY DEF LoopInit
    <3>2. /\ tail \in TailOf /\ saved \in TailOf
          /\ consec \in Nat /\ total \in Nat /\ consec <= total
      BY NoTailTyped DEF LoopInit
    <3>3. /\ iteration \in 0..config.safetyCap /\ successes \in Nat /\ overrun \in Nat
          /\ iterErrors \in Seq(ErrorKinds)
      BY <2>1, <2>2 DEF LoopInit
    <3> QED
      BY <2>2, <2>3, <3>1, <3>2, <3>3 DEF LoopInit, LoopTypeOK
<1> QED
  BY <1>1 DEF LoopInit, LoopBase, Iterating, Batched, Helping

LEMMA LoopContinues ==
  ASSUME LoopBase, [LoopNext]_loopVars
  PROVE  LoopBase'
<1> USE DEF LoopBase
<1>0. /\ config \in Config /\ config.safetyCap \in Nat \ {0}
      /\ tail \in TailOf /\ saved \in TailOf
      /\ iteration \in 0..config.safetyCap
  BY LoopAssumption DEF LoopTypeOK, Config
<1>1. CASE LeaveFlagged
  BY <1>1, <1>0
  DEF LeaveFlagged, Leave, EndWith, LoopTypeOK, Iterating, Batched, Helping, locals, ledger,
      history
<1>2. CASE ReachCap
  BY <1>2, <1>0 DEF ReachCap, LoopTypeOK, Iterating, Batched, Helping, locals, ledger, history
<1>3. CASE HardStop
  BY <1>3, <1>0 DEF HardStop, LoopTypeOK, Iterating, Batched, Helping, locals, ledger, history
<1>4. CASE Ask
  BY <1>4, <1>0, LoopAssumption
  DEF Ask, Past, LoopTypeOK, Iterating, Batched, Helping, locals, ledger, history
<1>5. CASE NoAnswer
  BY <1>5, <1>0
  DEF NoAnswer, EndWith, LoopTypeOK, Iterating, Batched, Helping, locals, ledger, history
<1>6. CASE Nudge
  BY <1>6, <1>0, NoTailTyped
  DEF Nudge, Spend, LoopTypeOK, Iterating, Batched, Helping, locals, ledger, history
<1>7. CASE FinalText
  BY <1>7, <1>0, NoTailTyped
  DEF FinalText, Leave, EndWith, Spend, LoopTypeOK, Iterating, Batched, Helping, locals, ledger,
      history
<1>8. CASE Calls
  <2>1. PICK batch \in Batches : tail' = [NoTail EXCEPT !.calls = batch]
    BY <1>8 DEF Calls
  <2>2. /\ tail' \in TailOf /\ tail'.calls = batch /\ tail'.after = <<>>
        /\ Len(batch) \in 1..MaxCalls
    BY <2>1, BatchTail
  <2>3. Batched'
    BY <2>2 DEF Batched
  <2>4. <<>> \in Seq(ErrorKinds)
    OBVIOUS
  <2> QED
    <3>1. exhausted' \in BOOLEAN
      BY <1>8 DEF Calls, Spend, LoopTypeOK
    <3>2. overrun' \in Nat
      BY <1>8 DEF Calls, LoopTypeOK
    <3> QED
      BY <1>8, <1>0, <2>2, <2>3, <2>4, <3>1, <3>2
      DEF Calls, Spend, LoopTypeOK, Iterating, Helping, locals, ledger, history
<1>9. CASE WrapUp
  BY <1>9, <1>0, NoTailTyped
  DEF WrapUp, Leave, EndWith, Spend, LoopTypeOK, Iterating, Batched, Helping, locals, ledger,
      history
<1>10. CASE TurnedDown \/ Blocked \/ Succeeds \/ Fails
  <2>1. /\ at = "tools" /\ NextCall /\ UNCHANGED <<config, phase, saved>>
        /\ tail' \in TailOf /\ tail'.calls = tail.calls
        /\ Len(tail'.after) = Len(tail.after) + 1
    BY <1>10, CallsAreAnswered, Answering, <1>0
  <2>2. at' \in {"recover", "tools"} /\ Batched'
    BY <1>0, <2>1 DEF NextCall, call, Batched, TailOf
  <2>2a. ASSUME NEW b \in BOOLEAN, Counted(b)
         PROVE  consec' \in Nat /\ total' \in Nat /\ consec' <= total'
    BY <2>2a DEF Counted, LoopTypeOK
  <2>3. CASE TurnedDown
    BY <1>0, <2>1, <2>2, <2>3
    DEF TurnedDown, LoopTypeOK, Iterating, Helping, locals, ledger, history
  <2>4. CASE Blocked
    <3>1. consec' \in Nat /\ total' \in Nat /\ consec' <= total'
      BY <2>2a, <2>4 DEF Blocked
    <3> QED
      BY <1>0, <2>1, <2>2, <2>4, <3>1
      DEF Blocked, LoopTypeOK, Iterating, Helping, locals, ledger, history
  <2>5. CASE Succeeds
    <3>1. consec' \in Nat /\ total' \in Nat /\ consec' <= total'
      BY <2>2a, <2>5 DEF Succeeds
    <3>2. successes' \in Nat
      BY <2>5 DEF Succeeds, LoopTypeOK
    <3>3. exhausted' \in BOOLEAN
      BY <2>5 DEF Succeeds, Spend, LoopTypeOK
    <3>4. strayed' \subseteq {"run", "helper"}
      BY <2>5 DEF Succeeds, LoopTypeOK
    <3> QED
      BY <1>0, <2>1, <2>2, <2>5, <3>1, <3>2, <3>3, <3>4
      DEF Succeeds, LoopTypeOK, Iterating, Helping, locals, ledger, history
  <2>6. CASE Fails
    <3>1. failures' \in [Tools -> 0..NoteAfter]
      BY <2>6, ToolKnown, LoopAssumption DEF Fails, Failed, LoopTypeOK
    <3>2. iterErrors' \in Seq(ErrorKinds)
      BY <2>6 DEF Fails, LoopTypeOK
    <3>3. consec' \in Nat /\ total' \in Nat /\ consec' <= total'
      BY <2>2a, <2>6 DEF Fails
    <3>4. strayed' \subseteq {"run", "helper"}
      BY <2>6 DEF Fails, LoopTypeOK
    <3> QED
      BY <1>0, <2>1, <2>2, <2>6, <3>1, <3>2, <3>3, <3>4
      DEF Fails, LoopTypeOK, Iterating, Helping, locals, ledger, history
  <2> QED
    BY <1>10, <2>3, <2>4, <2>5, <2>6
<1>11. CASE Recover
  <2>1. iterErrors' \in Seq(ErrorKinds)
    BY <1>11 DEF Recover, LoopTypeOK
  <2> QED
    BY <1>11, <1>0, <2>1
    DEF Recover, WantsHelper, LoopTypeOK, Iterating, Batched, Helping, locals, ledger, history
<1>12. CASE HelperReturns
  <2>1. iterErrors' \in Seq(ErrorKinds) /\ helped' \in 0..MaxHelpers
    BY <1>12, LoopAssumption DEF HelperReturns, Helping, LoopTypeOK
  <2> QED
    BY <1>12, <1>0, <2>1
    DEF HelperReturns, LoopTypeOK, Iterating, Batched, Helping, locals, ledger, history
<1>12a. CASE HelperActs
  BY <1>12a, <1>0
  DEF HelperActs, LoopTypeOK, Iterating, Batched, Helping, locals, ledger, history
<1>13. CASE TooManyErrors
  BY <1>13, <1>0
  DEF TooManyErrors, LoopTypeOK, Iterating, Batched, Helping, locals, ledger, history
<1>14. CASE EndIteration
  <2>1. <<>> \in Seq(ErrorKinds)
    OBVIOUS
  <2> QED
    BY <1>14, <1>0, <2>1
    DEF EndIteration, Recovered, Following, LoopTypeOK, Iterating, Batched, Helping, locals,
        ledger, history
<1>15. CASE Accepted
  BY <1>15, <1>0
  DEF Accepted, EndWith, LoopTypeOK, Iterating, Batched, Helping, locals, ledger, history
<1>16. CASE Rejected
  BY <1>16, <1>0, LoopAssumption
  DEF Rejected, Fresh, LoopTypeOK, Iterating, Batched, Helping, ledger, history
<1>17. CASE Flag
  BY <1>17, <1>0 DEF Flag, LoopTypeOK, Iterating, Batched, Helping, locals, ledger, history
<1>18. CASE Cancelled
  BY <1>18, <1>0
  DEF Cancelled, Verdict, EndWith, LoopTypeOK, Iterating, Batched, Helping, locals, ledger,
      history
<1>19. CASE Dies
  BY <1>19, <1>0 DEF Dies, LoopTypeOK, Iterating, Batched, Helping, locals, ledger, history
<1>20. CASE Resume
  <2>1. <<>> \in Seq(ErrorKinds)
    OBVIOUS
  <2>2. /\ failures' \in [Tools -> 0..NoteAfter] /\ pastIters' \in 0..(Grace + 1)
        /\ helped' \in 0..MaxHelpers /\ iteration' \in 0..config'.safetyCap
    BY <1>0, <1>20, LoopAssumption DEF Resume, Fresh
  <2>3. tail' \in TailOf /\ saved' \in TailOf
    BY <1>0, <1>20, NoTailTyped DEF Resume
  <2>4. /\ offered' \in BOOLEAN /\ exhausted' \in BOOLEAN /\ noticed' \in BOOLEAN
        /\ aborting' \in BOOLEAN /\ resumed' \in BOOLEAN /\ strayed' = {}
    BY <1>20 DEF Resume, Fresh
  <2>5. /\ consec' \in Nat /\ total' \in Nat /\ consec' <= total'
        /\ successes' \in Nat /\ overrun' \in Nat /\ iterErrors' \in Seq(ErrorKinds)
        /\ at' = "head" /\ status' = "running" /\ phase' = "first"
    BY <1>20, <2>1 DEF Resume, Fresh
  <2>6. config' \in Config /\ config'.safetyCap = config.safetyCap
    BY <1>0, <1>20 DEF Resume, Config
  <2> QED
    BY <1>0, <2>2, <2>3, <2>4, <2>5, <2>6 DEF LoopTypeOK, Iterating, Batched, Helping
<1>21. CASE UNCHANGED loopVars
  BY <1>21 DEF loopVars, locals, ledger, history, LoopTypeOK, Iterating, Batched, Helping
<1> QED
  BY <1>1, <1>2, <1>3, <1>4, <1>5, <1>6, <1>7, <1>8, <1>9, <1>10, <1>11, <1>12, <1>12a,
     <1>13, <1>14, <1>15, <1>16, <1>17, <1>18, <1>19, <1>20, <1>21 DEF LoopNext, Step

\* A step that neither takes a batch nor answers a call keeps the batch, drops it or
\* takes the one of the checkpoint; the checkpoint is left, emptied or written.
Keeps ==
  /\ tail' \in {tail, NoTail, saved}
  /\ saved' \in {saved, NoTail} \/ (saved' = tail /\ at = "recover")
  /\ at' = "tools" => at = "tools" /\ tail' = tail /\ failures' = failures
  /\ at' \notin {"tools", "gone", "dead"} =>
       tail' \in {NoTail, saved} \/ at \notin {"tools", "gone", "dead"}

Takes ==
  /\ saved' = saved /\ at' = "tools"
  /\ \E batch \in Batches : tail' = [NoTail EXCEPT !.calls = batch]

Answers ==
  /\ at = "tools" /\ NextCall /\ saved' = saved /\ tail' \in TailOf
  /\ \E note \in BOOLEAN :
       /\ Answered(tail, tail', note)
       /\ note => tool = Todo \/ failures'[tool] = NoteAfter
  /\ \A t \in Tools : failures[t] = NoteAfter => failures'[t] = NoteAfter

LEMMA TailSteps ==
  ASSUME LoopBase, [LoopNext]_loopVars
  PROVE  Keeps \/ Takes \/ Answers
<1> USE DEF locals, ledger, history
<1>1. CASE LeaveFlagged \/ ReachCap \/ HardStop \/ Ask
  BY <1>1 DEF LeaveFlagged, Leave, EndWith, ReachCap, HardStop, Ask, Keeps
<1>2. CASE NoAnswer \/ Nudge \/ FinalText \/ WrapUp
  BY <1>2 DEF NoAnswer, Nudge, FinalText, WrapUp, Leave, EndWith, Keeps
<1>3. CASE Calls
  BY <1>3 DEF Calls, Takes
<1>4. CASE TurnedDown \/ Blocked \/ Succeeds \/ Fails
  <2>1. /\ at = "tools" /\ NextCall /\ saved' = saved /\ tail' \in TailOf
        /\ \E note \in BOOLEAN :
             /\ Answered(tail, tail', note)
             /\ note => tool = Todo \/ failures'[tool] = NoteAfter
    BY <1>4, CallsAreAnswered DEF LoopBase
  <2>2. ASSUME NEW t \in Tools, failures[t] = NoteAfter PROVE failures'[t] = NoteAfter
    <3>1. CASE failures' = failures
      BY <2>2, <3>1
    <3>2. CASE Fails
      BY <2>2, <3>2 DEF Fails, Failed, LoopBase, LoopTypeOK
    <3> QED
      BY <1>4, <3>1, <3>2 DEF TurnedDown, Blocked, Succeeds
  <2> QED
    BY <2>1, <2>2 DEF Answers
<1>5. CASE Recover \/ HelperActs \/ HelperReturns \/ TooManyErrors \/ EndIteration
  BY <1>5 DEF Recover, HelperActs, HelperReturns, TooManyErrors, EndIteration, Recovered, Keeps
<1>6. CASE Accepted \/ Rejected
  BY <1>6 DEF Accepted, Rejected, EndWith, Fresh, Keeps
<1>7. CASE Flag \/ Cancelled \/ Dies \/ Resume
  BY <1>7 DEF Flag, Cancelled, Dies, Resume, Fresh, EndWith, Keeps
<1>8. CASE UNCHANGED loopVars
  BY <1>8 DEF loopVars, Keeps
<1> QED
  BY <1>1, <1>2, <1>3, <1>4, <1>5, <1>6, <1>7, <1>8 DEF LoopNext, Step

\* The inductive invariant behind ConversationSound.  What the model is sent is the
\* tail, or the checkpoint's after a resumption: both keep their order and content, and
\* outside a batch nothing is left to answer.
Sound(t) == InOrder(t) /\ ContentKept(t) /\ Len(t.calls) <= MaxCalls
Conversation ==
  /\ Sound(tail) /\ Sound(saved) /\ AllAnswered(saved)
  /\ at \notin {"tools", "gone", "dead"} => AllAnswered(tail)
  /\ BatchUnbroken

LEMMA EmptyIsSound ==
  ASSUME NEW t, t.calls \in Seq(Tools), t.own = TRUE, t.after = <<>>, Len(t.calls) <= MaxCalls
  PROVE  Sound(t)
BY DEF Sound, InOrder, ContentKept

LEMMA NoTailSound == NoTail \in TailOf /\ Sound(NoTail) /\ AllAnswered(NoTail)
<1>1. NoTail.calls = <<>> /\ NoTail.own = TRUE /\ NoTail.after = <<>>
  BY DEF NoTail
<1>2. PICK t : t = NoTail
  OBVIOUS
<1>3. Sound(t)
  <2>1. <<>> \in Seq(Tools) /\ Len(<<>>) <= MaxCalls
    BY LoopAssumption
  <2> QED
    BY <1>1, <1>2, <2>1, EmptyIsSound
<1> QED
  BY <1>1, <1>2, <1>3, NoTailTyped DEF AllAnswered

LEMMA ConversationStays ==
  ASSUME LoopBase, LoopBase', Conversation, [LoopNext]_loopVars
  PROVE  Conversation'
<1>0. tail \in TailOf /\ saved \in TailOf /\ tail' \in TailOf /\ saved' \in TailOf
  BY DEF LoopBase, LoopTypeOK
<1>1. CASE Keeps
  <2>1. Sound(tail') /\ Sound(saved') /\ AllAnswered(saved')
    BY <1>1, NoTailSound DEF Keeps, Conversation
  <2>2. at' \notin {"tools", "gone", "dead"} => AllAnswered(tail')
    BY <1>1, NoTailSound DEF Keeps, Conversation
  <2>3. BatchUnbroken'
    BY <1>1 DEF Keeps, Conversation, BatchUnbroken
  <2> QED
    BY <2>1, <2>2, <2>3 DEF Conversation, Sound, InOrder, ContentKept, AllAnswered
<1>2. CASE Takes
  <2>1. PICK batch \in Batches : tail' = [NoTail EXCEPT !.calls = batch]
    BY <1>2 DEF Takes
  <2>2. tail'.calls = batch /\ tail'.own = TRUE /\ tail'.after = <<>>
        /\ Len(batch) \in 1..MaxCalls /\ batch \in Seq(Tools)
    <3>1. tail'.calls \in Seq(Tools)
      BY <1>0 DEF TailOf
    <3> QED
      BY <2>1, <3>1, BatchTail
  <2>3. Sound(tail')
    <3>1. PICK u : u = tail'
      OBVIOUS
    <3>2. u.calls \in Seq(Tools) /\ u.own = TRUE /\ u.after = <<>> /\ Len(u.calls) <= MaxCalls
      BY <2>2, <3>1
    <3> QED
      BY <3>1, <3>2, EmptyIsSound
  <2>4. BatchUnbroken'
    BY <2>2 DEF BatchUnbroken
  <2> QED
    BY <1>2, <2>3, <2>4 DEF Takes, Conversation, Sound, InOrder, ContentKept, AllAnswered
<1>3. CASE Answers
  <2>1. PICK note \in BOOLEAN, u \in TailOf :
          /\ u = tail' /\ Answered(tail, u, note)
          /\ note => tool = Todo \/ failures'[tool] = NoteAfter
    BY <1>3 DEF Answers
  <2>2. InOrder(u) /\ ContentKept(u) /\ u.calls = tail.calls
    BY <1>0, <2>1, OrderKept, ContentStays, Answering DEF Conversation, Sound
  <2>3. /\ Len(u.after) = Len(tail.after) + 1
        /\ u.after[Len(tail.after) + 1].note # "none" <=> note
        /\ \A i \in 1..Len(tail.after) : u.after[i].note = "none" <=> tail.after[i].note = "none"
    BY <1>0, <2>1, Answering
  <2>4. at' \notin {"tools", "gone", "dead"} => AllAnswered(u)
    BY <1>0, <1>3, <2>2, <2>3 DEF Answers, NextCall, call, AllAnswered, TailOf
  <2>5. ASSUME NEW i \in DOMAIN u.after, u.after[i].note # "none"
        PROVE  u.calls[i] = Todo \/ failures'[u.calls[i]] = NoteAfter
    <3>1. Len(tail.after) \in Nat /\ i \in 1..(Len(tail.after) + 1)
          /\ DOMAIN tail.after = 1..Len(tail.after)
      BY <1>0, <2>1, <2>3 DEF TailOf
    <3>2. CASE i = Len(tail.after) + 1
      BY <2>1, <2>2, <2>3, <2>5, <3>2 DEF tool, call
    <3>3. CASE i \in 1..Len(tail.after)
      <4>1. tail.calls[i] = Todo \/ failures[tail.calls[i]] = NoteAfter
        BY <1>3, <2>3, <2>5, <3>1, <3>3 DEF Conversation, BatchUnbroken, Answers
      <4>2. tail.calls[i] \in Tools
        BY <1>0, <1>3, <3>1, <3>3 DEF LoopBase, Batched, Answers, TailOf
      <4> QED
        BY <1>3, <2>2, <4>1, <4>2 DEF Answers
    <3> QED
      BY <3>1, <3>2, <3>3
  <2>6. BatchUnbroken'
    BY <2>1, <2>5 DEF BatchUnbroken
  <2> QED
    BY <1>3, <2>1, <2>2, <2>4, <2>6
    DEF Answers, Conversation, Sound, InOrder, ContentKept, AllAnswered
<1> QED
  BY <1>1, <1>2, <1>3, TailSteps

\* The inductive invariant behind LimitsBind.  An answer with calls past the budget
\* needs an iteration that still offered tools, and pastIters counts those; errors
\* are counted call by call, and a loop goes on only below the limit.
Overruns ==
  /\ overrun <= Grace /\ overrun <= pastIters
  /\ at = "model" /\ noticed /\ offered => pastIters <= Grace /\ overrun < pastIters
  /\ config.hard /\ phase = "first" =>
       overrun = 0 /\ (noticed => at \in {"wrapup", "gone", "dead"})

ErrorCount ==
  /\ ErrorsBounded
  /\ ~config.feedback => total = 0
  /\ at \in {"head", "model"} => total < AbortErrors
  /\ at = "tools" => total < AbortErrors + Len(tail.after)

\* What a step does to the budget, other than in Ask and Calls.
LEMMA OverrunsStay ==
  ASSUME LoopBase, Overruns, [LoopNext]_loopVars
  PROVE  Overruns'
<1> USE DEF locals, ledger, history
<1>0. /\ overrun \in Nat /\ pastIters \in 0..(Grace + 1) /\ Grace \in Nat /\ noticed \in BOOLEAN
      /\ offered \in BOOLEAN
  BY LoopAssumption DEF LoopBase, LoopTypeOK
<1>1. CASE Ask
  <2>1. /\ at = "head" /\ at' = "model" /\ UNCHANGED <<config, phase, overrun>>
        /\ noticed' <=> noticed \/ exhausted
        /\ config.hard /\ exhausted => noticed
    BY <1>1 DEF Ask, HardLimit
  <2>2. pastIters' = IF noticed' THEN Past ELSE pastIters
    BY <1>1 DEF Ask
  <2>3. offered' => pastIters' <= Grace
    BY <1>1 DEF Ask
  <2>4. /\ overrun <= pastIters'
        /\ noticed' /\ offered' => overrun < pastIters'
    BY <1>0, <2>2, <2>3 DEF Past, Overruns
  <2>5. config.hard /\ phase = "first" => overrun = 0 /\ ~noticed'
    BY <2>1 DEF Overruns
  <2> QED
    BY <2>1, <2>3, <2>4, <2>5 DEF Overruns
<1>2. CASE Calls
  BY <1>0, <1>2 DEF Calls, Overruns
<1>3. CASE HardStop
  BY <1>0, <1>3 DEF HardStop, HardLimit, Overruns
<1>4. CASE LeaveFlagged \/ ReachCap
  BY <1>0, <1>4 DEF LeaveFlagged, Leave, EndWith, ReachCap, Overruns
<1>5. CASE NoAnswer \/ Nudge \/ FinalText \/ WrapUp
  BY <1>0, <1>5 DEF NoAnswer, Nudge, FinalText, WrapUp, Leave, EndWith, Overruns
<1>6. CASE TurnedDown \/ Blocked \/ Succeeds \/ Fails
  <2>1. /\ at = "tools" /\ at' \in {"tools", "recover"}
        /\ UNCHANGED <<config, phase, overrun, noticed, pastIters>>
    BY <1>6 DEF TurnedDown, Blocked, Succeeds, Fails, NextCall
  <2> QED
    BY <2>1 DEF Overruns
<1>7. CASE Recover \/ HelperActs \/ HelperReturns \/ TooManyErrors \/ EndIteration
  <2>1. /\ at \in {"recover", "helper"} /\ at' \in {"recover", "helper", "wrapup", "head"}
        /\ UNCHANGED <<config, phase, overrun, noticed, pastIters>>
    BY <1>7 DEF Recover, Recovered, HelperActs, HelperReturns, TooManyErrors, EndIteration
  <2> QED
    BY <2>1 DEF Overruns
<1>8. CASE Accepted \/ Rejected
  BY <1>0, <1>8 DEF Accepted, Rejected, EndWith, Fresh, Overruns
<1>9. CASE Flag \/ Cancelled \/ Dies
  BY <1>0, <1>9 DEF Flag, Cancelled, Dies, EndWith, Overruns
<1>10. CASE Resume
  BY <1>0, <1>10 DEF Resume, Fresh, Overruns
<1>11. CASE UNCHANGED loopVars
  BY <1>0, <1>11 DEF loopVars, Overruns
<1> QED
  BY <1>1, <1>2, <1>3, <1>4, <1>5, <1>6, <1>7, <1>8, <1>9, <1>10, <1>11 DEF LoopNext, Step

LEMMA ErrorCountStays ==
  ASSUME LoopBase, LoopBase', Conversation, ErrorCount, [LoopNext]_loopVars
  PROVE  ErrorCount'
<1> USE DEF locals, ledger, history
<1>0. /\ total \in Nat /\ AbortErrors \in Nat \ {0} /\ MaxCalls \in Nat \ {0}
      /\ tail \in TailOf /\ Len(tail.after) \in Nat /\ Len(tail.calls) \in Nat
      /\ Len(tail.calls) <= MaxCalls /\ config.feedback \in BOOLEAN
  <2>1. config.feedback \in BOOLEAN
    BY LoopAssumption DEF LoopBase, LoopTypeOK, Config
  <2>2. tail.after \in Seq(Entry) /\ tail.calls \in Seq(Tools)
    BY DEF LoopBase, LoopTypeOK, TailOf
  <2>3. Len(tail.after) \in Nat /\ Len(tail.calls) \in Nat
    BY <2>2
  <2>4. total \in Nat /\ tail \in TailOf
    BY DEF LoopBase, LoopTypeOK
  <2>5. Len(tail.calls) <= MaxCalls
    BY DEF Conversation, Sound
  <2> QED
    BY <2>1, <2>3, <2>4, <2>5, LoopAssumption
<1>1. CASE Calls
  <2>1. PICK batch \in Batches : tail' = [NoTail EXCEPT !.calls = batch]
    BY <1>1 DEF Calls
  <2>2. tail'.after = <<>>
    BY <2>1, BatchTail
  <2> QED
    BY <1>0, <1>1, <2>2 DEF Calls, ErrorCount, ErrorsBounded
<1>2. CASE TurnedDown \/ Blocked \/ Succeeds \/ Fails
  <2>1. /\ at = "tools" /\ NextCall /\ UNCHANGED <<config, phase, saved>>
        /\ Len(tail'.after) = Len(tail.after) + 1
    BY <1>0, <1>2, CallsAreAnswered, Answering DEF LoopBase
  <2>2. /\ total' <= total + 1 /\ total' \in Nat
        /\ ~config.feedback => total' = total
    <3>1. total' = total \/ Counted(TRUE) \/ Counted(FALSE)
      BY <1>2 DEF TurnedDown, Blocked, Succeeds, Fails
    <3> QED
      BY <1>0, <3>1 DEF Counted
  <2>3. Len(tail.after) < Len(tail.calls)
    BY <2>1 DEF LoopBase, Batched
  <2>4. at' \in {"tools", "recover"}
    BY <2>1 DEF NextCall
  <2> QED
    BY <1>0, <2>1, <2>2, <2>3, <2>4 DEF ErrorCount, ErrorsBounded
<1>3. CASE EndIteration
  BY <1>0, <1>3
  DEF EndIteration, ShouldAbort, ErrorCount, ErrorsBounded, LoopBase, LoopTypeOK, Config
<1>4. CASE Rejected \/ Resume
  BY <1>0, <1>4 DEF Rejected, Resume, Fresh, ErrorCount, ErrorsBounded
<1>5. CASE LeaveFlagged \/ ReachCap \/ HardStop \/ Ask
  BY <1>0, <1>5
  DEF LeaveFlagged, Leave, EndWith, ReachCap, HardStop, Ask, ErrorCount, ErrorsBounded
<1>6. CASE NoAnswer \/ Nudge \/ FinalText \/ WrapUp
  BY <1>0, <1>6 DEF NoAnswer, Nudge, FinalText, WrapUp, Leave, EndWith, ErrorCount, ErrorsBounded
<1>7. CASE Recover \/ HelperActs \/ HelperReturns \/ TooManyErrors \/ Accepted
  BY <1>0, <1>7
  DEF Recover, HelperActs, HelperReturns, TooManyErrors, Accepted, EndWith, ErrorCount, ErrorsBounded
<1>8. CASE Flag \/ Cancelled \/ Dies \/ UNCHANGED loopVars
  BY <1>0, <1>8 DEF Flag, Cancelled, Dies, EndWith, loopVars, ErrorCount, ErrorsBounded
<1> QED
  BY <1>1, <1>2, <1>3, <1>4, <1>5, <1>6, <1>7, <1>8 DEF LoopNext, Step

\* The whole invariant.
LoopInv == LoopBase /\ Conversation /\ Overruns /\ ErrorCount

LEMMA LoopInvariant == LoopSpec => []LoopInv
<1>1. LoopInit => LoopInv
  <2> SUFFICES ASSUME LoopInit PROVE LoopInv
    OBVIOUS
  <2>1. LoopBase
    BY LoopStarts
  <2>2. Conversation
    BY NoTailSound DEF LoopInit, Conversation, BatchUnbroken
  <2>3. Overruns
    BY LoopAssumption DEF LoopInit, Overruns
  <2>4. ErrorCount
    BY LoopAssumption DEF LoopInit, ErrorCount, ErrorsBounded
  <2> QED
    BY <2>1, <2>2, <2>3, <2>4 DEF LoopInv
<1>2. LoopInv /\ [LoopNext]_loopVars => LoopInv'
  BY LoopContinues, ConversationStays, OverrunsStay, ErrorCountStays DEF LoopInv
<1> QED
  BY <1>1, <1>2, PTL DEF LoopSpec

\* Every variable of AgentLoop has its type in every reachable state.
THEOREM LoopTypeCorrect == LoopSpec => []LoopTypeOK
<1>1. LoopInv => LoopTypeOK
  BY DEF LoopInv, LoopBase
<1> QED
  BY <1>1, LoopInvariant, PTL

\* The conversation a provider is sent answers every call once, in order, and says
\* what was said, but for what a todo_write overwrites (record_tool_call and the
\* interception in _run_loop), for any batches, errors and resumptions.
THEOREM ConversationsAreSound == LoopSpec => []ConversationSound
<1>1. LoopInv => ConversationSound
  BY DEF LoopInv, Conversation, Sound, ConversationSound, CallsAnswered, OnlyTodoOverwrites
<1> QED
  BY <1>1, LoopInvariant, PTL

\* Past its budget a run calls tools Grace more times at most, with a hard budget not
\* at all in its first loop, and errors stop it within a batch of the limit.
THEOREM LimitsAreBinding == LoopSpec => []LimitsBind
<1>1. LoopInv => LimitsBind
  BY DEF LoopInv, Overruns, ErrorCount, LimitsBind, BudgetBounds
<1> QED
  BY <1>1, LoopInvariant, PTL

\* Plan mode executes read-only tools alone, in the loop of the verification also:
\* there the schemas it was given are all that is left of plan mode.  They guard
\* nothing if there are none, but then the model is offered no tool.  Helpers of
\* that loop are the exception.
PlanInv ==
  /\ PlanReadsOnly
  /\ offered \/ at = "tools" => Schemas # {}
  /\ phase = "verify" => at \in {"verify", "gone", "dead"}
  /\ at = "helper" => config.helpers /\ ~Readonly

THEOREM PlansOnlyRead == LoopSpec => []PlanReadsOnly
<1>1. LoopInit => PlanInv
  BY DEF LoopInit, PlanInv, PlanReadsOnly, Schemas
<1>2. LoopBase /\ PlanInv /\ [LoopNext]_loopVars => PlanInv'
  <2> SUFFICES ASSUME LoopBase, PlanInv, [LoopNext]_loopVars PROVE PlanInv'
    OBVIOUS
  <2> USE DEF PlanInv, locals, ledger, history
  <2>0. phase \in {"first", "verify", "retry"}
    BY DEF LoopBase, LoopTypeOK
  <2>1. CASE Succeeds \/ Fails
    <3>1. config.plan => tool \in ReadOnly
      BY <2>1 DEF Succeeds, Fails, Guarded, Schemas
    <3>2. strayed' = strayed /\ UNCHANGED <<config, phase, offered>>
      BY <2>1, <3>1 DEF Succeeds, Fails
    <3>3. at = "tools" /\ at' \in {"tools", "recover"}
      BY <2>1 DEF Succeeds, Fails, NextCall
    <3> QED
      BY <3>2, <3>3 DEF PlanReadsOnly, Schemas
  <2>2. CASE TurnedDown \/ Blocked
    BY <2>2 DEF TurnedDown, Blocked, NextCall, PlanReadsOnly, Schemas
  <2>3. CASE LeaveFlagged \/ NoAnswer \/ FinalText \/ WrapUp \/ Accepted \/ Cancelled
    BY <2>3
    DEF LeaveFlagged, NoAnswer, FinalText, WrapUp, Accepted, Cancelled, Leave, EndWith,
        PlanReadsOnly, Schemas
  <2>4. CASE ReachCap \/ HardStop \/ Nudge \/ Calls
    BY <2>4 DEF ReachCap, HardStop, Nudge, Calls, PlanReadsOnly, Schemas
  <2>4a. CASE Ask
    <3>1. PICK stripped \in {FALSE, config.hard} :
            offered' = (offered /\ pastIters' <= Grace /\ ~stripped)
      BY <2>4a DEF Ask
    <3>2. offered' => offered
      BY <3>1
    <3>3. at = "head" /\ at' = "model" /\ UNCHANGED <<config, phase, strayed>>
      BY <2>4a DEF Ask
    <3> QED
      BY <3>2, <3>3 DEF PlanReadsOnly, Schemas
  <2>5. CASE Recover
    BY <2>5 DEF Recover, WantsHelper, PlanReadsOnly, Schemas, Readonly
  <2>6. CASE HelperActs
    <3>1. at = "helper" /\ config.plan /\ phase # "first"
      BY <2>6 DEF HelperActs, Readonly
    <3>2. phase = "retry"
      BY <2>0, <3>1
    <3> QED
      BY <2>6, <3>1, <3>2 DEF HelperActs, PlanReadsOnly, Schemas, Readonly
  <2>7. CASE HelperReturns \/ TooManyErrors \/ EndIteration
    <3>1. at \in {"helper", "recover"} /\ at' \in {"recover", "wrapup", "head"}
          /\ UNCHANGED <<config, phase, strayed, offered>>
      BY <2>7 DEF HelperReturns, TooManyErrors, EndIteration, Recovered
    <3> QED
      BY <3>1 DEF PlanReadsOnly, Schemas
  <2>8. CASE Rejected
    BY <2>8 DEF Rejected, Fresh, PlanReadsOnly, Schemas
  <2>9. CASE Resume
    BY <2>9 DEF Resume, Fresh, PlanReadsOnly
  <2>10. CASE Flag \/ Dies \/ UNCHANGED loopVars
    BY <2>10 DEF Flag, Dies, loopVars, PlanReadsOnly, Schemas, Readonly
  <2> QED
    BY <2>1, <2>2, <2>3, <2>4, <2>4a, <2>5, <2>6, <2>7, <2>8, <2>9, <2>10
    DEF LoopNext, Step
<1>3. PlanInv => PlanReadsOnly
  BY DEF PlanInv
<1> QED
  BY <1>1, <1>2, <1>3, LoopStarts, LoopContinues, PTL DEF LoopSpec

\* A run that leaves execute without a final status was cancelled after its first loop.
THEOREM EndsAreRecorded == LoopSpec => []EndsRecorded
<1>1. LoopInit => EndsRecorded
  BY DEF LoopInit, EndsRecorded
<1>2. EndsRecorded /\ [LoopNext]_loopVars => EndsRecorded'
  <2> SUFFICES ASSUME EndsRecorded, [LoopNext]_loopVars PROVE EndsRecorded'
    OBVIOUS
  <2> USE DEF EndsRecorded
  <2>1. CASE LeaveFlagged \/ FinalText \/ WrapUp
    BY <2>1 DEF LeaveFlagged, FinalText, WrapUp, Leave, EndWith
  <2>2. CASE NoAnswer \/ Accepted \/ Cancelled
    BY <2>2 DEF NoAnswer, Accepted, Cancelled, Verdict, EndWith
  <2>3. CASE ReachCap \/ HardStop \/ Ask \/ Nudge \/ Calls
    BY <2>3 DEF ReachCap, HardStop, Ask, Nudge, Calls
  <2>4. CASE TurnedDown \/ Blocked \/ Succeeds \/ Fails
    BY <2>4 DEF TurnedDown, Blocked, Succeeds, Fails, NextCall
  <2>5. CASE Recover \/ HelperActs \/ HelperReturns \/ TooManyErrors \/ EndIteration \/ Rejected
    BY <2>5 DEF Recover, HelperActs, HelperReturns, TooManyErrors, EndIteration, Rejected, Fresh
  <2>6. CASE Flag \/ Dies \/ Resume \/ UNCHANGED loopVars
    BY <2>6 DEF Flag, Dies, Resume, Fresh, loopVars
  <2> QED
    BY <2>1, <2>2, <2>3, <2>4, <2>5, <2>6 DEF LoopNext, Step
<1> QED
  BY <1>1, <1>2, PTL DEF LoopSpec
=============================================================================
