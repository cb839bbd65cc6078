-------------------------- MODULE EventHooksProofs --------------------------
(***************************************************************************)
(* Proofs about EventHooks for any events, triggers and numbers of retries.*)
(*                                                                         *)
(* Retries are bounded because an event is never alive twice: a copy is    *)
(* added while its original is the entry in hand, which is never looked at *)
(* again, whether the loop goes on or dies.                                *)
(***************************************************************************)
EXTENDS EventHooks, SequenceTheorems, FiniteSetTheorems, TLAPS

\* Entries that are still to be dispatched, or copied.
Alive(i) ==
  \/ cursor < i
  \/ at # 0 /\ at < i
  \/ at # 0 /\ at = i /\ pc # "acking"

SameEvent(i, j) == log[i].event = log[j].event

AliveOnce ==
  \A i, j \in DOMAIN log : Alive(i) /\ Alive(j) /\ SameEvent(i, j) => i = j
AliveIsLatest ==
  \A i, j \in DOMAIN log :
    Alive(i) /\ SameEvent(i, j) => log[j].attempt <= log[i].attempt
AliveCounts ==
  \A i \in DOMAIN log :
    Alive(i) => attempts[log[i].event] <=
                  log[i].attempt + (IF i = at /\ pc = "retrying" THEN 1 ELSE 0)
EntriesDistinct == \A i, j \in DOMAIN log : log[i] = log[j] => i = j
RetriesSmall == \A i \in DOMAIN log : log[i].attempt <= MaxRetries
UnpublishedFresh ==
  \A e \in Event : ~Published(e) => attempts[e] = 0 /\ dlq[e] = 0
AttemptsSmall == \A e \in Event : attempts[e] <= MaxRetries + 1

RetryInv ==
  /\ AliveOnce /\ AliveIsLatest /\ AliveCounts /\ EntriesDistinct
  /\ RetriesSmall /\ UnpublishedFresh /\ AttemptsSmall

\* The loop's flag tells what happened to the entry in hand.
FailedIsBad ==
  /\ failed <=> (at # 0 /\ at \in bad)
  /\ pc = "retrying" => failed
BadHandled == \A i \in bad : i <= cursor /\ (at # 0 => i <= at)

Exhausted(e) ==
  \A n \in 0 .. MaxRetries : \E i \in bad : log[i] = [event |-> e, attempt |-> n]
\* Every earlier attempt of an entry had a failing trigger.
EarlierFailed ==
  \A i \in DOMAIN log : \A n \in 0 .. MaxRetries :
    n < log[i].attempt =>
      \E j \in bad : log[j] = [event |-> log[i].event, attempt |-> n]
DeadOnce ==
  \A e \in Event : dlq[e] > 0 =>
    /\ dlq[e] = 1 /\ Exhausted(e)
    /\ \A i \in DOMAIN log : log[i].event = e => ~Alive(i)

DeadInv == FailedIsBad /\ BadHandled /\ EarlierFailed /\ DeadOnce

\* A failed entry's copy, or the reason why there is none, is there before
\* the entry is acknowledged ...
Renewed(i) ==
  \/ redisError
  \/ dlq[log[i].event] > 0
  \/ \E j \in DOMAIN log : Alive(j) /\ SameEvent(i, j)
CopyAtHand == pc = "acking" /\ failed => Renewed(at)
\* ... and stays, though it may itself be handled.
CopyInv == CopyAtHand /\ FailureLivesOn

\* The k-th trigger's run for event e is complete, or was skipped as busy, or not due.
Seen(e, k) ==
  MatchesEvent(Triggers[k], e)
    => <<e, Triggers[k].agent>> \in served \cup turnedAway
\* The triggers before next have been gone through for the entry in hand.
HandInv ==
  /\ at # 0 => \A k \in DOMAIN Triggers :
                 k < next => Seen(event, k) \/ at \in bad
  /\ pc \in {"retrying", "acking"} => next > Len(Triggers)

\* Entries the engine is not done with: never read, or still pending.
Left(i) == i <= start \/ cursor < i \/ i \in pending
\* The reasons why an event may have no such entry.
Closed(e) == redisError \/ dlq[e] > 0 \/ \A k \in DOMAIN Triggers : Seen(e, k)
\* Nothing is lost without trace.
AccountInv ==
  \A e \in Event : Published(e) =>
    Closed(e) \/ \E i \in DOMAIN log : log[i].event = e /\ Left(i)

\* The loop handles a batch in order and does not come back.
InOrder ==
  /\ pc = "running" => next <= Len(Triggers)
  /\ \A i \in acked \cup stranded : i <= cursor /\ (at # 0 => i < at)
TypeInv == TypeOK /\ InOrder
StreamInv == NothingStranded /\ NothingSkipped

-----------------------------------------------------------------------------
(* Types, and what the stream does *)

\* What XREADGROUP hands over.
LEMMA Reads ==
  ASSUME TypeOK, XReadGroup(BatchSize)
  PROVE  /\ cursor' \in Nat /\ cursor < cursor' /\ cursor' <= Len(log)
         /\ pending' = pending \cup (cursor + 1 .. cursor')
         /\ UNCHANGED <<log, grouped, acked>>
<1> DEFINE m == IF Len(log) < cursor + BatchSize THEN Len(log)
                ELSE cursor + BatchSize
<1>1. cursor \in Nat /\ Len(log) \in Nat /\ cursor < Len(log)
      /\ BatchSize \in Nat /\ BatchSize > 0
  BY RetryAssumption DEF TypeOK, StreamTypeOK, XReadGroup
<1>2. m \in Nat /\ cursor < m /\ m <= Len(log)
  BY <1>1
<1>3. Delivered(BatchSize) = cursor + 1 .. m
  BY DEF Delivered
<1>4. Cardinality(cursor + 1 .. m) = m - cursor
  <2>1. cursor + 1 \in Int /\ m \in Int /\ ~(cursor + 1 > m)
    BY <1>1, <1>2
  <2>2. Cardinality(cursor + 1 .. m) = m - (cursor + 1) + 1
    BY <2>1, FS_Interval
  <2>3. QED BY <1>1, <1>2, <2>2
<1>5. cursor' = m
  BY <1>1, <1>2, <1>3, <1>4 DEF XReadGroup
<1>6. QED BY <1>2, <1>3, <1>5 DEF XReadGroup

\* What XADD does to the log.
LEMMA Adds ==
  ASSUME TypeOK, NEW x \in Entry, XAdd(x)
  PROVE  /\ log' \in Seq(Entry)
         /\ Len(log') = Len(log) + 1
         /\ DOMAIN log = 1 .. Len(log)
         /\ DOMAIN log' = DOMAIN log \cup {Len(log) + 1}
         /\ \A i \in DOMAIN log : log'[i] = log[i]
         /\ log'[Len(log) + 1] = x
<1>1. x \in Entry /\ log \in Seq(Entry)
  BY DEF TypeOK, StreamTypeOK
<1>2. log' = Append(log, x)
  BY DEF XAdd
<1>3. /\ Append(log, x) \in Seq(Entry)
      /\ Len(Append(log, x)) = Len(log) + 1
      /\ \A i \in 1 .. Len(log) : Append(log, x)[i] = log[i]
      /\ Append(log, x)[Len(log) + 1] = x
  BY <1>1, AppendProperties
<1>4. /\ Len(log) \in Nat /\ DOMAIN log = 1 .. Len(log)
      /\ DOMAIN log' = 1 .. Len(log')
  BY <1>1, <1>2, <1>3
<1>5. QED BY <1>2, <1>3, <1>4

\* The entry in hand.
LEMMA HandTyped ==
  ASSUME TypeOK, at # 0
  PROVE  /\ at \in DOMAIN log /\ at \in 1 .. Len(log) /\ at <= cursor
         /\ log[at] \in Entry /\ event \in Event /\ log[at].attempt \in Nat
<1>1. log \in Seq(Entry) /\ at \in 1 .. Len(log) /\ at <= cursor
  BY DEF TypeOK, StreamTypeOK
<1>2. log[at] \in Entry /\ at \in DOMAIN log
  BY <1>1
<1>3. QED BY <1>1, <1>2 DEF Entry, event

\* Where the copy goes.
LEMMA Copies ==
  ASSUME TypeOK, at # 0, AddCopy
  PROVE  \/ /\ log[at].attempt < MaxRetries
            /\ \E x \in Entry :
                 /\ x = [event |-> event, attempt |-> log[at].attempt + 1]
                 /\ XAdd(x)
            /\ dlq' = dlq
         \/ /\ ~(log[at].attempt < MaxRetries)
            /\ dlq' = [dlq EXCEPT ![event] = @ + 1]
            /\ log' = log
<1>1. [event |-> event, attempt |-> log[at].attempt + 1] \in Entry
  BY HandTyped DEF Entry
<1>2. QED BY <1>1 DEF AddCopy, MayRetry, RetryCount

\* The types of the parts that only steps outside Redis change.
LocalTypeOK ==
  /\ typeOf \in [Event -> Type \cup {NoType}]
  /\ pc \in PC
  /\ next \in 1 .. Len(Triggers) + 1
  /\ failed \in BOOLEAN
  /\ locked \in SUBSET Agent
  /\ spawned \in SUBSET Agent
  /\ dlq \in [Event -> Nat]
  /\ attempts \in [Event -> Nat]
  /\ served \in SUBSET (Event \X Agent)
  /\ turnedAway \in SUBSET (Event \X Agent)
  /\ redisError \in BOOLEAN
  /\ pc = "running" => next <= Len(Triggers)
\* The types of the parts that speak of positions in the log.
PositionsOK ==
  /\ cursor \in 0 .. Len(log)
  /\ pending \in SUBSET (1 .. Len(log))
  /\ acked \in SUBSET (1 .. Len(log))
  /\ start \in 0 .. Len(log)
  /\ at \in 0 .. cursor
  /\ bad \in SUBSET (1 .. Len(log))
  /\ stranded \in SUBSET (1 .. Len(log))
  /\ grouped \in BOOLEAN
  /\ log \in Seq(Entry)
  /\ \A i \in acked \cup stranded : i <= cursor /\ (at # 0 => i < at)
  /\ pc \in {"down", "reading"} <=> at = 0

LEMMA TypeParts == TypeInv <=> LocalTypeOK /\ PositionsOK
  BY DEF TypeInv, TypeOK, StreamTypeOK, InOrder, LocalTypeOK, PositionsOK

LEMMA TypeStart == Init => TypeInv
<1> SUFFICES ASSUME Init PROVE LocalTypeOK /\ PositionsOK
  BY TypeParts
<1>1. Len(Triggers) \in Nat BY TriggersAssumption
<1>2. LocalTypeOK
  <2>1. 1 \in 1 .. Len(Triggers) + 1 BY <1>1
  <2>2. QED BY <2>1 DEF Init, LocalTypeOK, PC
<1>3. PositionsOK
  <2>1. log = <<>> /\ Len(<<>>) = 0 /\ <<>> \in Seq(Entry) /\ 0 \in 0 .. 0
    BY DEF Init, StreamInit
  <2>2. QED BY <2>1 DEF Init, StreamInit, PositionsOK
<1>4. QED BY <1>2, <1>3

LEMMA TypeStep == TypeInv /\ [Next]_vars => TypeInv'
<1> SUFFICES ASSUME TypeInv, [Next]_vars PROVE LocalTypeOK' /\ PositionsOK'
  BY DEF TypeInv, TypeOK, StreamTypeOK, InOrder, LocalTypeOK, PositionsOK
<1> USE DEF history, loopVars, streamVars
<1>1. TypeOK /\ LocalTypeOK /\ PositionsOK /\ Len(Triggers) \in Nat
      /\ Len(log) \in Nat /\ 1 \in 1 .. Len(Triggers) + 1
  <2>1. LocalTypeOK /\ PositionsOK /\ TypeOK BY TypeParts DEF TypeInv
  <2>2. Len(Triggers) \in Nat BY TriggersAssumption
  <2>3. QED BY <2>1, <2>2 DEF PositionsOK
<1>2. ASSUME NEW e \in Event, Publish(e) PROVE LocalTypeOK' /\ PositionsOK'
  <2>1. log' \in Seq(Entry) /\ Len(log') = Len(log) + 1
    <3>1. [event |-> e, attempt |-> 0] \in Entry BY DEF Entry
    <3>2. QED BY <1>1, <1>2, <3>1, Adds DEF Publish
  <2>2. PositionsOK' BY <1>1, <1>2, <2>1 DEF Publish, PositionsOK
  <2>3. QED BY <1>1, <1>2, <2>2 DEF Publish, LocalTypeOK
<1>3. ASSUME NEW a \in Agent, OtherLock(a) \/ Unlock(a) \/ DownstreamStart(a)
      PROVE  LocalTypeOK' /\ PositionsOK'
  BY <1>1, <1>3 DEF OtherLock, Unlock, DownstreamStart, LocalTypeOK, PositionsOK
<1>4. CASE Start
  <2>1. LocalTypeOK' BY <1>1, <1>4 DEF Start, LocalTypeOK, PC
  <2>2. PositionsOK' BY <1>1, <1>4 DEF Start, GroupCursor, PositionsOK
  <2>3. QED BY <2>1, <2>2
<1>5. CASE Read \/ ReadLost
  <2>1. /\ cursor' \in Nat /\ cursor < cursor' /\ cursor' <= Len(log)
        /\ pending' = pending \cup (cursor + 1 .. cursor')
        /\ UNCHANGED <<log, grouped, acked>>
    BY <1>1, <1>5, Reads DEF Read, ReadLost
  <2>2. LocalTypeOK' BY <1>1, <1>5 DEF Read, ReadLost, LocalTypeOK, PC
  <2>3. CASE Read
    BY <1>1, <2>1, <2>2, <2>3 DEF Read, PositionsOK
  <2>4. CASE ReadLost
    BY <1>1, <2>1, <2>2, <2>4 DEF ReadLost, PositionsOK
  <2>5. QED BY <1>5, <2>3, <2>4
<1>6. CASE SkipTrigger \/ RunAgent \/ RunEnds \/ Dispatch
  <2>1. at # 0
    BY <1>1, <1>6 DEF PositionsOK, SkipTrigger, RunAgent, RunEnds, Dispatch
  <2>2. event \in Event /\ at \in 1 .. Len(log) BY <1>1, <2>1, HandTyped
  <2>3. next <= Len(Triggers) => trigger \in [agent : Agent, type : Type]
    <3>1. next <= Len(Triggers) => next \in 1 .. Len(Triggers)
      BY <1>1 DEF LocalTypeOK
    <3>2. \A i \in 1 .. Len(Triggers) : Triggers[i] \in [agent : Agent, type : Type]
      BY TriggersAssumption, ElementOfSeq
    <3>3. QED BY <3>1, <3>2 DEF trigger
  <2>4. CASE SkipTrigger
    <3>1. trigger.agent \in Agent BY <2>3, <2>4 DEF SkipTrigger
    <3>2. next' \in 1 .. Len(Triggers) + 1
      BY <1>1, <2>4 DEF SkipTrigger, LocalTypeOK
    <3>3. turnedAway' \subseteq Event \X Agent
      BY <1>1, <2>2, <2>4, <3>1 DEF SkipTrigger, LocalTypeOK
    <3>4. LocalTypeOK'
      BY <1>1, <2>4, <3>2, <3>3 DEF SkipTrigger, LocalTypeOK
    <3>5. PositionsOK' BY <1>1, <2>4 DEF SkipTrigger, PositionsOK
    <3>6. QED BY <3>4, <3>5
  <2>5. CASE RunAgent
    BY <1>1, <2>3, <2>5 DEF RunAgent, LocalTypeOK, PositionsOK, PC
  <2>6. CASE RunEnds
    <3>1. trigger.agent \in Agent BY <1>1, <2>3, <2>6 DEF RunEnds, LocalTypeOK
    <3>2. PICK completed \in BOOLEAN, delivered \in BOOLEAN :
            LET ok == completed /\ delivered IN
            /\ failed' = StillFailed(ok)
            /\ bad' = IF ok THEN bad ELSE bad \cup {at}
            /\ served' = IF completed THEN served \cup {<<event, trigger.agent>>}
                                      ELSE served
            /\ spawned' = IF ok THEN spawned \cup Downstream[trigger.agent]
                                ELSE spawned
      BY <2>6 DEF RunEnds
    <3>3. failed' \in BOOLEAN BY <1>1, <3>2 DEF StillFailed, LocalTypeOK
    <3>4. served' \subseteq Event \X Agent
      BY <1>1, <2>2, <3>1, <3>2 DEF LocalTypeOK
    <3>5. spawned' \subseteq Agent
      BY <1>1, <3>1, <3>2, DownstreamAssumption DEF LocalTypeOK
    <3>6. bad' \subseteq 1 .. Len(log) BY <1>1, <2>2, <3>2 DEF PositionsOK
    <3>7. LocalTypeOK'
      BY <1>1, <2>6, <3>1, <3>3, <3>4, <3>5 DEF RunEnds, LocalTypeOK, PC
    <3>8. PositionsOK' BY <1>1, <2>6, <3>6 DEF RunEnds, PositionsOK
    <3>9. QED BY <3>7, <3>8
  <2>7. CASE Dispatch
    <3>1. attempts' \in [Event -> Nat]
      BY <1>1, <2>2, <2>7 DEF Dispatch, LocalTypeOK
    <3>2. LocalTypeOK' BY <1>1, <2>7, <3>1 DEF Dispatch, LocalTypeOK, PC
    <3>3. PositionsOK' BY <1>1, <2>7 DEF Dispatch, PositionsOK
    <3>4. QED BY <3>2, <3>3
  <2>8. QED BY <1>6, <2>4, <2>5, <2>6, <2>7
<1>7. ASSUME Requeue \/ RequeueFails PROVE LocalTypeOK' /\ PositionsOK'
  <2>1. at # 0 BY <1>1, <1>7 DEF PositionsOK, Requeue, RequeueFails
  <2>2. event \in Event /\ log[at].attempt \in Nat BY <1>1, <2>1, HandTyped
  <2>3. /\ dlq' \in [Event -> Nat] /\ log' \in Seq(Entry)
        /\ Len(log') = Len(log) \/ Len(log') = Len(log) + 1
    <3>1. CASE AddCopy
      <4>1. CASE log' = log /\ dlq' = [dlq EXCEPT ![event] = @ + 1]
        BY <1>1, <2>2, <4>1 DEF LocalTypeOK, PositionsOK
      <4>2. CASE dlq' = dlq /\ \E x \in Entry : XAdd(x)
        BY <1>1, <4>2, Adds DEF LocalTypeOK
      <4>3. QED BY <1>1, <2>1, <3>1, <4>1, <4>2, Copies
    <3>2. CASE UNCHANGED <<log, dlq>>
      BY <1>1, <3>2 DEF LocalTypeOK, PositionsOK
    <3>3. QED BY <1>7, <3>1, <3>2 DEF Requeue, RequeueFails
  <2>4. LocalTypeOK' BY <1>1, <1>7, <2>3 DEF Requeue, RequeueFails, LocalTypeOK, PC
  <2>5. PositionsOK'
    <3>1. UNCHANGED <<grouped, cursor, pending, acked, at, start, bad, stranded>>
      BY <1>7 DEF Requeue, RequeueFails
    <3>2. pc' = "acking" BY <1>7 DEF Requeue, RequeueFails
    <3>3. Len(log) <= Len(log') /\ Len(log') \in Nat BY <1>1, <2>3
    <3>4. QED BY <1>1, <2>1, <2>3, <3>1, <3>2, <3>3 DEF PositionsOK
  <2>6. QED BY <2>4, <2>5
<1>8. CASE Ack
  <2>1. at # 0 BY <1>1, <1>8 DEF PositionsOK, Ack
  <2>2. at \in 1 .. Len(log) /\ at <= cursor BY <1>1, <2>1, HandTyped
  <2>3. PICK ok \in BOOLEAN :
          /\ \/ XAck(at) /\ UNCHANGED stranded
             \/ UNCHANGED <<pending, acked>> /\ stranded' = stranded \cup {at}
          /\ redisError' = (redisError \/ ~ok)
    BY <1>8 DEF Ack, AckEntry, RedisOk
  <2>4. LocalTypeOK' BY <1>1, <1>8, <2>3 DEF Ack, LocalTypeOK, PC
  <2>5. /\ pending' \subseteq pending
        /\ acked' \subseteq acked \cup {at} /\ stranded' \subseteq stranded \cup {at}
    BY <2>3 DEF XAck
  <2>6. PositionsOK' BY <1>1, <1>8, <2>2, <2>5 DEF Ack, PositionsOK
  <2>7. QED BY <2>4, <2>6
<1>9. CASE Crash
  <2>1. LocalTypeOK' BY <1>1, <1>9 DEF Crash, LocalTypeOK, PC
  <2>2. \A i \in InHand : i \in 1 .. Len(log) /\ i <= cursor
    BY <1>1 DEF InHand, PositionsOK
  <2>3. UNCHANGED <<grouped, cursor, pending, acked, start, bad, log>>
        /\ stranded' = stranded \cup InHand /\ at' = 0 /\ pc' = "down"
    BY <1>9 DEF Crash
  <2>4. stranded' \in SUBSET (1 .. Len(log)) BY <1>1, <2>2, <2>3 DEF PositionsOK
  <2>5. PositionsOK' BY <1>1, <2>2, <2>3, <2>4 DEF PositionsOK
  <2>6. QED BY <2>1, <2>5
<1>10. CASE UNCHANGED vars
  BY <1>1, <1>10 DEF vars, LocalTypeOK, PositionsOK
<1>11. QED
  BY <1>2, <1>3, <1>4, <1>5, <1>6, <1>7, <1>8, <1>9, <1>10 DEF Next, Handle

\* Every variable has its type in every reachable state.
THEOREM HooksTypeCorrect == Spec => []TypeOK
<1>1. TypeInv => TypeOK BY DEF TypeInv
<1>2. QED BY <1>1, TypeStart, TypeStep, PTL DEF Spec

-----------------------------------------------------------------------------
(* The stream *)

LEMMA StreamStart == Init => StreamInv
  BY DEF Init, StreamInit, StreamInv, NothingStranded, NothingSkipped, InHand

LEMMA StreamStep == TypeInv /\ StreamInv /\ [Next]_vars => StreamInv'
<1> SUFFICES ASSUME TypeInv, StreamInv, [Next]_vars PROVE StreamInv'
  OBVIOUS
<1> USE DEF history, loopVars, streamVars
<1>1. TypeOK /\ PositionsOK /\ Len(log) \in Nat
  <2>1. PositionsOK /\ TypeOK BY TypeParts DEF TypeInv
  <2>2. QED BY <2>1 DEF PositionsOK
<1>2. /\ log \in Seq(Entry) /\ DOMAIN log = 1 .. Len(log)
      /\ cursor \in 0 .. Len(log) /\ at \in 0 .. cursor
  BY <1>1 DEF PositionsOK
<1>3. ASSUME UNCHANGED <<cursor, pending, acked, at, start, stranded>>,
             \A i \in DOMAIN log' : i <= cursor => i \in DOMAIN log
      PROVE  StreamInv'
  BY <1>3 DEF StreamInv, NothingStranded, NothingSkipped, InHand
<1>4. ASSUME NEW x \in Entry, XAdd(x)
      PROVE  \A i \in DOMAIN log' : i <= cursor => i \in DOMAIN log
  BY <1>1, <1>2, <1>4, Adds
<1>5. ASSUME NEW e \in Event, Publish(e) PROVE StreamInv'
  <2>1. [event |-> e, attempt |-> 0] \in Entry BY DEF Entry
  <2>2. QED BY <1>3, <1>4, <1>5, <2>1 DEF Publish
<1>6. CASE Requeue \/ RequeueFails
  <2>1. UNCHANGED <<cursor, pending, acked, at, start, stranded>>
    BY <1>6 DEF Requeue, RequeueFails
  <2>2. at # 0 BY <1>1, <1>6 DEF PositionsOK, Requeue, RequeueFails
  <2>3. \A i \in DOMAIN log' : i <= cursor => i \in DOMAIN log
    <3>1. CASE AddCopy
      <4>1. log' = log \/ \E x \in Entry : XAdd(x)
        BY <1>1, <2>2, <3>1, Copies
      <4>2. QED BY <1>4, <4>1
    <3>2. QED BY <1>6, <3>1 DEF Requeue, RequeueFails
  <2>4. QED BY <1>3, <2>1, <2>3
<1>7. ASSUME NEW a \in Agent, OtherLock(a) \/ Unlock(a) \/ DownstreamStart(a)
      PROVE  StreamInv'
  BY <1>3, <1>7 DEF OtherLock, Unlock, DownstreamStart
<1>8. CASE SkipTrigger \/ RunAgent \/ RunEnds \/ Dispatch
  BY <1>3, <1>8 DEF SkipTrigger, RunAgent, RunEnds, Dispatch
<1>9. CASE Start
  <2>1. /\ UNCHANGED <<log, pending, acked, at, stranded>>
        /\ at = 0
        /\ grouped => UNCHANGED <<cursor, start>>
        /\ ~grouped => cursor' = Len(log) /\ start' = Len(log)
    BY <1>1, <1>9 DEF Start, GroupCursor, PositionsOK
  <2>2. NothingStranded'
    BY <2>1 DEF StreamInv, NothingStranded, InHand
  <2>3. NothingSkipped'
    BY <1>2, <2>1 DEF StreamInv, NothingSkipped
  <2>4. QED BY <2>2, <2>3 DEF StreamInv
<1>10. CASE Read \/ ReadLost
  <2>1. /\ cursor' \in Nat /\ cursor < cursor' /\ cursor' <= Len(log)
        /\ pending' = pending \cup (cursor + 1 .. cursor')
        /\ UNCHANGED <<log, acked, start>>
    BY <1>1, <1>10, Reads DEF Read, ReadLost
  <2>2. at = 0 BY <1>1, <1>10 DEF Read, ReadLost, PositionsOK
  <2>3. NothingStranded'
    <3>1. CASE Read
      <4>1. at' = cursor + 1 /\ stranded' = stranded BY <3>1 DEF Read
      <4>2. InHand' = cursor + 1 .. cursor' BY <1>2, <4>1 DEF InHand
      <4>3. QED BY <2>1, <2>2, <4>1, <4>2 DEF StreamInv, NothingStranded, InHand
    <3>2. CASE ReadLost
      BY <2>1, <2>2, <3>2 DEF ReadLost, StreamInv, NothingStranded, InHand
    <3>3. QED BY <1>10, <3>1, <3>2
  <2>4. NothingSkipped'
    BY <1>2, <2>1 DEF StreamInv, NothingSkipped
  <2>5. QED BY <2>3, <2>4 DEF StreamInv
<1>11. CASE Ack
  <2>1. /\ at # 0
        /\ at' = IF at < cursor THEN at + 1 ELSE 0
        /\ UNCHANGED <<log, cursor, start>>
    BY <1>1, <1>11 DEF Ack, PositionsOK
  <2>2. \/ XAck(at) /\ UNCHANGED stranded
        \/ UNCHANGED <<pending, acked>> /\ stranded' = stranded \cup {at}
    BY <1>11 DEF Ack, AckEntry
  <2>3. InHand = at .. cursor /\ InHand' = InHand \ {at}
    BY <1>2, <2>1 DEF InHand
  <2>4. at \notin stranded /\ at \in InHand
    BY <1>1, <1>2, <2>1, <2>3 DEF PositionsOK
  <2>5. NothingStranded'
    BY <2>2, <2>3, <2>4 DEF StreamInv, NothingStranded, XAck
  <2>6. NothingSkipped'
    BY <2>1, <2>2 DEF StreamInv, NothingSkipped, XAck
  <2>7. QED BY <2>5, <2>6 DEF StreamInv
<1>12. CASE Crash
  <2>1. /\ UNCHANGED <<log, cursor, pending, acked, start>>
        /\ at' = 0 /\ stranded' = stranded \cup InHand
    BY <1>12 DEF Crash
  <2>2. NothingStranded' BY <2>1 DEF StreamInv, NothingStranded, InHand
  <2>3. NothingSkipped' BY <2>1 DEF StreamInv, NothingSkipped
  <2>4. QED BY <2>2, <2>3 DEF StreamInv
<1>13. CASE UNCHANGED vars
  BY <1>3, <1>13 DEF vars
<1>14. QED
  BY <1>5, <1>6, <1>7, <1>8, <1>9, <1>10, <1>11, <1>12, <1>13 DEF Next, Handle

\* Only a crash, a lost reply or a failed acknowledgement leaves an entry
\* pending that is not in hand.
THEOREM OnlyFaultsStrand == Spec => []NothingStranded
<1>1. StreamInv => NothingStranded BY DEF StreamInv
<1>2. QED BY <1>1, TypeStart, TypeStep, StreamStart, StreamStep, PTL DEF Spec

\* Every entry since the group exists is delivered, in order, across crashes.
THEOREM NoEntrySkipped == Spec => []NothingSkipped
<1>1. StreamInv => NothingSkipped BY DEF StreamInv
<1>2. QED BY <1>1, TypeStart, TypeStep, StreamStart, StreamStep, PTL DEF Spec

-----------------------------------------------------------------------------
(* Retries *)

LEMMA RetryStart == Init => RetryInv
<1> SUFFICES ASSUME Init PROVE RetryInv
  OBVIOUS
<1>1. log = <<>> /\ DOMAIN log = {} BY DEF Init, StreamInit
<1>2. UnpublishedFresh /\ AttemptsSmall
  BY RetryAssumption DEF Init, UnpublishedFresh, AttemptsSmall
<1>3. QED
  BY <1>1, <1>2 DEF RetryInv, AliveOnce, AliveIsLatest, AliveCounts,
     EntriesDistinct, RetriesSmall

LEMMA LogTyped ==
  ASSUME TypeOK
  PROVE  /\ \A i \in DOMAIN log :
              /\ log[i] \in Entry
              /\ log[i].attempt \in Nat /\ log[i].event \in Event
         /\ attempts \in [Event -> Nat] /\ dlq \in [Event -> Nat]
         /\ Len(log) \in Nat /\ DOMAIN log = 1 .. Len(log)
<1>1. log \in Seq(Entry) /\ attempts \in [Event -> Nat] /\ dlq \in [Event -> Nat]
  BY DEF TypeOK, StreamTypeOK
<1>2. Len(log) \in Nat /\ DOMAIN log = 1 .. Len(log)
  BY <1>1
<1>3. \A i \in 1 .. Len(log) : log[i] \in Entry
  BY <1>1, ElementOfSeq
<1>4. QED BY <1>1, <1>2, <1>3 DEF Entry

\* A step that revives no entry and counts and copies nothing.
LEMMA RetryQuiet ==
  ASSUME TypeOK, RetryInv, UNCHANGED <<log, attempts>>,
         \A e \in Event : dlq'[e] = dlq[e] \/ Published(e),
         \A i \in DOMAIN log : Alive(i)' => Alive(i),
         \A i \in DOMAIN log :
           Alive(i)' /\ i = at /\ pc = "retrying" => at' = at /\ pc' = pc
  PROVE  RetryInv'
<1>1. /\ \A i \in DOMAIN log : log[i].attempt \in Nat /\ log[i].event \in Event
      /\ attempts \in [Event -> Nat]
  BY LogTyped
<1>2. AliveOnce' BY DEF RetryInv, AliveOnce, SameEvent
<1>3. AliveIsLatest' BY DEF RetryInv, AliveIsLatest, SameEvent
<1>4. AliveCounts'
  <2> SUFFICES ASSUME NEW i \in DOMAIN log, Alive(i)'
               PROVE  attempts[log[i].event] <= log[i].attempt
                        + (IF i = at' /\ pc' = "retrying" THEN 1 ELSE 0)
    BY DEF AliveCounts
  <2>1. attempts[log[i].event] <=
          log[i].attempt + (IF i = at /\ pc = "retrying" THEN 1 ELSE 0)
    BY DEF RetryInv, AliveCounts
  <2>2. QED BY <1>1, <2>1
<1>5. EntriesDistinct' /\ RetriesSmall' /\ AttemptsSmall'
  BY DEF RetryInv, EntriesDistinct, RetriesSmall, AttemptsSmall
<1>6. UnpublishedFresh'
  BY DEF RetryInv, UnpublishedFresh, Published
<1>7. QED BY <1>2, <1>3, <1>4, <1>5, <1>6 DEF RetryInv

\* An entry x that is new in the log.
LEMMA RetryAdd ==
  ASSUME TypeOK, TypeOK', RetryInv, NEW x \in Entry, XAdd(x),
         UNCHANGED <<cursor, attempts, at, dlq>>,
         \A i \in DOMAIN log : Alive(i)' => Alive(i) /\ log[i].event # x.event,
         \A i \in DOMAIN log :
           Alive(i)' /\ i = at /\ pc = "retrying" => pc' = pc,
         \A i \in DOMAIN log :
           log[i].event = x.event => log[i].attempt < x.attempt,
         attempts[x.event] <= x.attempt, x.attempt <= MaxRetries
  PROVE  RetryInv'
<1> DEFINE new == Len(log) + 1
<1>1. /\ DOMAIN log = 1 .. Len(log) /\ DOMAIN log' = DOMAIN log \cup {new}
      /\ \A i \in DOMAIN log : log'[i] = log[i]
      /\ log'[new] = x
      /\ Len(log) \in Nat
  BY Adds, LogTyped
<1>2. new \notin DOMAIN log /\ at # new
  BY <1>1 DEF TypeOK, StreamTypeOK
<1>3. /\ \A i \in DOMAIN log : log[i].attempt \in Nat /\ log[i].event \in Event
      /\ x.attempt \in Nat /\ x.event \in Event
      /\ attempts \in [Event -> Nat] /\ MaxRetries \in Nat
  BY LogTyped, RetryAssumption DEF Entry
<1>4. AliveOnce'
  <2> SUFFICES ASSUME NEW i \in DOMAIN log', NEW j \in DOMAIN log',
                      Alive(i)', Alive(j)', log'[i].event = log'[j].event
               PROVE  i = j
    BY DEF AliveOnce, SameEvent
  <2>1. QED BY <1>1, <1>2 DEF RetryInv, AliveOnce, SameEvent
<1>5. AliveIsLatest'
  <2> SUFFICES ASSUME NEW i \in DOMAIN log', NEW j \in DOMAIN log',
                      Alive(i)', log'[i].event = log'[j].event
               PROVE  log'[j].attempt <= log'[i].attempt
    BY DEF AliveIsLatest, SameEvent
  <2>1. QED BY <1>1, <1>2, <1>3 DEF RetryInv, AliveIsLatest, SameEvent
<1>6. AliveCounts'
  <2> SUFFICES ASSUME NEW i \in DOMAIN log', Alive(i)'
               PROVE  attempts[log'[i].event] <= log'[i].attempt
                        + (IF i = at /\ pc' = "retrying" THEN 1 ELSE 0)
    BY DEF AliveCounts
  <2>1. CASE i = new BY <1>1, <1>2, <1>3, <2>1
  <2>2. CASE i # new
    <3>1. i \in DOMAIN log /\ Alive(i) /\ log'[i] = log[i] BY <1>1, <2>2
    <3>2. attempts[log[i].event] <=
            log[i].attempt + (IF i = at /\ pc = "retrying" THEN 1 ELSE 0)
      BY <3>1 DEF RetryInv, AliveCounts
    <3>3. QED BY <1>3, <3>1, <3>2
  <2>3. QED BY <2>1, <2>2
<1>7. EntriesDistinct'
  <2> SUFFICES ASSUME NEW i \in DOMAIN log', NEW j \in DOMAIN log', log'[i] = log'[j]
               PROVE  i = j
    BY DEF EntriesDistinct
  <2>1. \A k \in DOMAIN log : log[k] # x BY <1>3
  <2>2. QED BY <1>1, <2>1 DEF RetryInv, EntriesDistinct
<1>8. RetriesSmall' BY <1>1 DEF RetryInv, RetriesSmall
<1>9. UnpublishedFresh'
  <2> SUFFICES ASSUME NEW e \in Event, ~Published(e)'
               PROVE  attempts[e] = 0 /\ dlq[e] = 0
    BY DEF UnpublishedFresh
  <2>1. ~Published(e) BY <1>1 DEF Published
  <2>2. QED BY <2>1 DEF RetryInv, UnpublishedFresh
<1>10. AttemptsSmall' BY DEF RetryInv, AttemptsSmall
<1>11. QED
  BY <1>4, <1>5, <1>6, <1>7, <1>8, <1>9, <1>10 DEF RetryInv

LEMMA RetryStep == TypeInv /\ RetryInv /\ [Next]_vars => RetryInv'
<1> SUFFICES ASSUME TypeInv, RetryInv, [Next]_vars PROVE RetryInv'
  OBVIOUS
<1> USE DEF history, loopVars, streamVars
<1>1. TypeOK /\ TypeOK'
  BY TypeStep DEF TypeInv
<1>2. /\ cursor \in Nat /\ at \in Nat /\ at <= cursor /\ cursor <= Len(log)
      /\ pc \in {"down", "reading"} <=> at = 0
      /\ Len(log) \in Nat /\ DOMAIN log = 1 .. Len(log)
  BY <1>1, LogTyped DEF TypeOK, StreamTypeOK
<1>3. ASSUME UNCHANGED <<log, attempts, dlq, cursor, at, pc>> PROVE RetryInv'
  BY <1>1, <1>3, RetryQuiet DEF Alive
<1>4. ASSUME NEW e \in Event, Publish(e) PROVE RetryInv'
  <2> DEFINE x == [event |-> e, attempt |-> 0]
  <2>1. x \in Entry /\ XAdd(x) /\ UNCHANGED <<cursor, attempts, at, dlq, pc>>
    BY <1>4 DEF Publish, Entry
  <2>2. \A i \in DOMAIN log : log[i].event # e
    BY <1>4 DEF Publish, Published
  <2>3. \A i \in DOMAIN log : Alive(i)' => Alive(i) BY <2>1 DEF Alive
  <2>4. attempts[e] = 0
    BY <1>4 DEF Publish, RetryInv, UnpublishedFresh
  <2>5. attempts[x.event] <= x.attempt /\ x.attempt <= MaxRetries /\ x.event = e
    BY <2>4, RetryAssumption
  <2>6. QED BY <1>1, <2>1, <2>2, <2>3, <2>5, RetryAdd
<1>5. ASSUME NEW a \in Agent, OtherLock(a) \/ Unlock(a) \/ DownstreamStart(a)
      PROVE  RetryInv'
  BY <1>3, <1>5 DEF OtherLock, Unlock, DownstreamStart
<1>6. CASE Start
  <2>1. /\ UNCHANGED <<log, attempts, dlq, at>> /\ pc = "down"
        /\ cursor' = cursor \/ cursor' = Len(log)
    BY <1>6 DEF Start, GroupCursor
  <2>2. \A i \in DOMAIN log : Alive(i)' => Alive(i)
    BY <1>2, <2>1 DEF Alive
  <2>3. QED BY <1>1, <2>1, <2>2, RetryQuiet
<1>7. CASE Read \/ ReadLost
  <2>1. /\ cursor' \in Nat /\ cursor < cursor' /\ UNCHANGED <<log, attempts, dlq>>
        /\ pc = "reading" /\ at = 0
        /\ at' = cursor + 1 \/ at' = 0
    BY <1>1, <1>2, <1>7, Reads DEF Read, ReadLost
  <2>2. \A i \in DOMAIN log : Alive(i)' => Alive(i)
    BY <1>2, <2>1 DEF Alive
  <2>3. QED BY <1>1, <2>1, <2>2, RetryQuiet
<1>8. CASE SkipTrigger \/ RunAgent \/ RunEnds
  <2>1. /\ UNCHANGED <<log, attempts, dlq, cursor, at>>
        /\ pc \in {"matching", "running"}
    BY <1>8 DEF SkipTrigger, RunAgent, RunEnds
  <2>2. \A i \in DOMAIN log : Alive(i)' => Alive(i)
    BY <2>1 DEF Alive
  <2>3. QED BY <1>1, <2>1, <2>2, RetryQuiet
<1>9. CASE Dispatch
  <2>1. /\ pc = "matching" /\ at # 0
        /\ attempts' = [attempts EXCEPT ![event] = @ + 1]
        /\ pc' \in {"retrying", "acking"}
        /\ UNCHANGED <<log, dlq, cursor, at>>
    BY <1>2, <1>9 DEF Dispatch
  <2>2. event \in Event /\ at \in DOMAIN log /\ event = log[at].event
    BY <1>1, <2>1, HandTyped DEF event
  <2>3. Alive(at) BY <2>1 DEF Alive
  <2>4. \A i \in DOMAIN log : Alive(i)' => Alive(i) /\ (i = at => pc' = "retrying")
    BY <1>2, <2>1 DEF Alive
  <2>5. \A i \in DOMAIN log : /\ log[i].attempt \in Nat /\ log[i].event \in Event
                              /\ attempts[log[i].event] \in Nat
    BY <1>1, LogTyped
  <2>6. attempts[event] <= log[at].attempt
    BY <2>1, <2>2, <2>3, <2>5 DEF RetryInv, AliveCounts
  <2>7. \A e \in Event :
          attempts'[e] = IF e = event THEN attempts[e] + 1 ELSE attempts[e]
    BY <1>1, <2>1, LogTyped
  <2>8. AliveCounts'
    <3> SUFFICES ASSUME NEW i \in DOMAIN log, Alive(i)'
                 PROVE  attempts'[log[i].event] <= log[i].attempt
                          + (IF i = at /\ pc' = "retrying" THEN 1 ELSE 0)
      BY <2>1 DEF AliveCounts
    <3>1. CASE log[i].event = event
      <4>1. i = at
        BY <2>2, <2>3, <2>4, <3>1 DEF RetryInv, AliveOnce, SameEvent
      <4>2. QED BY <2>2, <2>4, <2>5, <2>6, <2>7, <4>1
    <3>2. CASE log[i].event # event
      <4>1. i # at BY <2>2, <3>2
      <4>2. attempts[log[i].event] <= log[i].attempt + 0
        BY <2>4, <4>1 DEF RetryInv, AliveCounts
      <4>3. QED BY <2>5, <2>7, <3>2, <4>1, <4>2
    <3>3. QED BY <3>1, <3>2
  <2>9. AttemptsSmall'
    <3>1. log[at].attempt <= MaxRetries
      BY <2>2 DEF RetryInv, RetriesSmall
    <3>2. attempts[event] + 1 <= MaxRetries + 1
      BY <2>2, <2>5, <2>6, <3>1, RetryAssumption
    <3>3. QED BY <2>7, <3>2 DEF RetryInv, AttemptsSmall
  <2>10. UnpublishedFresh'
    <3>1. Published(event) BY <2>2 DEF Published
    <3>2. QED BY <2>1, <2>7, <3>1 DEF RetryInv, UnpublishedFresh, Published
  <2>11. AliveOnce' /\ AliveIsLatest'
    BY <2>1, <2>4 DEF RetryInv, AliveOnce, AliveIsLatest, SameEvent
  <2>12. EntriesDistinct' /\ RetriesSmall'
    BY <2>1 DEF RetryInv, EntriesDistinct, RetriesSmall
  <2>13. QED
    BY <2>8, <2>9, <2>10, <2>11, <2>12 DEF RetryInv
<1>10. CASE Requeue \/ RequeueFails
  <2>1. /\ pc = "retrying" /\ at # 0 /\ pc' = "acking"
        /\ UNCHANGED <<attempts, cursor, at>>
    BY <1>2, <1>10 DEF Requeue, RequeueFails
  <2>2. event \in Event /\ at \in DOMAIN log /\ event = log[at].event
        /\ log[at].attempt \in Nat
    BY <1>1, <2>1, HandTyped DEF event
  <2>3. Alive(at) BY <2>1 DEF Alive
  <2>4. \A i \in DOMAIN log : Alive(i)' => Alive(i) /\ i # at /\ log[i].event # event
    BY <1>2, <2>1, <2>2, <2>3 DEF Alive, RetryInv, AliveOnce, SameEvent
  <2>5. ASSUME log' = log, \A e \in Event : dlq'[e] = dlq[e] \/ Published(e)
        PROVE  RetryInv'
    BY <1>1, <2>1, <2>4, <2>5, RetryQuiet
  <2>6. CASE AddCopy
    <3>1. CASE log' = log /\ dlq' = [dlq EXCEPT ![event] = @ + 1]
      <4>1. Published(event) BY <2>2 DEF Published
      <4>2. \A e \in Event : dlq'[e] = dlq[e] \/ Published(e)
        BY <1>1, <3>1, <4>1, LogTyped
      <4>3. QED BY <2>5, <3>1, <4>2
    <3>2. ASSUME log[at].attempt < MaxRetries, dlq' = dlq,
                 NEW x \in Entry, XAdd(x),
                 x = [event |-> event, attempt |-> log[at].attempt + 1]
          PROVE  RetryInv'
      <4>1. \A i \in DOMAIN log : log[i].event = x.event => log[i].attempt < x.attempt
        <5>1. \A i \in DOMAIN log :
                log[i].event = event => log[i].attempt <= log[at].attempt
          BY <2>2, <2>3 DEF RetryInv, AliveIsLatest, SameEvent
        <5>2. \A i \in DOMAIN log : log[i].attempt \in Nat BY <1>1, LogTyped
        <5>3. QED BY <2>2, <3>2, <5>1, <5>2
      <4>2. attempts[x.event] <= x.attempt
        BY <2>1, <2>2, <2>3, <3>2 DEF RetryInv, AliveCounts
      <4>3. x.attempt <= MaxRetries /\ x.event = event
        BY <2>2, <3>2, RetryAssumption
      <4>4. QED BY <1>1, <2>1, <2>4, <3>2, <4>1, <4>2, <4>3, RetryAdd
    <3>3. QED BY <1>1, <2>1, <2>6, <3>1, <3>2, Copies
  <2>7. CASE UNCHANGED <<log, dlq>> BY <2>5, <2>7
  <2>8. QED BY <1>10, <2>6, <2>7 DEF Requeue, RequeueFails
<1>11. CASE Ack
  <2>1. /\ UNCHANGED <<log, attempts, dlq, cursor>> /\ pc = "acking" /\ at # 0
        /\ at' = IF at < cursor THEN at + 1 ELSE 0
    BY <1>2, <1>11 DEF Ack
  <2>2. \A i \in DOMAIN log : Alive(i)' => Alive(i)
    BY <1>2, <2>1 DEF Alive
  <2>3. QED BY <1>1, <2>1, <2>2, RetryQuiet
<1>12. CASE Crash
  <2>1. UNCHANGED <<log, attempts, dlq, cursor>> /\ at' = 0
    BY <1>12 DEF Crash
  <2>2. \A i \in DOMAIN log : Alive(i)' => Alive(i) /\ i # at
    BY <1>2, <2>1 DEF Alive
  <2>3. QED BY <1>1, <2>1, <2>2, RetryQuiet
<1>13. CASE UNCHANGED vars
  BY <1>3, <1>13 DEF vars
<1>14. QED
  BY <1>4, <1>5, <1>6, <1>7, <1>8, <1>9, <1>10, <1>11, <1>12, <1>13
     DEF Next, Handle

\* Retries are bounded, however handling, crashes and lost Redis replies
\* interleave, and no attempt is queued twice.
THEOREM RetriesBounded == Spec => []AttemptsBounded
<1>1. RetryInv => AttemptsBounded
  BY DEF RetryInv, AttemptsBounded, AttemptsSmall, EntriesDistinct
<1>2. QED BY <1>1, TypeStart, TypeStep, RetryStart, RetryStep, PTL DEF Spec

-----------------------------------------------------------------------------
(* Dead letters *)

\* What all steps have in common.
LEMMA Grows ==
  ASSUME TypeInv, RetryInv, [Next]_vars
  PROVE  /\ DOMAIN log \subseteq DOMAIN log'
         /\ \A i \in DOMAIN log : log'[i] = log[i]
         /\ bad \subseteq bad' /\ bad \subseteq DOMAIN log
         /\ \A e \in Event : dlq[e] > 0 => dlq'[e] > 0
         /\ redisError => redisError'
         /\ typeOf' = typeOf
<1> USE DEF history, loopVars, streamVars
<1>1. TypeOK /\ DOMAIN log = 1 .. Len(log) /\ dlq \in [Event -> Nat]
  BY LogTyped DEF TypeInv
<1>2. bad \subseteq DOMAIN log BY <1>1 DEF TypeOK
<1>3. ASSUME NEW x \in Entry, XAdd(x)
      PROVE  DOMAIN log \subseteq DOMAIN log' /\ \A i \in DOMAIN log : log'[i] = log[i]
  BY <1>1, <1>3, Adds
<1>4. ASSUME UNCHANGED <<log, dlq, typeOf>>, bad \subseteq bad', redisError => redisError'
      PROVE  /\ DOMAIN log \subseteq DOMAIN log'
             /\ \A i \in DOMAIN log : log'[i] = log[i]
             /\ bad \subseteq bad' /\ bad \subseteq DOMAIN log
             /\ \A e \in Event : dlq[e] > 0 => dlq'[e] > 0
             /\ redisError => redisError'
             /\ typeOf' = typeOf
  BY <1>2, <1>4
<1>5. ASSUME NEW e \in Event, Publish(e)
      PROVE  /\ DOMAIN log \subseteq DOMAIN log'
             /\ \A i \in DOMAIN log : log'[i] = log[i]
             /\ UNCHANGED <<bad, dlq, redisError, typeOf>>
  <2>1. [event |-> e, attempt |-> 0] \in Entry BY DEF Entry
  <2>2. QED BY <1>3, <1>5, <2>1 DEF Publish
<1>6. ASSUME Requeue \/ RequeueFails
      PROVE  /\ DOMAIN log \subseteq DOMAIN log'
             /\ \A i \in DOMAIN log : log'[i] = log[i]
             /\ \A e \in Event : dlq[e] > 0 => dlq'[e] > 0
             /\ bad' = bad /\ typeOf' = typeOf
             /\ redisError => redisError'
  <2>1. at # 0 BY <1>1, <1>6 DEF Requeue, RequeueFails, TypeOK
  <2>2. bad' = bad /\ typeOf' = typeOf /\ (redisError => redisError')
    BY <1>6 DEF Requeue, RequeueFails
  <2>3. \/ \E x \in Entry : XAdd(x) /\ dlq' = dlq
        \/ log' = log /\ dlq' = [dlq EXCEPT ![event] = @ + 1]
        \/ UNCHANGED <<log, dlq>>
    BY <1>1, <1>6, <2>1, Copies DEF Requeue, RequeueFails
  <2>4. QED BY <1>1, <1>3, <2>2, <2>3
<1>7. ASSUME NEW a \in Agent, OtherLock(a) \/ Unlock(a) \/ DownstreamStart(a)
      PROVE  UNCHANGED <<log, dlq, bad, redisError, typeOf>>
  BY <1>7 DEF OtherLock, Unlock, DownstreamStart
<1>8. CASE Start \/ Read \/ ReadLost
  BY <1>4, <1>8 DEF Start, Read, ReadLost, XReadGroup
<1>9. CASE SkipTrigger \/ RunAgent \/ RunEnds \/ Dispatch
  BY <1>4, <1>9 DEF SkipTrigger, RunAgent, RunEnds, Dispatch
<1>10. CASE Ack \/ Crash
  BY <1>4, <1>10 DEF Ack, Crash
<1>11. CASE UNCHANGED vars
  BY <1>4, <1>11 DEF vars
<1>12. QED
  BY <1>2, <1>4, <1>5, <1>6, <1>7, <1>8, <1>9, <1>10, <1>11 DEF Next, Handle

\* An entry's being alive ends; only a copy, or an event new to the log, is
\* alive that was not before.
LEMMA AliveEnds ==
  ASSUME TypeInv, RetryInv, [Next]_vars, NEW i \in DOMAIN log, Alive(i)'
  PROVE  Alive(i)
<1> USE DEF history, loopVars, streamVars
<1>1. TypeOK /\ DOMAIN log = 1 .. Len(log) /\ Len(log) \in Nat
  BY LogTyped DEF TypeInv
<1>2. /\ cursor \in Nat /\ at \in Nat /\ at <= cursor /\ cursor <= Len(log)
      /\ pc \in {"down", "reading"} <=> at = 0
  BY <1>1 DEF TypeOK, StreamTypeOK
<1>3. ASSUME UNCHANGED <<cursor, at, pc>> PROVE Alive(i)
  BY <1>3 DEF Alive
<1>4. CASE \E e \in Event : Publish(e)
  BY <1>3, <1>4 DEF Publish
<1>5. CASE \E a \in Agent : OtherLock(a) \/ Unlock(a) \/ DownstreamStart(a)
  BY <1>3, <1>5 DEF OtherLock, Unlock, DownstreamStart
<1>6. CASE Start
  <2>1. at' = 0 /\ at = 0 /\ (cursor' = cursor \/ cursor' = Len(log))
    BY <1>2, <1>6 DEF Start, GroupCursor
  <2>2. QED BY <1>1, <1>2, <2>1 DEF Alive
<1>7. CASE Read \/ ReadLost
  <2>1. /\ cursor' \in Nat /\ cursor < cursor' /\ at = 0
        /\ at' = cursor + 1 \/ at' = 0
    BY <1>1, <1>2, <1>7, Reads DEF Read, ReadLost
  <2>2. QED BY <1>1, <1>2, <2>1 DEF Alive
<1>8. CASE SkipTrigger \/ RunAgent \/ RunEnds \/ Dispatch \/ Requeue \/ RequeueFails
  <2>1. UNCHANGED <<cursor, at>> /\ pc # "acking"
    BY <1>8 DEF SkipTrigger, RunAgent, RunEnds, Dispatch, Requeue, RequeueFails
  <2>2. QED BY <2>1 DEF Alive
<1>9. CASE Ack
  <2>1. cursor' = cursor /\ (at' = IF at < cursor THEN at + 1 ELSE 0)
        /\ at # 0
    BY <1>2, <1>9 DEF Ack
  <2>2. QED BY <1>1, <1>2, <2>1 DEF Alive
<1>10. CASE Crash
  BY <1>2, <1>10 DEF Crash, Alive
<1>11. CASE UNCHANGED vars
  BY <1>3, <1>11 DEF vars
<1>12. QED
  BY <1>4, <1>5, <1>6, <1>7, <1>8, <1>9, <1>10, <1>11 DEF Next, Handle

LEMMA DeadStart == Init => DeadInv
<1> SUFFICES ASSUME Init PROVE DeadInv
  OBVIOUS
<1>1. /\ log = <<>> /\ DOMAIN log = {} /\ bad = {} /\ at = 0 /\ pc = "down"
      /\ failed = FALSE /\ \A e \in Event : dlq[e] = 0
  BY DEF Init, StreamInit
<1>2. QED
  BY <1>1 DEF DeadInv, FailedIsBad, BadHandled, EarlierFailed, DeadOnce

\* The flag and the history.
LEMMA FlagStep ==
  TypeInv /\ DeadInv /\ [Next]_vars => FailedIsBad' /\ BadHandled'
<1> SUFFICES ASSUME TypeInv, DeadInv, [Next]_vars
             PROVE  FailedIsBad' /\ BadHandled'
  OBVIOUS
<1> USE DEF history, loopVars, streamVars
<1>1. TypeOK /\ DOMAIN log = 1 .. Len(log) /\ Len(log) \in Nat
  BY LogTyped DEF TypeInv
<1>2. /\ cursor \in Nat /\ at \in Nat /\ at <= cursor /\ cursor <= Len(log)
      /\ pc \in {"down", "reading"} <=> at = 0
      /\ bad \subseteq 1 .. Len(log) /\ failed \in BOOLEAN
  BY <1>1 DEF TypeOK, StreamTypeOK
<1>3. FailedIsBad /\ BadHandled BY DEF DeadInv
<1>4. ASSUME UNCHANGED <<cursor, at, pc, failed, bad>>
      PROVE  FailedIsBad' /\ BadHandled'
  BY <1>3, <1>4 DEF FailedIsBad, BadHandled
<1>5. CASE \E e \in Event : Publish(e)
  BY <1>4, <1>5 DEF Publish
<1>6. CASE \E a \in Agent : OtherLock(a) \/ Unlock(a) \/ DownstreamStart(a)
  BY <1>4, <1>6 DEF OtherLock, Unlock, DownstreamStart
<1>7. CASE Start
  <2>1. /\ UNCHANGED <<at, failed, bad>> /\ at = 0 /\ pc' = "reading"
        /\ cursor' = cursor \/ cursor' = Len(log)
    BY <1>2, <1>7 DEF Start, GroupCursor
  <2>2. QED BY <1>2, <1>3, <2>1 DEF FailedIsBad, BadHandled
<1>8. CASE Read
  <2>1. /\ at' = cursor + 1 /\ failed' = FALSE /\ bad' = bad /\ pc' = "matching"
        /\ cursor' \in Nat /\ cursor < cursor'
    BY <1>1, <1>8, Reads DEF Read
  <2>2. QED BY <1>2, <1>3, <2>1 DEF FailedIsBad, BadHandled
<1>9. CASE ReadLost
  <2>1. /\ UNCHANGED <<at, pc, failed, bad>> /\ cursor' \in Nat /\ cursor < cursor'
    BY <1>1, <1>9, Reads DEF ReadLost
  <2>2. QED BY <1>2, <1>3, <2>1 DEF FailedIsBad, BadHandled
<1>10. CASE SkipTrigger \/ RunAgent
  <2>1. UNCHANGED <<cursor, at, failed, bad>> /\ pc' # "retrying"
    BY <1>10 DEF SkipTrigger, RunAgent
  <2>2. QED BY <1>3, <2>1 DEF FailedIsBad, BadHandled
<1>11. CASE RunEnds
  <2>1. PICK completed \in BOOLEAN, delivered \in BOOLEAN :
          /\ failed' = StillFailed(completed /\ delivered)
          /\ bad' = IF completed /\ delivered THEN bad ELSE bad \cup {at}
    BY <1>11 DEF RunEnds
  <2>2. UNCHANGED <<cursor, at>> /\ pc' = "matching" /\ at # 0
    BY <1>2, <1>11 DEF RunEnds
  <2>3. BadHandled' BY <1>2, <1>3, <2>1, <2>2 DEF BadHandled
  <2>4. CASE completed /\ delivered
    <3>1. bad' = bad /\ failed' = (failed \/ FALSE)
      BY <2>1, <2>4 DEF StillFailed
    <3>2. QED BY <1>2, <1>3, <2>2, <2>3, <3>1 DEF FailedIsBad
  <2>5. CASE ~(completed /\ delivered)
    <3>1. bad' = bad \cup {at} /\ failed' = TRUE
      BY <2>1, <2>5 DEF StillFailed
    <3>2. QED BY <2>2, <2>3, <3>1 DEF FailedIsBad
  <2>6. QED BY <2>4, <2>5
<1>12. CASE Dispatch
  <2>1. UNCHANGED <<cursor, at, failed, bad>> /\ (pc' = "retrying" => failed)
    BY <1>12 DEF Dispatch
  <2>2. QED BY <1>3, <2>1 DEF FailedIsBad, BadHandled
<1>13. CASE Requeue \/ RequeueFails
  <2>1. UNCHANGED <<cursor, at, failed, bad>> /\ pc' = "acking"
    BY <1>13 DEF Requeue, RequeueFails
  <2>2. QED BY <1>3, <2>1 DEF FailedIsBad, BadHandled
<1>14. CASE Ack
  <2>1. /\ UNCHANGED <<cursor, bad>> /\ failed' = FALSE /\ at # 0
        /\ at' = IF at < cursor THEN at + 1 ELSE 0
        /\ pc' \in {"matching", "reading"}
    BY <1>2, <1>14 DEF Ack
  <2>2. QED BY <1>2, <1>3, <2>1 DEF FailedIsBad, BadHandled
<1>15. CASE Crash
  BY <1>3, <1>15 DEF Crash, FailedIsBad, BadHandled
<1>16. CASE UNCHANGED vars
  BY <1>4, <1>16 DEF vars
<1>17. QED
  BY <1>5, <1>6, <1>7, <1>8, <1>9, <1>10, <1>11, <1>12, <1>13, <1>14, <1>15,
     <1>16 DEF Next, Handle

\* What a step adds to the log and to the dead letters.
LEMMA Additions ==
  ASSUME TypeInv, RetryInv, DeadInv, [Next]_vars
  PROVE  \/ UNCHANGED <<log, dlq>>
         \/ /\ dlq' = dlq
            /\ \E x \in Entry :
                 /\ XAdd(x)
                 /\ dlq[x.event] = 0
                 /\ \/ x.attempt = 0
                    \/ /\ at \in bad
                       /\ x = [event |-> log[at].event, attempt |-> log[at].attempt + 1]
         \/ /\ log' = log /\ at # 0 /\ at \in bad
            /\ dlq' = [dlq EXCEPT ![log[at].event] = 1]
            /\ log[at].attempt = MaxRetries
            /\ Alive(at) /\ \A i \in DOMAIN log : i = at => ~Alive(i)'
<1> USE DEF history, loopVars, streamVars
<1>1. TypeOK /\ DOMAIN log = 1 .. Len(log) /\ Len(log) \in Nat
      /\ dlq \in [Event -> Nat]
  BY LogTyped DEF TypeInv
<1>2. ASSUME NEW e \in Event, Publish(e)
      PROVE  /\ dlq' = dlq
             /\ \E x \in Entry : XAdd(x) /\ dlq[x.event] = 0 /\ x.attempt = 0
  <2> DEFINE x == [event |-> e, attempt |-> 0]
  <2>1. x \in Entry /\ XAdd(x) /\ x.event = e /\ x.attempt = 0
    BY <1>2 DEF Publish, Entry
  <2>2. dlq[e] = 0 BY <1>2 DEF Publish, RetryInv, UnpublishedFresh
  <2>3. dlq' = dlq BY <1>2 DEF Publish
  <2>4. QED BY <2>1, <2>2, <2>3
<1>3. CASE Requeue \/ RequeueFails
  <2>1. /\ pc = "retrying" /\ at # 0 /\ pc' = "acking" /\ UNCHANGED <<cursor, at>>
    BY <1>1, <1>3 DEF Requeue, RequeueFails, TypeOK
  <2>2. event \in Event /\ at \in DOMAIN log /\ event = log[at].event
        /\ log[at].attempt \in Nat /\ at <= cursor
    BY <1>1, <2>1, HandTyped DEF event
  <2>3. Alive(at) /\ \A i \in DOMAIN log : i = at => ~Alive(i)'
    BY <1>1, <2>1, <2>2 DEF Alive, TypeOK, StreamTypeOK
  <2>4. at \in bad BY <2>1 DEF DeadInv, FailedIsBad
  <2>5. dlq[event] = 0
    <3>1. ~(dlq[event] > 0) BY <2>2, <2>3 DEF DeadInv, DeadOnce
    <3>2. QED BY <1>1, <2>2, <3>1
  <2>6. log[at].attempt <= MaxRetries BY <2>2 DEF RetryInv, RetriesSmall
  <2>7. CASE AddCopy
    <3>1. CASE /\ ~(log[at].attempt < MaxRetries)
               /\ dlq' = [dlq EXCEPT ![event] = @ + 1] /\ log' = log
      <4>1. log[at].attempt = MaxRetries
        BY <2>2, <2>6, <3>1, RetryAssumption
      <4>2. dlq' = [dlq EXCEPT ![log[at].event] = 1]
        BY <1>1, <2>2, <2>5, <3>1
      <4>3. QED BY <2>1, <2>3, <2>4, <3>1, <4>1, <4>2
    <3>2. ASSUME dlq' = dlq, NEW x \in Entry, XAdd(x),
                 x = [event |-> event, attempt |-> log[at].attempt + 1]
          PROVE  \E y \in Entry :
                   /\ XAdd(y)
                   /\ dlq[y.event] = 0
                   /\ at \in bad
                   /\ y = [event |-> log[at].event, attempt |-> log[at].attempt + 1]
      <4>1. x.event = event BY <3>2
      <4>2. QED BY <2>2, <2>4, <2>5, <3>2, <4>1
    <3>3. QED BY <1>1, <2>1, <2>7, <3>1, <3>2, Copies
  <2>8. QED BY <1>3, <2>7 DEF Requeue, RequeueFails
<1>4. CASE \E a \in Agent : OtherLock(a) \/ Unlock(a) \/ DownstreamStart(a)
  BY <1>4 DEF OtherLock, Unlock, DownstreamStart
<1>5. CASE Start \/ Read \/ ReadLost
  BY <1>5 DEF Start, Read, ReadLost, XReadGroup
<1>6. CASE SkipTrigger \/ RunAgent \/ RunEnds \/ Dispatch
  BY <1>6 DEF SkipTrigger, RunAgent, RunEnds, Dispatch
<1>7. CASE Ack \/ Crash
  BY <1>7 DEF Ack, Crash
<1>8. CASE UNCHANGED vars
  BY <1>8 DEF vars
<1>9. QED
  BY <1>2, <1>3, <1>4, <1>5, <1>6, <1>7, <1>8 DEF Next, Handle

LEMMA DeadStep == TypeInv /\ RetryInv /\ DeadInv /\ [Next]_vars => DeadInv'
<1> SUFFICES ASSUME TypeInv, RetryInv, DeadInv, [Next]_vars PROVE DeadInv'
  OBVIOUS
<1>1. TypeOK /\ DOMAIN log = 1 .. Len(log) /\ Len(log) \in Nat
      /\ dlq \in [Event -> Nat]
      /\ \A i \in DOMAIN log : log[i] \in Entry
  BY LogTyped DEF TypeInv
<1>2. /\ DOMAIN log \subseteq DOMAIN log' /\ \A i \in DOMAIN log : log'[i] = log[i]
      /\ bad \subseteq bad' /\ bad \subseteq DOMAIN log
  BY Grows
<1>3. \A i \in DOMAIN log : Alive(i)' => Alive(i)
  BY AliveEnds
<1>4. ASSUME NEW e \in Event, NEW n, NEW i \in bad,
             log[i] = [event |-> e, attempt |-> n]
      PROVE  i \in bad' /\ log'[i] = [event |-> e, attempt |-> n]
  BY <1>2, <1>4
<1>5. \A i \in DOMAIN log : \A n \in 0 .. MaxRetries :
        n < log[i].attempt =>
          \E j \in bad' : log'[j] = [event |-> log[i].event, attempt |-> n]
  <2>1. \A i \in DOMAIN log : log[i].event \in Event
    BY <1>1 DEF Entry
  <2>2. QED BY <1>4, <2>1 DEF DeadInv, EarlierFailed
<1>6. \A e \in Event : Exhausted(e) => Exhausted(e)'
  BY <1>4 DEF Exhausted
<1>7. \A i \in DOMAIN log : log[i] = [event |-> log[i].event, attempt |-> log[i].attempt]
      /\ log[i].event \in Event /\ log[i].attempt \in Nat
  BY <1>1 DEF Entry
<1>8. CASE UNCHANGED <<log, dlq>>
  <2>1. EarlierFailed' BY <1>5, <1>8 DEF EarlierFailed
  <2>2. DeadOnce' BY <1>3, <1>6, <1>8 DEF DeadInv, DeadOnce
  <2>3. QED BY <2>1, <2>2, FlagStep DEF DeadInv
<1>9. ASSUME dlq' = dlq, NEW x \in Entry, XAdd(x), dlq[x.event] = 0,
             \/ x.attempt = 0
             \/ /\ at \in bad
                /\ x = [event |-> log[at].event, attempt |-> log[at].attempt + 1]
      PROVE  DeadInv'
  <2> DEFINE new == Len(log) + 1
  <2>1. DOMAIN log' = DOMAIN log \cup {new} /\ log'[new] = x
        /\ \A i \in DOMAIN log : log'[i] = log[i]
    BY <1>1, <1>9, Adds
  <2>2. EarlierFailed'
    <3> SUFFICES ASSUME NEW i \in DOMAIN log', NEW n \in 0 .. MaxRetries,
                        n < log'[i].attempt
                 PROVE  \E j \in bad' :
                          log'[j] = [event |-> log'[i].event, attempt |-> n]
      BY DEF EarlierFailed
    <3>1. CASE i \in DOMAIN log BY <1>2, <1>5, <3>1
    <3>2. CASE i = new
      <4>1. x.attempt # 0 BY <2>1, <3>2, RetryAssumption
      <4>2. at \in bad /\ x = [event |-> log[at].event, attempt |-> log[at].attempt + 1]
        BY <1>9, <4>1
      <4>3. at \in DOMAIN log BY <1>2, <4>2
      <4>4. x.event = log[at].event /\ x.attempt = log[at].attempt + 1
        BY <4>2
      <4>5. n < log[at].attempt \/ n = log[at].attempt
        BY <1>7, <2>1, <3>2, <4>3, <4>4, RetryAssumption
      <4>6. CASE n < log[at].attempt
        BY <1>5, <2>1, <3>2, <4>3, <4>4, <4>6
      <4>7. CASE n = log[at].attempt
        BY <1>2, <1>7, <2>1, <3>2, <4>2, <4>3, <4>4, <4>7
      <4>8. QED BY <4>5, <4>6, <4>7
    <3>3. QED BY <2>1, <3>1, <3>2
  <2>3. DeadOnce'
    <3> SUFFICES ASSUME NEW e \in Event, dlq[e] > 0
                 PROVE  /\ dlq[e] = 1 /\ Exhausted(e)'
                        /\ \A i \in DOMAIN log' : log'[i].event = e => ~Alive(i)'
      BY <1>9 DEF DeadOnce
    <3>1. dlq[e] = 1 /\ Exhausted(e)'
      BY <1>6 DEF DeadInv, DeadOnce
    <3>2. x.event # e BY <1>9
    <3>3. \A i \in DOMAIN log : log[i].event = e => ~Alive(i)'
      BY <1>3 DEF DeadInv, DeadOnce
    <3>4. QED BY <2>1, <3>1, <3>2, <3>3
  <2>4. QED BY <2>2, <2>3, FlagStep DEF DeadInv
<1>10. ASSUME log' = log, at # 0, at \in bad,
              dlq' = [dlq EXCEPT ![log[at].event] = 1],
              log[at].attempt = MaxRetries, Alive(at),
              \A i \in DOMAIN log : i = at => ~Alive(i)'
       PROVE  DeadInv'
  <2>1. EarlierFailed' BY <1>5, <1>10 DEF EarlierFailed
  <2>2. at \in DOMAIN log BY <1>2, <1>10
  <2>3. Exhausted(log[at].event)
    <3> SUFFICES ASSUME NEW n \in 0 .. MaxRetries
                 PROVE  \E i \in bad : log[i] = [event |-> log[at].event, attempt |-> n]
      BY DEF Exhausted
    <3>1. CASE n = MaxRetries BY <1>7, <1>10, <2>2, <3>1
    <3>2. CASE n # MaxRetries
      <4>1. n < log[at].attempt BY <1>10, <3>2, RetryAssumption
      <4>2. QED BY <2>2, <4>1 DEF DeadInv, EarlierFailed
    <3>3. QED BY <3>1, <3>2
  <2>4. DeadOnce'
    <3> SUFFICES ASSUME NEW e \in Event, dlq'[e] > 0
                 PROVE  /\ dlq'[e] = 1 /\ Exhausted(e)'
                        /\ \A i \in DOMAIN log : log[i].event = e => ~Alive(i)'
      BY <1>10 DEF DeadOnce
    <3>1. CASE e = log[at].event
      <4>1. dlq'[e] = 1 BY <1>1, <1>10, <3>1
      <4>2. Exhausted(e) BY <2>3, <3>1 DEF Exhausted
      <4>3. \A i \in DOMAIN log : log[i].event = e => ~Alive(i)'
        BY <1>3, <1>10, <2>2, <3>1 DEF RetryInv, AliveOnce, SameEvent
      <4>4. QED BY <1>6, <4>1, <4>2, <4>3
    <3>2. CASE e # log[at].event
      <4>1. dlq'[e] = dlq[e] BY <1>1, <1>10, <3>2
      <4>2. QED BY <1>3, <1>6, <4>1 DEF DeadInv, DeadOnce
    <3>3. QED BY <3>1, <3>2
  <2>5. QED BY <2>1, <2>4, FlagStep DEF DeadInv
<1>11. QED BY <1>8, <1>9, <1>10, Additions

\* An event is dead-lettered once, and only after each of its attempts had a
\* failing trigger.
THEOREM DeadLettersExhausted == Spec => []DeadLetterMeansExhausted
<1>1. DeadInv => DeadLetterMeansExhausted
  BY DEF DeadInv, DeadOnce, Exhausted, DeadLetterMeansExhausted
<1>2. QED
  BY <1>1, TypeStart, TypeStep, RetryStart, RetryStep, DeadStart, DeadStep, PTL
     DEF Spec

\* Both: retries stop at the bound, and a dead letter comes at the bound only.
THEOREM RetriesAllEnd == Spec => []RetriesEnd
<1>1. AttemptsBounded /\ DeadLetterMeansExhausted => RetriesEnd BY DEF RetriesEnd
<1>2. QED BY <1>1, RetriesBounded, DeadLettersExhausted, PTL

-----------------------------------------------------------------------------
(* Copies *)

\* The reason why a failed entry may go stays until the entry has gone.
LEMMA RenewedStays ==
  ASSUME TypeInv, RetryInv, [Next]_vars, pc = "acking", pc' = "acking",
         at' = at, cursor' = cursor, NEW i \in DOMAIN log, Renewed(i)
  PROVE  Renewed(i)'
<1>1. /\ DOMAIN log \subseteq DOMAIN log' /\ \A j \in DOMAIN log : log'[j] = log[j]
      /\ \A e \in Event : dlq[e] > 0 => dlq'[e] > 0
      /\ redisError => redisError'
  BY Grows
<1>2. log[i].event \in Event BY LogTyped DEF TypeInv
<1>3. \A j \in DOMAIN log : Alive(j) => Alive(j)'
  BY DEF Alive
<1>4. QED BY <1>1, <1>2, <1>3 DEF Renewed, SameEvent

LEMMA CopyStart == Init => CopyInv
  BY DEF Init, StreamInit, CopyInv, CopyAtHand, FailureLivesOn

LEMMA CopyHandStep ==
  TypeInv /\ RetryInv /\ DeadInv /\ CopyInv /\ [Next]_vars => CopyAtHand'
<1> SUFFICES ASSUME TypeInv, RetryInv, DeadInv, CopyInv, [Next]_vars,
                    pc' = "acking", failed'
             PROVE  Renewed(at)'
  BY DEF CopyAtHand
<1> USE DEF history, loopVars, streamVars
<1>1. TypeOK /\ TypeOK' /\ DOMAIN log = 1 .. Len(log) /\ Len(log) \in Nat
      /\ dlq \in [Event -> Nat]
  BY TypeStep, LogTyped DEF TypeInv
<1>2. /\ cursor \in Nat /\ at \in Nat /\ at <= cursor /\ cursor <= Len(log)
      /\ pc \in {"down", "reading"} <=> at = 0
  BY <1>1 DEF TypeOK, StreamTypeOK
<1>3. ASSUME UNCHANGED <<at, pc, failed, cursor>> PROVE Renewed(at)'
  <2>1. at \in DOMAIN log BY <1>1, <1>2, <1>3
  <2>2. Renewed(at) BY <1>3 DEF CopyInv, CopyAtHand
  <2>3. PICK i \in DOMAIN log : i = at BY <2>1
  <2>4. Renewed(i) BY <2>2, <2>3
  <2>5. Renewed(i)' BY <1>3, <2>4, RenewedStays
  <2>6. QED BY <1>3, <2>3, <2>5
<1>4. CASE \E e \in Event : Publish(e)
  BY <1>3, <1>4 DEF Publish
<1>5. CASE \E a \in Agent : OtherLock(a) \/ Unlock(a) \/ DownstreamStart(a)
  BY <1>3, <1>5 DEF OtherLock, Unlock, DownstreamStart
<1>6. CASE Start \/ Read \/ ReadLost \/ SkipTrigger \/ RunAgent \/ RunEnds \/ Crash
  BY <1>6 DEF Start, Read, ReadLost, SkipTrigger, RunAgent, RunEnds, Crash
<1>7. CASE Ack
  BY <1>7 DEF Ack
<1>8. CASE Dispatch
  BY <1>8 DEF Dispatch
<1>9. CASE Requeue \/ RequeueFails
  <2>1. at # 0 /\ UNCHANGED <<at, cursor>>
    BY <1>2, <1>9 DEF Requeue, RequeueFails
  <2>2. at \in DOMAIN log /\ event \in Event /\ event = log[at].event
    BY <1>1, <2>1, HandTyped DEF event
  <2>3. /\ DOMAIN log \subseteq DOMAIN log' /\ \A j \in DOMAIN log : log'[j] = log[j]
    BY Grows
  <2>4. PICK i \in DOMAIN log : i = at BY <2>2
  <2>5. log'[i].event = event BY <2>2, <2>3, <2>4
  <2>6. Renewed(i)'
    <3>1. CASE redisError' BY <3>1 DEF Renewed
    <3>2. CASE AddCopy
      <4>1. CASE dlq' = [dlq EXCEPT ![event] = @ + 1]
        <5>1. dlq'[event] > 0 BY <1>1, <2>2, <4>1
        <5>2. QED BY <2>5, <5>1 DEF Renewed
      <4>2. ASSUME NEW x \in Entry, XAdd(x),
                   x = [event |-> event, attempt |-> log[at].attempt + 1]
            PROVE  Renewed(i)'
        <5> DEFINE new == Len(log) + 1
        <5>1. new \in DOMAIN log' /\ log'[new] = x
          BY <1>1, <4>2, Adds
        <5>2. cursor' < new BY <1>1, <1>2, <2>1
        <5>3. PICK j \in DOMAIN log' : j = new BY <5>1
        <5>4. Alive(j)' BY <5>2, <5>3 DEF Alive
        <5>5. log'[j].event = event BY <4>2, <5>1, <5>3
        <5>6. SameEvent(i, j)' BY <2>5, <5>5 DEF SameEvent
        <5>7. QED BY <5>4, <5>6 DEF Renewed
      <4>3. QED BY <1>1, <2>1, <3>2, <4>1, <4>2, Copies
    <3>3. QED BY <1>9, <3>1, <3>2 DEF Requeue, RequeueFails
  <2>7. QED BY <2>1, <2>4, <2>6
<1>10. CASE UNCHANGED vars
  BY <1>3, <1>10 DEF vars
<1>11. QED
  BY <1>4, <1>5, <1>6, <1>7, <1>8, <1>9, <1>10 DEF Next, Handle

\* What a failed entry's copy, or its absence, amounts to.
LivesOn(i) ==
  \/ redisError
  \/ dlq[log[i].event] > 0
  \/ \E j \in DOMAIN log : /\ log[j].event = log[i].event
                           /\ log[j].attempt > log[i].attempt

LEMMA LivesOnStep ==
  ASSUME TypeInv, RetryInv, [Next]_vars, NEW i \in DOMAIN log, LivesOn(i)
  PROVE  LivesOn(i)'
<1>1. /\ DOMAIN log \subseteq DOMAIN log' /\ \A j \in DOMAIN log : log'[j] = log[j]
      /\ \A e \in Event : dlq[e] > 0 => dlq'[e] > 0
      /\ redisError => redisError'
  BY Grows
<1>2. log[i].event \in Event BY LogTyped DEF TypeInv
<1>3. QED BY <1>1, <1>2 DEF LivesOn

LEMMA CopyStep ==
  TypeInv /\ RetryInv /\ DeadInv /\ CopyInv /\ [Next]_vars => CopyInv'
<1> SUFFICES ASSUME TypeInv, RetryInv, DeadInv, CopyInv, [Next]_vars
             PROVE  FailureLivesOn'
  BY CopyHandStep DEF CopyInv
<1> USE DEF history, loopVars, streamVars
<1>1. TypeOK /\ DOMAIN log = 1 .. Len(log) /\ Len(log) \in Nat
  BY LogTyped DEF TypeInv
<1>2. \A i \in acked \cap bad : i \in DOMAIN log /\ LivesOn(i)
  BY <1>1 DEF CopyInv, FailureLivesOn, LivesOn, TypeOK
<1>3. ASSUME acked' \cap bad' \subseteq acked \cap bad PROVE FailureLivesOn'
  <2> SUFFICES ASSUME NEW i \in acked' \cap bad' PROVE LivesOn(i)'
    BY DEF FailureLivesOn, LivesOn
  <2>1. QED BY <1>2, <1>3, LivesOnStep
<1>4. CASE \E e \in Event : Publish(e)
  BY <1>3, <1>4 DEF Publish
<1>5. CASE \E a \in Agent : OtherLock(a) \/ Unlock(a) \/ DownstreamStart(a)
  BY <1>3, <1>5 DEF OtherLock, Unlock, DownstreamStart
<1>6. CASE Start \/ Read \/ ReadLost \/ Crash
  BY <1>3, <1>6 DEF Start, Read, ReadLost, XReadGroup, Crash
<1>7. CASE SkipTrigger \/ RunAgent \/ Dispatch \/ Requeue \/ RequeueFails
  BY <1>3, <1>7 DEF SkipTrigger, RunAgent, Dispatch, Requeue, RequeueFails
<1>8. CASE RunEnds
  <2>1. at # 0 BY <1>1, <1>8 DEF RunEnds, TypeOK
  <2>2. at \notin acked
    BY <1>1, <2>1 DEF TypeInv, InOrder, TypeOK, StreamTypeOK
  <2>3. acked' = acked /\ bad' \subseteq bad \cup {at} BY <1>8 DEF RunEnds
  <2>4. QED BY <1>3, <2>2, <2>3
<1>9. CASE Ack
  <2>1. at # 0 /\ pc = "acking" /\ bad' = bad /\ acked' \subseteq acked \cup {at}
    BY <1>1, <1>9 DEF Ack, AckEntry, XAck, TypeOK
  <2>2. at \in DOMAIN log /\ at <= cursor BY <1>1, <2>1, HandTyped
  <2>3. at \in bad => LivesOn(at)
    <3> SUFFICES ASSUME at \in bad PROVE LivesOn(at)
      OBVIOUS
    <3>1. failed BY <2>1 DEF DeadInv, FailedIsBad
    <3>2. Renewed(at) BY <2>1, <3>1 DEF CopyInv, CopyAtHand
    <3>3. ASSUME NEW j \in DOMAIN log, Alive(j), SameEvent(at, j)
          PROVE  log[j].attempt > log[at].attempt
      <4>1. ~Alive(at)
        BY <1>1, <2>1, <2>2 DEF Alive, TypeOK, StreamTypeOK
      <4>2. j # at BY <3>3, <4>1
      <4>3. log[at].attempt <= log[j].attempt
        BY <2>2, <3>3 DEF RetryInv, AliveIsLatest, SameEvent
      <4>4. log[at] # log[j]
        BY <2>2, <4>2 DEF RetryInv, EntriesDistinct
      <4>5. log[at] \in Entry /\ log[j] \in Entry
        BY <2>2, LogTyped DEF TypeInv
      <4>6. log[at].attempt # log[j].attempt
        BY <3>3, <4>4, <4>5 DEF Entry, SameEvent
      <4>7. QED BY <4>3, <4>5, <4>6 DEF Entry
    <3>4. QED BY <3>2, <3>3 DEF Renewed, LivesOn, SameEvent
  <2>4. FailureLivesOn'
    <3> SUFFICES ASSUME NEW i \in acked' \cap bad' PROVE LivesOn(i)'
      BY DEF FailureLivesOn, LivesOn
    <3>1. i \in DOMAIN log /\ LivesOn(i) BY <1>2, <2>1, <2>2, <2>3
    <3>2. QED BY <3>1, LivesOnStep
  <2>5. QED BY <2>4
<1>10. CASE UNCHANGED vars
  BY <1>3, <1>10 DEF vars
<1>11. QED
  BY <1>4, <1>5, <1>6, <1>7, <1>8, <1>9, <1>10 DEF Next, Handle

\* An acknowledged entry with a failing trigger lives on.
THEOREM FailuresLiveOn == Spec => []FailureLivesOn
<1>1. CopyInv => FailureLivesOn BY DEF CopyInv
<1>2. QED
  BY <1>1, TypeStart, TypeStep, RetryStart, RetryStep, DeadStart, DeadStep,
     CopyStart, CopyStep, PTL DEF Spec

\* All three: every entry is delivered, one left pending out of hand is explained
\* by a crash, a lost reply or a failed acknowledgement, and failures live on.
THEOREM NoEntriesLost == Spec => []NoEntryLost
<1>1. NothingSkipped /\ NothingStranded /\ FailureLivesOn => NoEntryLost
  BY DEF NoEntryLost
<1>2. QED BY <1>1, OnlyFaultsStrand, NoEntrySkipped, FailuresLiveOn, PTL

-----------------------------------------------------------------------------
(* The account of every event *)

\* What an agent has done, or was too busy to do, stays so.
LEMMA SeenStays ==
  [Next]_vars => \A e, k : Seen(e, k) => Seen(e, k)'
<1> SUFFICES ASSUME [Next]_vars PROVE \A e, k : Seen(e, k) => Seen(e, k)'
  OBVIOUS
<1> USE DEF history, loopVars, streamVars
<1>1. typeOf' = typeOf /\ served \subseteq served' /\ turnedAway \subseteq turnedAway'
  <2>1. CASE \E e \in Event : Publish(e)
    BY <2>1 DEF Publish
  <2>2. CASE \E a \in Agent : OtherLock(a) \/ Unlock(a) \/ DownstreamStart(a)
    BY <2>2 DEF OtherLock, Unlock, DownstreamStart
  <2>3. CASE Start \/ Read \/ ReadLost \/ Ack \/ Crash
    BY <2>3 DEF Start, Read, ReadLost, Ack, Crash
  <2>4. CASE SkipTrigger \/ RunAgent \/ RunEnds \/ Dispatch
    BY <2>4 DEF SkipTrigger, RunAgent, RunEnds, Dispatch
  <2>5. CASE Requeue \/ RequeueFails
    BY <2>5 DEF Requeue, RequeueFails
  <2>6. CASE UNCHANGED vars
    BY <2>6 DEF vars
  <2>7. QED BY <2>1, <2>2, <2>3, <2>4, <2>5, <2>6 DEF Next, Handle
<1>2. QED BY <1>1 DEF Seen, MatchesEvent

LEMMA HandStart == Init => HandInv
  BY DEF Init, HandInv

LEMMA HandStep == TypeInv /\ RetryInv /\ HandInv /\ [Next]_vars => HandInv'
<1> SUFFICES ASSUME TypeInv, RetryInv, HandInv, [Next]_vars PROVE HandInv'
  OBVIOUS
<1> USE DEF history, loopVars, streamVars
<1>1. TypeOK /\ Len(Triggers) \in Nat /\ DOMAIN Triggers = 1 .. Len(Triggers)
      /\ next \in 1 .. Len(Triggers) + 1
      /\ (pc \in {"down", "reading"} <=> at = 0)
  <2>1. Len(Triggers) \in Nat /\ DOMAIN Triggers = 1 .. Len(Triggers)
    BY TriggersAssumption
  <2>2. QED BY <2>1 DEF TypeInv, TypeOK
<1>2. ASSUME at' = at, at # 0, next' = next PROVE
        \A k \in DOMAIN Triggers : k < next' => Seen(event, k)' \/ at' \in bad'
  <2>1. at \in DOMAIN log BY <1>1, <1>2, HandTyped
  <2>2. PICK i \in DOMAIN log : i = at BY <2>1
  <2>3. log'[i] = log[i] /\ bad \subseteq bad' BY Grows
  <2>4. event' = event BY <1>2, <2>2, <2>3 DEF event
  <2>5. PICK e : e = event OBVIOUS
  <2>6. \A k \in DOMAIN Triggers : k < next => Seen(e, k) \/ at \in bad
    BY <1>2, <2>5 DEF HandInv
  <2>7. \A k \in DOMAIN Triggers : k < next => Seen(e, k)' \/ at' \in bad'
    BY <1>2, <2>3, <2>6, SeenStays
  <2>8. QED BY <1>2, <2>4, <2>5, <2>7
<1>3. ASSUME UNCHANGED <<at, next, pc>> PROVE HandInv'
  BY <1>2, <1>3 DEF HandInv
<1>4. CASE \E e \in Event : Publish(e)
  BY <1>3, <1>4 DEF Publish
<1>5. CASE \E a \in Agent : OtherLock(a) \/ Unlock(a) \/ DownstreamStart(a)
  BY <1>3, <1>5 DEF OtherLock, Unlock, DownstreamStart
<1>6. CASE Start \/ ReadLost
  <2>1. at' = at /\ at = 0 /\ pc' \notin {"retrying", "acking"}
    BY <1>1, <1>6 DEF Start, ReadLost
  <2>2. QED BY <2>1 DEF HandInv
<1>7. CASE Read \/ Ack \/ Crash
  <2>1. next' = 1 /\ pc' \notin {"retrying", "acking"} BY <1>7 DEF Read, Ack, Crash
  <2>2. \A k \in DOMAIN Triggers : ~(k < 1) BY <1>1
  <2>3. QED BY <2>1, <2>2 DEF HandInv
<1>8. CASE RunAgent \/ Dispatch \/ Requeue \/ RequeueFails
  <2>1. at' = at /\ at # 0 /\ next' = next
    BY <1>1, <1>8 DEF RunAgent, Dispatch, Requeue, RequeueFails
  <2>2. pc' \in {"retrying", "acking"} => next > Len(Triggers)
    BY <1>8 DEF RunAgent, Dispatch, Requeue, RequeueFails, HandInv
  <2>3. QED BY <1>2, <2>1, <2>2 DEF HandInv
<1>9. ASSUME pc \in {"matching", "running"}, pc' = "matching", at' = at, log' = log,
             next' = next + 1,
             NEW e, e = event, NEW n, n = next, Seen(e, n)' \/ at' \in bad'
      PROVE  HandInv'
  <2>1. at # 0 BY <1>1, <1>9
  <2>2. bad \subseteq bad' BY Grows
  <2>4. event' = e BY <1>9 DEF event
  <2>5. \A k \in DOMAIN Triggers : k < next => Seen(e, k) \/ at \in bad
    BY <1>9, <2>1 DEF HandInv
  <2>6. \A k \in DOMAIN Triggers : k < next => Seen(e, k)' \/ at' \in bad'
    BY <1>9, <2>2, <2>5, SeenStays
  <2>7. \A k \in DOMAIN Triggers : k < next' => k < next \/ k = n
    BY <1>1, <1>9
  <2>8. QED BY <1>9, <2>4, <2>6, <2>7 DEF HandInv
<1>10. CASE SkipTrigger
  <2>1. PICK e : e = event OBVIOUS
  <2>2. PICK n : n = next OBVIOUS
  <2>3. UNCHANGED <<log, at, typeOf>> /\ pc = "matching" /\ pc' = pc
        /\ next' = next + 1
    BY <1>10 DEF SkipTrigger
  <2>5. Matches(trigger) <=> MatchesEvent(Triggers[n], e)
    BY <2>1, <2>2 DEF Matches, MatchesEvent, trigger
  <2>6. Seen(e, n)'
    BY <1>10, <2>1, <2>2, <2>3, <2>5
       DEF SkipTrigger, Skips, Seen, MatchesEvent, trigger
  <2>7. QED BY <1>9, <2>1, <2>2, <2>3, <2>6
<1>11. CASE RunEnds
  <2>1. UNCHANGED <<log, at, typeOf>> /\ pc = "running" /\ pc' = "matching"
        /\ next' = next + 1
    BY <1>11 DEF RunEnds
  <2>2. at \in bad' \/ <<event, trigger.agent>> \in served'
    BY <1>11 DEF RunEnds
  <2>3. PICK e : e = event OBVIOUS
  <2>4. PICK n : n = next OBVIOUS
  <2>5. Seen(e, n)' \/ at' \in bad'
    BY <2>1, <2>2, <2>3, <2>4 DEF Seen, trigger
  <2>6. QED BY <1>9, <2>1, <2>3, <2>4, <2>5
<1>12. CASE UNCHANGED vars
  BY <1>3, <1>12 DEF vars
<1>13. QED
  BY <1>4, <1>5, <1>6, <1>7, <1>8, <1>10, <1>11, <1>12 DEF Next, Handle

LEMMA ClosedStays ==
  ASSUME TypeInv, RetryInv, [Next]_vars, NEW e \in Event, Closed(e)
  PROVE  Closed(e)'
<1>1. /\ dlq[e] > 0 => dlq'[e] > 0
      /\ redisError => redisError'
  BY Grows
<1>2. (\A k \in DOMAIN Triggers : Seen(e, k)) => \A k \in DOMAIN Triggers : Seen(e, k)'
  BY SeenStays
<1>3. QED BY <1>1, <1>2 DEF Closed

\* An entry is left until it is acknowledged.
LEMMA LeftEnds ==
  ASSUME TypeInv, RetryInv, [Next]_vars, NEW i \in DOMAIN log, Left(i)
  PROVE  Left(i)' \/ (Ack /\ i = at)
<1> USE DEF history, loopVars, streamVars
<1>1. TypeOK /\ DOMAIN log = 1 .. Len(log) /\ Len(log) \in Nat
  BY LogTyped DEF TypeInv
<1>2. cursor \in Nat /\ cursor <= Len(log) /\ start \in Nat /\ start <= Len(log)
  BY <1>1 DEF TypeOK, StreamTypeOK
<1>3. ASSUME UNCHANGED <<start, cursor, pending>> PROVE Left(i)'
  BY <1>3 DEF Left
<1>4. CASE \E e \in Event : Publish(e)
  BY <1>3, <1>4 DEF Publish
<1>5. CASE \E a \in Agent : OtherLock(a) \/ Unlock(a) \/ DownstreamStart(a)
  BY <1>3, <1>5 DEF OtherLock, Unlock, DownstreamStart
<1>6. CASE Start
  <2>1. CASE grouped
    BY <1>3, <1>6, <2>1 DEF Start, GroupCursor
  <2>2. CASE ~grouped
    <3>1. start' = Len(log) BY <1>6, <2>2 DEF Start
    <3>2. QED BY <1>1, <3>1 DEF Left
  <2>3. QED BY <2>1, <2>2
<1>7. CASE Read \/ ReadLost
  <2>1. /\ cursor' \in Nat /\ cursor < cursor'
        /\ pending' = pending \cup (cursor + 1 .. cursor')
        /\ start' = start
    BY <1>1, <1>7, Reads DEF Read, ReadLost
  <2>2. QED BY <1>1, <1>2, <2>1 DEF Left
<1>8. CASE SkipTrigger \/ RunAgent \/ RunEnds \/ Dispatch \/ Requeue
           \/ RequeueFails \/ Crash
  BY <1>3, <1>8
     DEF SkipTrigger, RunAgent, RunEnds, Dispatch, Requeue, RequeueFails, Crash
<1>9. CASE Ack
  <2>1. UNCHANGED <<start, cursor>> /\ pending \subseteq pending' \cup {at}
    BY <1>9 DEF Ack, AckEntry, XAck
  <2>2. QED BY <1>9, <2>1 DEF Left
<1>10. CASE UNCHANGED vars
  BY <1>3, <1>10 DEF vars
<1>11. QED
  BY <1>4, <1>5, <1>6, <1>7, <1>8, <1>9, <1>10 DEF Next, Handle

\* The entry in hand is acknowledged when its event is closed, or when
\* another entry of it, its copy, is left.
LEMMA AckCloses ==
  ASSUME TypeInv, StreamInv, RetryInv, DeadInv, CopyInv, HandInv, Ack
  PROVE  \/ Closed(event)
         \/ \E j \in DOMAIN log : log[j].event = event /\ j # at /\ Left(j)
<1>1. TypeOK /\ DOMAIN log = 1 .. Len(log) /\ Len(log) \in Nat
      /\ Len(Triggers) \in Nat /\ DOMAIN Triggers = 1 .. Len(Triggers)
  BY LogTyped, TriggersAssumption DEF TypeInv
<1>2. at # 0 /\ pc = "acking" /\ cursor \in Nat /\ at \in Nat
  BY <1>1 DEF Ack, TypeOK, StreamTypeOK
<1>3. CASE at \in bad
  <2>1. Renewed(at) BY <1>2, <1>3 DEF DeadInv, FailedIsBad, CopyInv, CopyAtHand
  <2>2. ASSUME NEW j \in DOMAIN log, Alive(j) PROVE j # at /\ Left(j)
    <3>1. j # at BY <1>1, <1>2, <2>2 DEF Alive, TypeOK
    <3>2. cursor < j \/ (at < j /\ j <= cursor)
      BY <1>1, <1>2, <2>2, <3>1 DEF Alive
    <3>3. at < j /\ j <= cursor => j \in pending
      BY <1>1, <1>2 DEF StreamInv, NothingStranded, InHand
    <3>4. QED BY <3>1, <3>2, <3>3 DEF Left
  <2>3. QED BY <2>1, <2>2 DEF Renewed, SameEvent, Closed, event
<1>4. CASE at \notin bad
  <2>1. next > Len(Triggers) /\ next \in Nat
    BY <1>1, <1>2 DEF HandInv, TypeOK
  <2>2. \A k \in DOMAIN Triggers : k < next BY <1>1, <2>1
  <2>3. \A k \in DOMAIN Triggers : Seen(event, k)
    BY <1>2, <1>4, <2>2 DEF HandInv
  <2>4. QED BY <2>3 DEF Closed
<1>5. QED BY <1>3, <1>4

LEMMA AccountStart == Init => AccountInv
<1> SUFFICES ASSUME Init PROVE AccountInv
  OBVIOUS
<1>1. DOMAIN log = {} BY DEF Init, StreamInit
<1>2. QED BY <1>1 DEF AccountInv, Published

LEMMA AccountStep ==
  TypeInv /\ StreamInv /\ RetryInv /\ DeadInv /\ CopyInv /\ HandInv
    /\ AccountInv /\ [Next]_vars => AccountInv'
<1> SUFFICES ASSUME TypeInv, StreamInv, RetryInv, DeadInv, CopyInv, HandInv,
                    AccountInv, [Next]_vars,
                    NEW e \in Event, Published(e)'
             PROVE  Closed(e)' \/ \E i \in DOMAIN log' :
                                    log'[i].event = e /\ Left(i)'
  BY DEF AccountInv
<1>1. TypeOK /\ DOMAIN log = 1 .. Len(log) /\ Len(log) \in Nat
  BY LogTyped DEF TypeInv
<1>2. DOMAIN log \subseteq DOMAIN log' /\ \A i \in DOMAIN log : log'[i] = log[i]
  BY Grows
<1>3. CASE Published(e)
  <2>1. CASE Closed(e) BY <2>1, ClosedStays
  <2>2. ASSUME NEW i \in DOMAIN log, log[i].event = e, Left(i)
        PROVE  Closed(e)' \/ \E j \in DOMAIN log' : log'[j].event = e /\ Left(j)'
    <3>1. CASE Left(i)' BY <1>2, <2>2, <3>1
    <3>2. CASE Ack /\ i = at
      <4>1. event = e BY <2>2, <3>2 DEF event
      <4>2. CASE Closed(e) BY <4>2, ClosedStays
      <4>3. ASSUME NEW j \in DOMAIN log, log[j].event = e, j # at, Left(j)
            PROVE  \E k \in DOMAIN log' : log'[k].event = e /\ Left(k)'
        <5>1. Left(j)' BY <4>3, LeftEnds
        <5>2. QED BY <1>2, <4>3, <5>1
      <4>4. Closed(e) \/ \E j \in DOMAIN log : log[j].event = e /\ j # at /\ Left(j)
        BY <3>2, <4>1, AckCloses
      <4>5. QED BY <4>2, <4>3, <4>4
    <3>3. QED BY <2>2, <3>1, <3>2, LeftEnds
  <2>3. QED BY <1>3, <2>1, <2>2 DEF AccountInv
<1>4. CASE ~Published(e)
  <2> DEFINE new == Len(log) + 1
  <2>1. ASSUME UNCHANGED log PROVE FALSE
    BY <1>4, <2>1 DEF Published
  <2>2. ASSUME NEW x \in Entry, XAdd(x), cursor' = cursor
        PROVE  \E i \in DOMAIN log' : log'[i].event = e /\ Left(i)'
    <3>1. /\ DOMAIN log' = DOMAIN log \cup {new}
          /\ \A i \in DOMAIN log : log'[i] = log[i]
      BY <1>1, <2>2, Adds
    <3>2. PICK i \in DOMAIN log' : log'[i].event = e
      BY DEF Published
    <3>3. i \notin DOMAIN log BY <1>4, <3>1, <3>2 DEF Published
    <3>4. i = new BY <3>1, <3>3
    <3>5. cursor' < i BY <1>1, <2>2, <3>4 DEF TypeOK, StreamTypeOK
    <3>6. QED BY <3>2, <3>5 DEF Left
  <2>3. UNCHANGED log \/ (cursor' = cursor /\ \E x \in Entry : XAdd(x))
    <3> USE DEF history, loopVars, streamVars
    <3>1. ASSUME NEW d \in Event, Publish(d)
          PROVE  cursor' = cursor /\ \E x \in Entry : XAdd(x)
      <4>1. [event |-> d, attempt |-> 0] \in Entry BY DEF Entry
      <4>2. QED BY <3>1, <4>1 DEF Publish
    <3>2. CASE Requeue \/ RequeueFails
      <4>1. at # 0 /\ cursor' = cursor
        BY <1>1, <3>2 DEF Requeue, RequeueFails, TypeOK
      <4>2. AddCopy \/ UNCHANGED log BY <3>2 DEF Requeue, RequeueFails
      <4>3. QED BY <1>1, <4>1, <4>2, Copies
    <3>3. CASE \E a \in Agent : OtherLock(a) \/ Unlock(a) \/ DownstreamStart(a)
      BY <3>3 DEF OtherLock, Unlock, DownstreamStart
    <3>4. CASE Start \/ Read \/ ReadLost \/ Ack \/ Crash
      BY <3>4 DEF Start, Read, ReadLost, XReadGroup, Ack, Crash
    <3>5. CASE SkipTrigger \/ RunAgent \/ RunEnds \/ Dispatch
      BY <3>5 DEF SkipTrigger, RunAgent, RunEnds, Dispatch
    <3>6. CASE UNCHANGED vars BY <3>6 DEF vars
    <3>7. QED BY <3>1, <3>2, <3>3, <3>4, <3>5, <3>6 DEF Next, Handle
  <2>4. QED BY <2>1, <2>2, <2>3
<1>5. QED BY <1>3, <1>4

\* An event the engine is done with misses a completed run of an agent only
\* for one of the reasons EventAccounted names.
THEOREM EventsAccounted == Spec => []EventAccounted
<1>1. TypeInv /\ AccountInv => EventAccounted
  <2> SUFFICES ASSUME TypeInv, AccountInv, NEW e \in Event, Published(e), DoneWith(e)
               PROVE  Closed(e) \/ \E i \in pending : log[i].event = e
    BY DEF EventAccounted, Closed, Seen
  <2>1. ASSUME NEW i \in DOMAIN log, log[i].event = e, Left(i)
        PROVE  i \in pending
    <3>1. start < i /\ i <= cursor BY <2>1 DEF DoneWith
    <3>2. start \in Nat /\ cursor \in Nat /\ i \in Nat
      BY LogTyped DEF TypeInv, TypeOK, StreamTypeOK
    <3>3. QED BY <2>1, <3>1, <3>2 DEF Left
  <2>2. QED BY <2>1 DEF AccountInv
<1>2. QED
  BY <1>1, TypeStart, TypeStep, StreamStart, StreamStep, RetryStart, RetryStep,
     DeadStart, DeadStep, CopyStart, CopyStep, HandStart, HandStep,
     AccountStart, AccountStep, PTL DEF Spec
=============================================================================
