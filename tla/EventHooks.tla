----------------------------- MODULE EventHooks -----------------------------
(***************************************************************************)
(* The engine's event consumer (engine/hooks.py) on one stream.            *)
(*                                                                         *)
(* The loop reads up to BatchSize new entries and handles them one after   *)
(* the other: for each trigger whose event type matches it locks the       *)
(* agent, runs it and delivers the result; a busy agent is skipped.  If    *)
(* any trigger failed, a copy of the event goes back to the stream with    *)
(* _retry_count one higher, or to the dead letter queue after MaxRetries;  *)
(* the entry itself is always acknowledged.  The loop reads new entries    *)
(* only, so what a crash leaves pending is never handled again.            *)
(*                                                                         *)
(* The lock set is shared with the scheduler, workflows, downstream runs   *)
(* and the reaper (see RunLocks): they appear as OtherLock and Unlock.     *)
(***************************************************************************)
EXTENDS RedisStream

CONSTANTS
  Event,       \* events that producers publish; their number bounds the log
  Type,        \* event types
  NoType,      \* the empty type, which matches every trigger
  Agent,
  Triggers,    \* triggers of the stream: sequence of [agent, type]
  Downstream,  \* Downstream[a]: downstream_agents of a
  MaxRetries,  \* MAX_RETRIES
  BatchSize,   \* count=5
  Crashes,     \* TRUE when the daemon may die
  RedisFails   \* TRUE when a Redis call may fail

ASSUME NoTypeAssumption == NoType \notin Type
ASSUME TriggersAssumption == Triggers \in Seq([agent : Agent, type : Type])
ASSUME DownstreamAssumption == Downstream \in [Agent -> SUBSET Agent]
ASSUME RetryAssumption == MaxRetries \in Nat /\ BatchSize \in Nat \ {0}
ASSUME FaultAssumption == Crashes \in BOOLEAN /\ RedisFails \in BOOLEAN

VARIABLES
  typeOf,     \* typeOf[e]: the event's type (never changes)
  start,      \* history: the cursor the group was created with
  pc,         \* where the loop is
  at,         \* entry being handled, 0 for none; at .. cursor are in hand
  next,       \* next trigger to look at
  failed,     \* the loop's local flag for the entry in hand
  locked,     \* dedup._running
  spawned,    \* downstream tasks not started yet
  dlq,        \* dlq[e]: copies of e in the dead letter stream
  attempts,   \* history: how often e was handled to the end of its triggers
  bad,        \* history: entries one of whose triggers failed
  served,     \* history: <<e, a>> when agent a completed a run for e
  turnedAway, \* history: <<e, a>> when a was busy as e's trigger came up
  stranded,   \* history: entries a crash or a lost reply left pending
  redisError  \* history: a Redis call failed

loopVars == <<pc, at, next, failed>>
history == <<start, attempts, bad, served, turnedAway, stranded,
             redisError>>
vars == <<streamVars, typeOf, loopVars, locked, spawned, dlq, history>>

Entry == [event : Event, attempt : Nat]
PC == {"down", "reading", "matching", "running", "retrying", "acking"}
InHand == IF at = 0 THEN {} ELSE at .. cursor
RedisOk == IF RedisFails THEN BOOLEAN ELSE {TRUE}

TypeOK ==
  /\ StreamTypeOK(Entry)
  /\ typeOf \in [Event -> Type \cup {NoType}]
  /\ start \in 0 .. Len(log)
  /\ pc \in PC
  /\ at \in 0 .. cursor
  /\ next \in 1 .. Len(Triggers) + 1
  /\ failed \in BOOLEAN
  /\ locked \in SUBSET Agent
  /\ spawned \in SUBSET Agent
  /\ dlq \in [Event -> Nat]
  /\ attempts \in [Event -> Nat]
  /\ bad \in SUBSET (1 .. Len(log))
  /\ served \in SUBSET (Event \X Agent)
  /\ turnedAway \in SUBSET (Event \X Agent)
  /\ stranded \in SUBSET (1 .. Len(log))
  /\ redisError \in BOOLEAN
  /\ pc \in {"down", "reading"} <=> at = 0

Init ==
  /\ StreamInit
  /\ typeOf \in [Event -> Type \cup {NoType}]
  /\ start = 0
  /\ pc = "down"
  /\ at = 0
  /\ next = 1
  /\ failed = FALSE
  /\ locked = {}
  /\ spawned = {}
  /\ dlq = [e \in Event |-> 0]
  /\ attempts = [e \in Event |-> 0]
  /\ bad = {}
  /\ served = {}
  /\ turnedAway = {}
  /\ stranded = {}
  /\ redisError = FALSE

event == log[at].event
trigger == Triggers[next]

Published(e) == \E i \in DOMAIN log : log[i].event = e

-----------------------------------------------------------------------------
(* The world around the loop *)

\* bus.publish of a producer.
Publish(e) ==
  /\ ~Published(e)
  /\ XAdd([event |-> e, attempt |-> 0])
  /\ UNCHANGED <<grouped, cursor, pending, acked, typeOf, loopVars, locked,
                 spawned, dlq, history>>

\* A scheduled, workflow or downstream run takes the agent's lock.
OtherLock(a) ==
  /\ a \notin locked
  /\ locked' = locked \cup {a}
  /\ UNCHANGED <<streamVars, typeOf, loopVars, spawned, dlq, history>>

\* It releases it; or the reaper releases anybody's.
Unlock(a) ==
  /\ a \in locked
  /\ locked' = locked \ {a}
  /\ UNCHANGED <<streamVars, typeOf, loopVars, spawned, dlq, history>>

\* A downstream task starts: it takes the lock, or finds it taken and ends.
DownstreamStart(a) ==
  /\ a \in spawned
  /\ spawned' = spawned \ {a}
  /\ locked' = locked \cup {a}
  /\ UNCHANGED <<streamVars, typeOf, loopVars, dlq, history>>

-----------------------------------------------------------------------------
(* The consumer loop *)

\* Mutant: the group is created anew at "$" on every start.
GroupCursorAnew == Len(log)
\* xgroup_create with id "$"; when the group exists the error is suppressed.
GroupCursor == IF grouped THEN cursor ELSE Len(log)

Start ==
  /\ pc = "down"
  /\ pc' = "reading"
  /\ grouped' = TRUE
  /\ cursor' = GroupCursor
  /\ start' = IF grouped THEN start ELSE Len(log)
  /\ UNCHANGED <<log, pending, acked, typeOf, at, next, failed, locked,
                 spawned, dlq, attempts, bad, served, turnedAway,
                 stranded, redisError>>

Read ==
  /\ pc = "reading"
  /\ XReadGroup(BatchSize)
  /\ pc' = "matching"
  /\ at' = cursor + 1
  /\ next' = 1
  /\ failed' = FALSE
  /\ UNCHANGED <<typeOf, locked, spawned, dlq, history>>

\* The reply is lost: the loop logs the error, sleeps and reads on, and what
\* Redis has delivered stays pending.
ReadLost ==
  /\ pc = "reading" /\ RedisFails
  /\ XReadGroup(BatchSize)
  /\ stranded' = stranded \cup (cursor + 1 .. cursor')
  /\ redisError' = TRUE
  /\ UNCHANGED <<typeOf, loopVars, locked, spawned, dlq, start, attempts,
                 bad, served, turnedAway>>

\* Mutant: an event without a type matches no trigger.
MatchesStrictly(t) == t.type = typeOf[event]
Matches(t) == typeOf[event] = NoType \/ t.type = typeOf[event]

\* Mutant: the loop waits for a busy agent.
SkipsUnmatched(t) == ~Matches(t)
\* The trigger is for another event type, or its agent is busy.
Skips(t) == ~Matches(t) \/ t.agent \in locked

SkipTrigger ==
  /\ pc = "matching" /\ next <= Len(Triggers)
  /\ Skips(trigger)
  /\ next' = next + 1
  /\ turnedAway' = IF Matches(trigger)
                     THEN turnedAway \cup {<<event, trigger.agent>>}
                     ELSE turnedAway
  /\ UNCHANGED <<streamVars, typeOf, pc, at, failed, locked, spawned, dlq,
                 start, attempts, bad, served, stranded, redisError>>

RunAgent ==
  /\ pc = "matching" /\ next <= Len(Triggers)
  /\ Matches(trigger) /\ trigger.agent \notin locked
  /\ pc' = "running"
  /\ locked' = locked \cup {trigger.agent}
  /\ UNCHANGED <<streamVars, typeOf, at, next, failed, spawned, dlq, history>>

StillFailed(ok) == failed \/ ~ok

\* execute() and deliver() are over: the run failed, timed out or raised, or
\* its delivery raised (the run itself has completed then), or all is well
\* and the downstream agents are spawned.
RunEnds ==
  /\ pc = "running"
  /\ \E completed, delivered \in BOOLEAN :
       LET ok == completed /\ delivered IN
       /\ failed' = StillFailed(ok)
       /\ bad' = IF ok THEN bad ELSE bad \cup {at}
       /\ served' = IF completed THEN served \cup {<<event, trigger.agent>>}
                                 ELSE served
       /\ spawned' = IF ok THEN spawned \cup Downstream[trigger.agent]
                           ELSE spawned
  /\ pc' = "matching"
  /\ next' = next + 1
  /\ locked' = locked \ {trigger.agent}
  /\ UNCHANGED <<streamVars, typeOf, at, dlq, start, attempts,
                 turnedAway, stranded, redisError>>

\* After the last trigger the matching workflows are spawned, every time.
Dispatch ==
  /\ pc = "matching" /\ next > Len(Triggers)
  /\ attempts' = [attempts EXCEPT ![event] = @ + 1]
  /\ pc' = IF failed THEN "retrying" ELSE "acking"
  /\ UNCHANGED <<streamVars, typeOf, at, next, failed, locked, spawned, dlq,
                 start, bad, served, turnedAway,
                 stranded, redisError>>

MayRetry(n) == n < MaxRetries

\* Mutant: the counter is not carried over.
RetryCountKept(n) == n
RetryCount(n) == n + 1

\* XADD of the copy, to the stream or to the dead letter queue.
AddCopy ==
  IF MayRetry(log[at].attempt)
    THEN /\ XAdd([event |-> event, attempt |-> RetryCount(log[at].attempt)])
         /\ dlq' = dlq
    ELSE /\ dlq' = [dlq EXCEPT ![event] = @ + 1]
         /\ log' = log

Requeue ==
  /\ pc = "retrying"
  /\ pc' = "acking"
  /\ AddCopy
  /\ UNCHANGED <<grouped, cursor, pending, acked, typeOf, at, next, failed,
                 locked, spawned, history>>

\* The XADD raises, with or without effect: that is logged, and the entry is
\* acknowledged anyway.
RequeueFails ==
  /\ pc = "retrying" /\ RedisFails
  /\ pc' = "acking"
  /\ redisError' = TRUE
  /\ AddCopy \/ UNCHANGED <<log, dlq>>
  /\ UNCHANGED <<grouped, cursor, pending, acked, typeOf, at, next,
                 failed, locked, spawned, start, attempts, bad, served,
                 turnedAway, stranded>>

AckEntry == XAck(at)

\* XACK, and on to the next entry of the batch.
Ack ==
  /\ pc = "acking"
  /\ \E ok \in RedisOk :
       /\ \/ AckEntry /\ UNCHANGED stranded
          \/ /\ ~ok /\ UNCHANGED <<pending, acked>>
             /\ stranded' = stranded \cup {at}
       /\ redisError' = (redisError \/ ~ok)
  /\ IF at < cursor
       THEN pc' = "matching" /\ at' = at + 1
       ELSE pc' = "reading" /\ at' = 0
  /\ next' = 1
  /\ failed' = FALSE
  /\ UNCHANGED <<log, grouped, cursor, typeOf, locked, spawned, dlq, start,
                 attempts, bad, served, turnedAway>>

\* The daemon dies (or is stopped): the batch in hand is forgotten.
Crash ==
  /\ pc # "down" /\ Crashes
  /\ pc' = "down"
  /\ at' = 0
  /\ next' = 1
  /\ failed' = FALSE
  /\ locked' = {}
  /\ spawned' = {}
  /\ stranded' = stranded \cup InHand
  /\ UNCHANGED <<streamVars, typeOf, dlq, start, attempts, bad, served,
                 turnedAway, redisError>>

Handle ==
  SkipTrigger \/ RunAgent \/ RunEnds \/ Dispatch \/ Requeue \/ RequeueFails
  \/ Ack

Next ==
  \/ \E e \in Event : Publish(e)
  \/ \E a \in Agent : OtherLock(a) \/ Unlock(a) \/ DownstreamStart(a)
  \/ Start \/ Read \/ ReadLost \/ Handle \/ Crash

Spec == Init /\ [][Next]_vars

\* The loop runs, every run it waits for ends (timeouts), and the service
\* manager restarts the daemon; reads go through again and again.
Fairness == WF_vars(Handle) /\ SF_vars(Read) /\ SF_vars(Start)

FairSpec == Spec /\ Fairness

-----------------------------------------------------------------------------
(* Properties *)

\* Retries are bounded: an event's triggers and workflows are gone through
\* at most MaxRetries + 1 times, however handling, crashes and lost Redis
\* replies interleave, and no attempt is queued twice.
AttemptsBounded ==
  /\ \A e \in Event : attempts[e] <= MaxRetries + 1
  /\ \A i, j \in DOMAIN log : log[i] = log[j] => i = j

\* An event is dead-lettered once, and only after each of its attempts had a
\* failing trigger.
DeadLetterMeansExhausted ==
  \A e \in Event :
    dlq[e] > 0 =>
      /\ dlq[e] = 1
      /\ \A n \in 0 .. MaxRetries :
           \E i \in bad : log[i] = [event |-> e, attempt |-> n]

\* The retries of an event end, and not before they are used up.
RetriesEnd == AttemptsBounded /\ DeadLetterMeansExhausted

\* An acknowledged entry with a failing trigger lives on, as the next attempt
\* or as a dead letter: the acknowledgement never precedes the copy.
FailureLivesOn ==
  \A i \in acked \cap bad :
    \/ redisError
    \/ dlq[log[i].event] > 0
    \/ \E j \in DOMAIN log : /\ log[j].event = log[i].event
                             /\ log[j].attempt > log[i].attempt

\* The group skips nothing: every entry behind the cursor was delivered, also
\* those published while the daemon was down.
NothingSkipped ==
  \A i \in DOMAIN log : start < i /\ i <= cursor => i \in pending \cup acked

\* Only a crash, a lost reply or a failed acknowledgement leaves an entry
\* pending behind the loop: no way through the triggers does.
NothingStranded == pending = InHand \cup stranded

\* No entry is passed over, before its delivery, in the loop, or when it fails.
NoEntryLost == NothingSkipped /\ NothingStranded /\ FailureLivesOn

\* The engine is done with an event when the loop is past all its entries.
DoneWith(e) ==
  \A i \in DOMAIN log :
    log[i].event = e => start < i /\ i <= cursor /\ i \notin InHand
MatchesEvent(t, e) == typeOf[e] \in {NoType, t.type}

\* An event the engine is done with misses a completed run of an agent it is
\* meant for only because that agent was busy, a crash left it pending, a
\* Redis call failed, or it is in the dead letter queue.
EventAccounted ==
  \A e \in Event :
    Published(e) /\ DoneWith(e) =>
      \/ redisError
      \/ dlq[e] > 0
      \/ \E i \in pending : log[i].event = e
      \/ \A k \in DOMAIN Triggers :
           MatchesEvent(Triggers[k], e)
             => <<e, Triggers[k].agent>> \in served \cup turnedAway

\* The engine is eventually done with every event: retries do not circulate
\* and crashes do not stop the consumption.
EveryEventSettles ==
  \A e \in Event :
    Published(e) ~>
      \A i \in DOMAIN log : log[i].event = e => i <= cursor /\ i \notin InHand
=============================================================================
