---------------------------- MODULE RedisStream -----------------------------
(***************************************************************************)
(* One Redis stream read by one consumer group with one consumer, as far   *)
(* as engine/hooks.py and events/bus.py use it: XADD appends, XREADGROUP   *)
(* with id ">" hands over the entries after the group's cursor and makes   *)
(* them pending, XACK takes an entry out of the pending list.  Nothing in  *)
(* the repository re-reads or claims pending entries.  Entries are named   *)
(* by their position.  Trimming (MAXLEN ~ 10000) is left out.              *)
(***************************************************************************)
EXTENDS Naturals, Sequences, FiniteSets

VARIABLES
  log,      \* the entries, oldest first
  grouped,  \* the consumer group exists
  cursor,   \* last-delivered-id of the group
  pending,  \* delivered and not acknowledged
  acked     \* history: acknowledged entries

streamVars == <<log, grouped, cursor, pending, acked>>

StreamTypeOK(Entry) ==
  /\ log \in Seq(Entry)
  /\ grouped \in BOOLEAN
  /\ cursor \in 0 .. Len(log)
  /\ pending \in SUBSET (1 .. Len(log))
  /\ acked \in SUBSET (1 .. Len(log))

StreamInit ==
  /\ log = <<>>
  /\ grouped = FALSE
  /\ cursor = 0
  /\ pending = {}
  /\ acked = {}

\* XADD.
XAdd(entry) == log' = Append(log, entry)

\* XREADGROUP ... ">" COUNT n: what is delivered, and its effect.
Delivered(n) ==
  (cursor + 1) .. (IF Len(log) < cursor + n THEN Len(log) ELSE cursor + n)
XReadGroup(n) ==
  /\ cursor < Len(log)
  /\ cursor' = cursor + Cardinality(Delivered(n))
  /\ pending' = pending \cup Delivered(n)
  /\ UNCHANGED <<log, grouped, acked>>

\* XACK.
XAck(i) ==
  /\ pending' = pending \ {i}
  /\ acked' = acked \cup {i}
=============================================================================
