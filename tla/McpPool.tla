------------------------------ MODULE McpPool ------------------------------
(***************************************************************************)
(* Tool calls to one external MCP server over its standard input and       *)
(* output (engine/mcp_client.py): the pool that starts the process and     *)
(* keeps its session, the lock of the session, the initialize handshake,   *)
(* and requests whose answers are told apart by nothing but their order.   *)
(*                                                                         *)
(* Calls of several runs interleave at every await.  The tool timeout of a *)
(* run may cancel a call anywhere; the server may be late, may stop        *)
(* reading, may leave a request unanswered, may send messages of its own,  *)
(* and may die.                                                            *)
(***************************************************************************)
EXTENDS Naturals, Sequences, FiniteSets, SequencesExt

CONSTANTS
  Calls,
  MaxSessions,   \* processes that are started (a bound)
  MaxNotes       \* messages the server sends unasked or leaves out (a bound)

ASSUME McpAssumption == MaxSessions \in Nat /\ MaxNotes \in Nat

VARIABLES
  pool,      \* _sessions[name]: the number of a session, 0 for none
  sessions,  \* every session: its process, _initialized, lock, pipes
  call,      \* a call: at, on (its session), got (what it returned)
  notes,     \* messages the server has sent unasked or left out
  raced      \* history: sessions another call replaced, having begun to start one before

vars == <<pool, sessions, call, notes, raced>>

\* A request and its answer are named by the call and the method.
Stray == <<"server", "stray">>   \* unasked, or given up
Method(at) ==
  IF at \in {"initialize", "drain initialize", "initializing"} THEN "initialize" ELSE "tools/call"
Request(c) == <<c, Method(call[c].at)>>
Error == <<"error", "error">>
Nothing == <<"none", "none">>

\* line: the holder of _lock, then those who wait for it.
\* behind: history: answers nobody waits for any more, and unasked messages.
\* skipped: history: requests the server has read and will never answer.
New(line) == [alive |-> TRUE, initialized |-> FALSE, line |-> line, stdin |-> <<>>,
              stdout |-> <<>>, torn |-> FALSE, behind |-> 0, skipped |-> 0]

S(c) == sessions[call[c].on]
Holds(c) == call[c].on # 0 /\ S(c).line # <<>> /\ Head(S(c).line) = c
Waiting(c) == call[c].at \in {"initialize", "tools/call"}
Draining(c) == call[c].at \in {"drain initialize", "drain tools/call"}
Reading(c) == call[c].at \in {"initializing", "calling"}
Asking(c) == Draining(c) \/ Reading(c)   \* its request is written
Live == {s \in DOMAIN sessions : sessions[s].alive}

Without(line, c) == RemoveAt(line, CHOOSE i \in DOMAIN line : line[i] = c)
Set(c, s) == sessions' = [sessions EXCEPT ![call[c].on] = s]
Fails(c) == call' = [call EXCEPT ![c] = [at |-> "done", on |-> 0, got |-> Error]]

\* The call joins the line for its next request on session s, whose record is r.
Join(c, s, r) ==
  call' = [call EXCEPT ![c].on = s,
             ![c].at = IF r.initialized THEN "tools/call" ELSE "initialize"]

-----------------------------------------------------------------------------
(* The pool: get_session. *)

UsePooled(c) ==
  /\ call[c].at = "idle"
  /\ pool # 0 /\ sessions[pool].alive
  /\ LET r == sessions[pool] IN
     /\ Join(c, pool, r)
     /\ sessions' = [sessions EXCEPT ![pool].line = Append(@, c)]
  /\ UNCHANGED <<pool, notes, raced>>

\* Mutant: a second process although the first one lives.
AlwaysStart(c) ==
  /\ call[c].at = "idle"
  /\ pool' = 0
  /\ call' = [call EXCEPT ![c].at = "starting"]
  /\ UNCHANGED <<sessions, notes, raced>>

\* No session, or its process is dead: forget it and start one.
BeginStart(c) ==
  /\ call[c].at = "idle"
  /\ pool # 0 => ~sessions[pool].alive
  /\ pool' = 0
  /\ call' = [call EXCEPT ![c].at = "starting"]
  /\ UNCHANGED <<sessions, notes, raced>>

\* The process runs; the session replaces whatever another call stored meanwhile.
Started(c) ==
  /\ call[c].at = "starting" /\ Len(sessions) < MaxSessions
  /\ sessions' = Append(sessions, New(<<c>>))
  /\ pool' = Len(sessions')
  /\ Join(c, Len(sessions'), New(<<c>>))
  /\ raced' = IF pool = 0 THEN raced ELSE raced \cup {pool}
  /\ UNCHANGED notes

StartFails(c) ==
  /\ call[c].at = "starting"
  /\ Fails(c)
  /\ UNCHANGED <<pool, sessions, notes, raced>>

-----------------------------------------------------------------------------
(* One request: _send_request, under the lock of the session. *)

Reads(c) == IF Method(call[c].at) = "initialize" THEN "initializing" ELSE "calling"
Drains(c) == IF call[c].at = "initialize" THEN "drain initialize" ELSE "drain tools/call"

\* write, and drain: it returns at once while the buffer is below its limit.
Send(c) ==
  /\ Waiting(c) /\ Holds(c) /\ S(c).alive
  /\ Set(c, [S(c) EXCEPT !.stdin = Append(@, Request(c))])
  /\ \E place \in {Reads(c), Drains(c)} : call' = [call EXCEPT ![c].at = place]
  /\ UNCHANGED <<pool, notes, raced>>

\* The server has read enough for drain to return: nothing bounds the wait.
Drained(c) ==
  /\ Draining(c) /\ S(c).alive
  /\ call' = [call EXCEPT ![c].at = Reads(c)]
  /\ UNCHANGED <<pool, sessions, notes, raced>>

\* What nobody waits for is all the same, whatever it answers.
Disown(pipe, c) == [i \in DOMAIN pipe |-> IF pipe[i] = Request(c) THEN Stray ELSE pipe[i]]

\* A request is given up, and the lock passed on: its answer may still come.
GiveUp(c) ==
  Set(c, [S(c) EXCEPT !.line = Tail(@), !.behind = @ + 1,
                      !.stdin = Disown(@, c), !.stdout = Disown(@, c)])

\* write or drain raises: the process is dead.
SendFails(c) ==
  /\ \/ Waiting(c) /\ Holds(c) /\ ~S(c).alive /\ Set(c, [S(c) EXCEPT !.line = Tail(@)])
     \/ Draining(c) /\ ~S(c).alive /\ GiveUp(c)
  /\ Fails(c)
  /\ UNCHANGED <<pool, notes, raced>>

\* _read_response takes the next message there is: its id is not looked at.
\* An initialize goes on with the notification, outside the lock.
Receive(c) ==
  /\ Reading(c) /\ S(c).stdout # <<>> /\ ~S(c).torn
  /\ Set(c, [S(c) EXCEPT !.stdout = Tail(@), !.line = Tail(@)])
  /\ call' = IF call[c].at = "initializing"
             THEN [call EXCEPT ![c].at = "notify"]
             ELSE [call EXCEPT ![c].at = "done", ![c].got = Head(S(c).stdout)]
  /\ UNCHANGED <<pool, notes, raced>>

\* An error answer, the end of the stream, or a header in the middle of a body.
ReceiveError(c) ==
  /\ Reading(c)
  /\ \/ S(c).stdout # <<>> /\ Set(c, [S(c) EXCEPT !.stdout = Tail(@), !.line = Tail(@)])
     \/ S(c).stdout = <<>> /\ ~S(c).alive /\ Set(c, [S(c) EXCEPT !.line = Tail(@)])
  /\ Fails(c)
  /\ UNCHANGED <<pool, notes, raced>>

\* The notification of initialize waits in drain, outside the lock.
NotifyDrains(c) ==
  /\ call[c].at = "notify" /\ S(c).alive /\ S(c).stdin # <<>>
  /\ call' = [call EXCEPT ![c].at = "drain notify"]
  /\ UNCHANGED <<pool, sessions, notes, raced>>

Notifying(c) == call[c].at \in {"notify", "drain notify"}

\* Mutant: the notification has an id, and the server answers it.
InitializedWithId(c) ==
  /\ Notifying(c) /\ S(c).alive
  /\ Set(c, [S(c) EXCEPT !.initialized = TRUE, !.line = Append(@, c),
                         !.stdin = Append(@, Stray)])
  /\ call' = [call EXCEPT ![c].at = "tools/call"]
  /\ UNCHANGED <<pool, notes, raced>>

\* The notification is sent: the call goes on to its own request.
Initialized(c) ==
  /\ Notifying(c) /\ S(c).alive
  /\ Set(c, [S(c) EXCEPT !.initialized = TRUE, !.line = Append(@, c)])
  /\ call' = [call EXCEPT ![c].at = "tools/call"]
  /\ UNCHANGED <<pool, notes, raced>>

NotifyFails(c) ==
  /\ Notifying(c) /\ ~S(c).alive
  /\ Fails(c)
  /\ UNCHANGED <<pool, sessions, notes, raced>>

\* What is left on a session by a reader that gives up: an answer to come, or
\* the rest of one whose header was read.
Abandon(c) ==
  \/ GiveUp(c)
  \/ /\ S(c).stdin # <<>> /\ S(c).stdout = <<>>
     /\ Set(c, [S(c) EXCEPT !.line = Tail(@), !.stdin = Tail(@), !.torn = TRUE])

\* Mutant: the timeout kills the task that holds the lock.
TimeoutKeepsLock(c) ==
  /\ Reading(c) /\ S(c).stdout = <<>>
  /\ Set(c, [S(c) EXCEPT !.behind = @ + 1])
  /\ Fails(c)
  /\ UNCHANGED <<pool, notes, raced>>

\* timeout_seconds of the server, around the reading only.
Timeout(c) ==
  /\ Reading(c) /\ S(c).stdout = <<>>
  /\ Abandon(c)
  /\ Fails(c)
  /\ UNCHANGED <<pool, notes, raced>>

\* The tool timeout or the end of the run cancels the call where it waits.
Cancel(c) ==
  /\ call[c].at \notin {"idle", "done"}
  /\ IF Reading(c) THEN Abandon(c)
     ELSE IF Draining(c) THEN GiveUp(c)
     ELSE IF Waiting(c) THEN Set(c, [S(c) EXCEPT !.line = Without(@, c)])
     ELSE UNCHANGED sessions
  /\ Fails(c)
  /\ UNCHANGED <<pool, notes, raced>>

-----------------------------------------------------------------------------
(* The server. *)

Answer(s) ==
  /\ sessions[s].alive /\ sessions[s].stdin # <<>>
  /\ sessions' = [sessions EXCEPT ![s].stdin = Tail(@),
                                  ![s].stdout = Append(@, Head(sessions[s].stdin))]
  /\ UNCHANGED <<pool, call, notes, raced>>

\* A request is read and forgotten.
Skip(s) ==
  /\ sessions[s].alive /\ sessions[s].stdin # <<>> /\ notes < MaxNotes
  /\ sessions' = [sessions EXCEPT ![s].stdin = Tail(@), ![s].skipped = @ + 1]
  /\ notes' = notes + 1
  /\ UNCHANGED <<pool, call, raced>>

Unasked(s) ==
  /\ sessions[s].alive /\ notes < MaxNotes
  /\ sessions' = [sessions EXCEPT ![s].stdout = Append(@, Stray), ![s].behind = @ + 1]
  /\ notes' = notes + 1
  /\ UNCHANGED <<pool, call, raced>>

Dies(s) ==
  /\ sessions[s].alive
  /\ sessions' = [sessions EXCEPT ![s].alive = FALSE, ![s].stdin = <<>>]
  /\ UNCHANGED <<pool, call, notes, raced>>

Init ==
  /\ pool = 0 /\ sessions = <<>> /\ notes = 0 /\ raced = {}
  /\ call = [c \in Calls |-> [at |-> "idle", on |-> 0, got |-> Nothing]]

ClientStep(c) ==
  \/ Started(c) \/ StartFails(c) \/ Send(c) \/ Drained(c) \/ SendFails(c) \/ Receive(c)
  \/ ReceiveError(c) \/ NotifyDrains(c) \/ Initialized(c) \/ NotifyFails(c) \/ Timeout(c)

ServerStep(s) == Answer(s) \/ Skip(s) \/ Unasked(s) \/ Dies(s)

Next ==
  \/ \E c \in Calls : UsePooled(c) \/ BeginStart(c) \/ ClientStep(c) \/ Cancel(c)
  \/ \E s \in DOMAIN sessions : ServerStep(s)

Spec == Init /\ [][Next]_vars

\* The call is in a drain that a server must read to end.
Held(c) ==
  /\ Draining(c) \/ call[c].at = "drain notify"
  /\ S(c).alive /\ S(c).stdin # <<>>

\* The event loop runs what can run, timers fire, and a drain ends when all is
\* read; nobody has to cancel, and the server owes nothing, not even to read.
FairSpec == Spec /\ \A c \in Calls : WF_vars(~Held(c) /\ ClientStep(c))

-----------------------------------------------------------------------------
(* Properties *)

Places == {"idle", "starting", "initialize", "drain initialize", "initializing",
           "notify", "drain notify", "tools/call", "drain tools/call", "calling", "done"}
Message == (Calls \cup {"server", "error", "none"})
             \X {"initialize", "tools/call", "stray", "error", "none"}
Session ==
  [alive : BOOLEAN, initialized : BOOLEAN, line : Seq(Calls), stdin : Seq(Message),
   stdout : Seq(Message), torn : BOOLEAN, behind : Nat, skipped : Nat]
TypeOK ==
  /\ pool \in 0 .. Len(sessions)
  /\ sessions \in Seq(Session)
  /\ call \in [Calls -> [at : Places, on : 0 .. Len(sessions), got : Message]]
  /\ notes \in 0 .. MaxNotes
  /\ raced \subseteq DOMAIN sessions

\* A call returns the answer to its own request, unless its session fell behind
\* before: a request was given up or the server spoke unasked (no id is compared).
OwnAnswer ==
  \A c \in Calls :
    call[c].got \notin {Nothing, Error, <<c, "tools/call">>} => S(c).behind > 0

\* A session that fell behind never catches up by itself: the messages on the
\* way and those the server skipped are as many as were given up or sent unasked,
\* plus the one the lock's holder has asked for.
StaysBehind ==
  \A s \in Live :
    LET r == sessions[s] IN
    ~r.torn =>
      Len(r.stdin) + Len(r.stdout) + r.skipped
        = r.behind + Cardinality({c \in Calls : call[c].on = s /\ Asking(c)})

AnswersInStep == OwnAnswer /\ StaysBehind

\* A process runs outside the pool, where shutdown does not find it, only if
\* two calls started one at the same time.
ProcessesPooled == Live \subseteq {pool} \cup raced

\* A call is blocked while it, or the call that holds its session's lock, is in
\* a drain: timeout_seconds does not cover that await.
Blocked(c) ==
  \E d \in Calls : call[d].on = call[c].on /\ Held(d) /\ (d = c \/ Holds(d))

\* Every call comes back, unless a server stops reading and leaves it blocked:
\* a reader that gives up passes the lock on.  (A call is made once, so at last
\* no more begin.)
CallsEnd == <>[](\A c \in Calls : call[c].at \in {"idle", "done"} \/ Blocked(c))
=============================================================================
