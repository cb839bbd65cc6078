---------------------------- MODULE StallWatchdog ----------------------------
(***************************************************************************)
(* The stall watchdog of engine/runner.py.                                 *)
(*                                                                         *)
(* execute() gives every run a watchdog: a background task that looks, now *)
(* and then, at how long the run has been idle, and cancels the asyncio    *)
(* task the run executes in.  Because HTTP libraries may swallow a         *)
(* cancellation it also raises a flag, which the run loop looks at before  *)
(* each iteration.  Responses reset the idle time.  All runs share one     *)
(* AgentRunner, whose attribute _active_watchdog names the watchdog that   *)
(* is touched and whose flag is looked at: the one of the run that started *)
(* last.  A sub-agent executes in the asyncio task of its parent and turns *)
(* a cancellation into its own timed-out result.                           *)
(*                                                                         *)
(* A run id is used once, and sub-agents do not spawn: bounds of the model.*)
(***************************************************************************)
EXTENDS Runs, Naturals

CONSTANTS
  None,
  Limit,    \* stall_timeout_seconds in ticks
  Hard,     \* timeout_seconds in ticks, 0 for none
  Cap       \* safety_cap: iterations of a run loop

ASSUME NoneAssumption == None \notin Run
ASSUME LimitAssumption == Limit \in Nat \ {0} /\ Hard \in Nat /\ Cap \in Nat

VARIABLES
  state,     \* state[r]: where the execution of r is
  host,      \* host[r]: the run in whose task r executes (itself, at the top)
  active,    \* runner._active_watchdog
  watching,  \* runs whose watchdog task is alive
  flagged,   \* runs whose watchdog has set its abort event
  expired,   \* runs whose asyncio.timeout(hard_timeout) has fired
  idle,      \* idle[r]: time since the last touch of r's watchdog
  age,       \* age[r]: time since r started
  turn,      \* turn[r]: iterations of r's loop
  quiet,     \* history: quiet[r], time since r last got a response
  aborted    \* history: runs that left their loop because of a flag

watchVars == <<state, host, active, watching, flagged, expired, idle, age, turn,
          quiet, aborted>>

\* "top": before an iteration; "busy": it waits for a model or a tool.
State == {"unused", "top", "busy", "completed", "timeout"}
Alive(r) == state[r] \in {"top", "busy"}
ChildrenOf(p) == {c \in Run : Alive(c) /\ host[c] = p /\ c # p}
\* The run that the asyncio task of r is executing.
Inner(r) == IF ChildrenOf(r) = {} THEN r ELSE CHOOSE c \in ChildrenOf(r) : TRUE

WatchTypeOK ==
  /\ state \in [Run -> State]
  /\ host \in [Run -> Run]
  /\ active \in Run \cup {None}
  /\ watching \in SUBSET Run
  /\ flagged \in SUBSET Run
  /\ expired \in SUBSET Run
  /\ idle \in [Run -> 0 .. Limit + 1]
  /\ age \in [Run -> 0 .. Hard + 1]
  /\ turn \in [Run -> 0 .. Cap]
  /\ quiet \in [Run -> 0 .. Limit + 1]
  /\ aborted \in SUBSET Run

WatchInit ==
  /\ state = [r \in Run |-> "unused"]
  /\ host = [r \in Run |-> r]
  /\ active = None
  /\ watching = {} /\ flagged = {} /\ expired = {}
  /\ idle = [r \in Run |-> 0] /\ age = [r \in Run |-> 0]
  /\ turn = [r \in Run |-> 0]
  /\ quiet = [r \in Run |-> 0]
  /\ aborted = {}

-----------------------------------------------------------------------------
\* execute(): a new watchdog, which becomes the active one.
Begin(r, p) ==
  /\ state[r] = "unused"
  /\ state' = [state EXCEPT ![r] = "top"]
  /\ host' = [host EXCEPT ![r] = p]
  /\ active' = r
  /\ watching' = watching \cup {r}
  /\ UNCHANGED <<flagged, expired, idle, age, turn, quiet, aborted>>

StartTop(r) == Begin(r, r)

\* The tool call spawn_agent of p.
SpawnChild(p, c) ==
  /\ state[p] = "busy" /\ host[p] = p /\ ChildrenOf(p) = {}
  /\ Begin(c, p)

\* Mutant: the activity of the runs is not recorded.
TouchedNothing(a) == idle
Touched(a) == [idle EXCEPT ![a] = 0]

\* Mutant: the watchdog task outlives its run.
StoppedNothing(r) == watching
Stopped(r) == watching \ {r}

\* Mutant: the flag is not looked at.
AbortFlaggedNever == FALSE
AbortFlagged == active # None /\ active \in flagged

CapReached(r) == turn[r] >= Cap

\* The top of the loop: an abort (execute() goes on to complete() it), the
\* safety cap, or another iteration.
Iterate(r) ==
  /\ state[r] = "top"
  /\ \/ /\ AbortFlagged \/ CapReached(r)
        /\ state' = [state EXCEPT ![r] = "completed"]
        /\ watching' = Stopped(r)
        /\ aborted' = IF AbortFlagged THEN aborted \cup {r} ELSE aborted
        /\ UNCHANGED turn
     \/ /\ ~AbortFlagged /\ ~CapReached(r)
        /\ state' = [state EXCEPT ![r] = "busy"]
        /\ turn' = [turn EXCEPT ![r] = @ + 1]
        /\ UNCHANGED <<watching, aborted>>
  /\ UNCHANGED <<host, active, flagged, expired, idle, age, quiet>>

\* A model, a tool or a sub-agent answers; the answer may be the last one.
Respond(r) ==
  /\ state[r] = "busy" /\ ChildrenOf(r) = {}
  /\ idle' = Touched(active)
  /\ quiet' = [quiet EXCEPT ![r] = 0]
  /\ \/ /\ state' = [state EXCEPT ![r] = "top"]
        /\ UNCHANGED watching
     \/ /\ state' = [state EXCEPT ![r] = "completed"]
        /\ watching' = Stopped(r)
  /\ UNCHANGED <<host, active, flagged, expired, age, turn, aborted>>

\* task.cancel() on the task of r: what that task executes ends as timed out,
\* or the library it waits in swallows the cancellation and fails the call
\* (the next model is tried, which touches the watchdog).
CancelTask(r, watchers) ==
  LET i == Inner(r)
  IN \/ /\ state' = [state EXCEPT ![i] = "timeout"]
        /\ watching' = watchers \ {i}
        /\ UNCHANGED idle
     \/ /\ state[i] = "busy"
        /\ state' = [state EXCEPT ![i] = "top"]
        /\ watching' = watchers
        /\ idle' = Touched(active)

Stalled(r) == idle[r] > Limit

\* One look of r's watchdog that finds a limit exceeded.
Fire(r) ==
  /\ r \in watching
  /\ Stalled(r) \/ (Hard > 0 /\ age[r] > Hard)
  /\ flagged' = flagged \cup {r}
  /\ CancelTask(r, watching \ {r})
  /\ UNCHANGED <<host, active, expired, age, turn, quiet, aborted>>

\* asyncio.timeout(hard_timeout) around the run.
HardTimeout(r) ==
  /\ Alive(r) /\ Hard > 0 /\ age[r] >= Hard /\ r \notin expired
  /\ expired' = expired \cup {r}
  /\ CancelTask(r, watching)
  /\ UNCHANGED <<host, active, flagged, age, turn, quiet, aborted>>

Up(clock, most) ==
  [r \in Run |-> IF Alive(r) /\ clock[r] < most THEN clock[r] + 1 ELSE clock[r]]

Tick ==
  /\ idle' = Up(idle, Limit + 1)
  /\ age' = Up(age, Hard + 1)
  /\ quiet' = Up(quiet, Limit + 1)
  /\ UNCHANGED <<state, host, active, watching, flagged, expired, turn, aborted>>

WatchNext ==
  \/ \E r \in Run : \/ StartTop(r) \/ Iterate(r) \/ Respond(r)
                    \/ Fire(r) \/ HardTimeout(r)
  \/ \E p, c \in Run : SpawnChild(p, c)
  \/ Tick

WatchSpec == WatchInit /\ [][WatchNext]_watchVars

\* Time passes, watchdogs look and loops go on; no answer need ever come.
WatchFairness ==
  /\ WF_watchVars(Tick)
  /\ \A r \in Run : /\ WF_watchVars(Fire(r)) /\ WF_watchVars(HardTimeout(r))
                    /\ WF_watchVars(Iterate(r))

WatchFairSpec == WatchSpec /\ WatchFairness

-----------------------------------------------------------------------------
(* Properties *)

\* The asyncio task of a run may belong to the scheduler, a chat session or a
\* parent and lives on: no watchdog may be left that would cancel it later,
\* however the run ended.
NoStrayWatchdog == \A r \in watching : Alive(r)

KilledStep(r) == Alive(r) /\ (state'[r] = "timeout" \/ r \in aborted' \ aborted)
Overdue(r) == quiet[r] > Limit \/ (Hard > 0 /\ age[r] >= Hard)

\* "Kills a run if no activity occurs for stall_timeout seconds": of the top-
\* level runs only the one that started last can rely on it, whatever the
\* others do. It is killed only when it had no response for that long, or has
\* reached its hard timeout; that is all the shared attribute can give.
LatestKilledOnlyIfIdle ==
  [][\A r \in Run : KilledStep(r) /\ active = r /\ host[r] = r
                       => Overdue(r)]_watchVars

\* Every run ends, although answers may never come and libraries swallow
\* cancellations, or a cancellation got lost after a later run had taken over
\* the attribute: a run that is the latest always ends.
RunsEnd == \A r \in Run : Alive(r) ~> ~Alive(r) \/ (r \in flagged /\ active # r)
=============================================================================
