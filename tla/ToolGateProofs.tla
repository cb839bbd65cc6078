--------------------------- MODULE ToolGateProofs ---------------------------
(***************************************************************************)
(* Proofs about ToolGate for any runs, tools, hooks and policies.          *)
(*                                                                         *)
(* Consent is not inductive: that an approved request was approved by the  *)
(* first press in time helps only if nobody pressed, answered or gave up   *)
(* on the request before it was asked (Fresh), and if what is open was     *)
(* never pressed and what has expired is not pending (Answered).           *)
(* ObjectionsHeard needs the objections of a call from the moment it is    *)
(* checked, and what the hooks said from the first hook on.                *)
(***************************************************************************)
EXTENDS ToolGate, TLAPS

\* A run that has begun a call has a current request.
CallsOk ==
  \A r \in Runs : /\ calls[r] \in 0 .. MaxCalls[r]
                  /\ pc[r] # "idle" => calls[r] >= 1

Untouched(q) ==
  /\ q \notin pending /\ q \notin prompts /\ q \notin expired
  /\ pressed[q] = "none" /\ approved[q] = "open"

\* Nothing happened to a request that was not asked yet.
NotAsked(r, n) == n > calls[r] \/ (n = calls[r] /\ pc[r] \in {"hooks", "check"})
Fresh == \A q \in Requests : NotAsked(q[1], q[2]) => Untouched(q)

\* What a request's result and a grant say of the buttons.
Answered ==
  /\ \A q \in Requests : approved[q] = "yes" => pressed[q] \in {"approve", "all"}
  /\ \A q \in pending : q \notin expired /\ (approved[q] = "open" => pressed[q] = "none")
  /\ \A g \in grants : ForAll(g)

\* What the policies say of a call that has passed them.
PoliciesNoted ==
  \A r \in Runs : pc[r] \in {"prompting", "waiting", "running"} =>
    \A p \in objections[r] \ {Human} :
      /\ Human \in objections[r]
      /\ \E i, j \in DOMAIN Policies : i < j /\ Policies[i] = Human /\ Policies[j] = p

\* What the chain hooks said so far is in the verdict.
HooksNoted ==
  \A r \in Runs : pc[r] = "hooks" =>
    /\ "block" \in said[r] => verdict[r] = "block"
    /\ "modify" \in said[r] => verdict[r] # "allow"

\* A run that has no dispatch under way has heard no hook.
Quiet == \A r \in Runs : pc[r] = "idle" => said[r] = {} /\ verdict[r] = "allow"

GateInv ==
  /\ TypeOK /\ CallsOk /\ Fresh /\ Answered /\ PendingExplained /\ RunsOnConsent
  /\ PoliciesNoted /\ Quiet /\ HooksNoted /\ HooksHeard

-----------------------------------------------------------------------------
LEMMA RequestsAre ==
  ASSUME NEW r \in Runs, NEW n \in 1 .. MaxCalls[r]
  PROVE  <<r, n>> \in Requests
<1>1. <<r, n>> \in {r} \X (1 .. MaxCalls[r]) OBVIOUS
<1>2. QED BY <1>1 DEF Requests

LEMMA RequestParts ==
  ASSUME NEW q \in Requests
  PROVE  q[1] \in Runs /\ q[2] \in 1 .. MaxCalls[q[1]] /\ q = <<q[1], q[2]>>
<1>1. PICK r \in Runs : q \in {r} \X (1 .. MaxCalls[r]) BY DEF Requests
<1>2. QED BY <1>1

\* A run under way has a current request.
LEMMA CurrentRequest ==
  ASSUME CallsOk, NEW r \in Runs, pc[r] # "idle"
  PROVE  request(r) \in Requests
<1>1. calls[r] \in 1 .. MaxCalls[r] BY GateAssumption DEF CallsOk
<1>2. QED BY <1>1, RequestsAre DEF request

-----------------------------------------------------------------------------
(* Types, and the number of calls. *)

LEMMA TypeInit == Init => TypeOK /\ CallsOk
<1> SUFFICES ASSUME Init PROVE TypeOK /\ CallsOk OBVIOUS
<1>1. (CHOOSE t \in Tools : TRUE) \in Tools BY GateAssumption
<1>2. hook \in [Runs -> 1 .. (Len(Hooks) + 1)]
  <2>1. Len(Hooks) \in Nat BY GateAssumption
  <2>2. QED BY <2>1 DEF Init
<1>3. \A r \in Runs : pc[r] = "idle" /\ calls[r] = 0 /\ MaxCalls[r] \in Nat
  BY GateAssumption DEF Init
<1>5. CallsOk
  <2>1. SUFFICES ASSUME NEW r \in Runs
                 PROVE  calls[r] \in 0 .. MaxCalls[r] /\ (pc[r] # "idle" => calls[r] >= 1)
    BY DEF CallsOk
  <2>2. QED BY <1>3
<1>4. QED BY <1>1, <1>2, <1>5 DEF Init, TypeOK

LEMMA LeavesTyped ==
  ASSUME TypeOK, NEW r \in Runs, NEW to \in {"idle", "gone"}, Leaves(r, to)
  PROVE  /\ pc' = [pc EXCEPT ![r] = to]
         /\ hook' \in [Runs -> 1 .. (Len(Hooks) + 1)]
         /\ verdict' \in [Runs -> {"allow", "modify", "block"}]
         /\ args' \in [Runs -> {"given", "modified"}]
         /\ objections' \in [Runs -> SUBSET PolicySet]
         /\ said' \in [Runs -> SUBSET {"modify", "block"}]
<1>1. Len(Hooks) \in Nat BY GateAssumption
<1>2. QED BY <1>1 DEF TypeOK, Leaves, ForgetHooks

RunStep(r) == Act(r) \/ Delivered(r) \/ Cancel(r)

\* What a step of one run leaves alone.
LEMMA StepFrame ==
  ASSUME TypeOK, NEW r \in Runs, RunStep(r)
  PROVE  /\ pc[r] # "idle"
         /\ UNCHANGED <<calls, tool, manager, approved, grants, pressed>>
         /\ \A s \in Runs \ {r} :
              /\ pc'[s] = pc[s] /\ hook'[s] = hook[s] /\ verdict'[s] = verdict[s]
              /\ args'[s] = args[s] /\ objections'[s] = objections[s] /\ said'[s] = said[s]
<1> USE DEF TypeOK, dispatching, local, shared, Leaves, ForgetHooks
<1>1. CASE ChainHook(r) BY <1>1 DEF ChainHook, AnyHook
<1>2. CASE ShortAllows(r) BY <1>2 DEF ShortAllows, AnyHook
<1>3. CASE ShortBlocks(r) BY <1>3 DEF ShortBlocks, AnyHook
<1>4. CASE ShortModifies(r) BY <1>4 DEF ShortModifies, AnyHook
<1>5. CASE Dispatched(r) BY <1>5 DEF Dispatched
<1>6. CASE Check(r) BY <1>6 DEF Check
<1>7. CASE Sent(r) BY <1>7 DEF Sent
<1>8. CASE SendFails(r) BY <1>8 DEF SendFails
<1>9. CASE Woken(r) BY <1>9 DEF Woken
<1>10. CASE Timeout(r) BY <1>10 DEF Timeout, GivesUp, Silence
<1>11. CASE Returns(r) BY <1>11 DEF Returns
<1>12. CASE Delivered(r) BY <1>12 DEF Delivered
<1>13. CASE Cancel(r) BY <1>13 DEF Cancel
<1>14. QED
  BY <1>1, <1>2, <1>3, <1>4, <1>5, <1>6, <1>7, <1>8, <1>9, <1>10, <1>11, <1>12, <1>13
  DEF RunStep, Act

\* Where a run goes, and what that does to its request: it is asked once, when
\* the policies are through with the call, and pending while its run waits.
RequestMoves(r) ==
  \/ /\ pc[r] \in {"hooks", "check"} /\ pc'[r] \in {"hooks", "check", "idle", "gone", "running"}
     /\ UNCHANGED <<pending, prompts, expired>>
  \/ /\ pc[r] = "check" /\ pc'[r] = "prompting" /\ manager
     /\ pending' = pending \cup {request(r)} /\ UNCHANGED <<prompts, expired>>
  \/ /\ pc[r] \in {"prompting", "waiting"} /\ pc'[r] \in {"prompting", "waiting", "gone"}
     /\ prompts' \in {prompts, prompts \cup {request(r)}} /\ UNCHANGED <<pending, expired>>
  \/ /\ pc[r] \in {"prompting", "waiting"} /\ pc'[r] = "idle"
     /\ pending' = pending \ {request(r)} /\ prompts' = prompts
     /\ expired' \in {expired, expired \cup {request(r)}}
  \/ /\ pc[r] = "waiting" /\ pc'[r] = "running" /\ approved[request(r)] = "yes"
     /\ pending' = pending \ {request(r)} /\ UNCHANGED <<prompts, expired>>
  \/ /\ pc[r] = "running" /\ pc'[r] \in {"idle", "gone"}
     /\ UNCHANGED <<pending, prompts, expired>>

LEMMA StepRequest ==
  ASSUME TypeOK, NEW r \in Runs, RunStep(r)
  PROVE  RequestMoves(r)
<1> USE DEF RequestMoves, TypeOK, dispatching, local, shared, Leaves, Cleanup
<1>1. CASE ChainHook(r) BY <1>1 DEF ChainHook, AnyHook
<1>2. CASE ShortAllows(r) BY <1>2 DEF ShortAllows, AnyHook
<1>3. CASE ShortBlocks(r) BY <1>3 DEF ShortBlocks, AnyHook
<1>4. CASE ShortModifies(r) BY <1>4 DEF ShortModifies, AnyHook
<1>5. CASE Dispatched(r) BY <1>5 DEF Dispatched
<1>6. CASE Check(r) BY <1>6 DEF Check, Asked
<1>7. CASE Sent(r) BY <1>7 DEF Sent
<1>8. CASE SendFails(r) BY <1>8 DEF SendFails
<1>9. CASE Woken(r)
  <2>1. CASE approved[request(r)] = "yes" BY <1>9, <2>1 DEF Woken
  <2>2. CASE approved[request(r)] # "yes" BY <1>9, <2>2 DEF Woken
  <2>3. QED BY <2>1, <2>2
<1>10. CASE Timeout(r) BY <1>10 DEF Timeout, GivesUp, Silence
<1>11. CASE Returns(r) BY <1>11 DEF Returns
<1>12. CASE Delivered(r) BY <1>12 DEF Delivered
<1>13. CASE Cancel(r) BY <1>13 DEF Cancel
<1>14. QED
  BY <1>1, <1>2, <1>3, <1>4, <1>5, <1>6, <1>7, <1>8, <1>9, <1>10, <1>11, <1>12, <1>13
  DEF RunStep, Act

\* The variables of dispatch keep their types.
LEMMA StepDispatch ==
  ASSUME TypeOK, NEW r \in Runs, RunStep(r)
  PROVE  /\ pc' \in [Runs -> {"idle", "hooks", "check", "prompting", "waiting", "running",
                              "gone"}]
         /\ hook' \in [Runs -> 1 .. (Len(Hooks) + 1)]
         /\ verdict' \in [Runs -> {"allow", "modify", "block"}]
         /\ args' \in [Runs -> {"given", "modified"}]
         /\ objections' \in [Runs -> SUBSET PolicySet]
         /\ said' \in [Runs -> SUBSET {"modify", "block"}]
<1> USE DEF TypeOK, dispatching, local, shared
<1>15. ASSUME NEW to \in {"idle", "gone"}, Leaves(r, to)
       PROVE  /\ pc' \in [Runs -> {"idle", "hooks", "check", "prompting", "waiting", "running",
                                   "gone"}]
              /\ hook' \in [Runs -> 1 .. (Len(Hooks) + 1)]
              /\ verdict' \in [Runs -> {"allow", "modify", "block"}]
              /\ args' \in [Runs -> {"given", "modified"}]
              /\ objections' \in [Runs -> SUBSET PolicySet]
              /\ said' \in [Runs -> SUBSET {"modify", "block"}]
  <2> HIDE DEF TypeOK
  <2>1. /\ pc' = [pc EXCEPT ![r] = to]
        /\ hook' \in [Runs -> 1 .. (Len(Hooks) + 1)]
        /\ verdict' \in [Runs -> {"allow", "modify", "block"}]
        /\ args' \in [Runs -> {"given", "modified"}]
        /\ objections' \in [Runs -> SUBSET PolicySet]
        /\ said' \in [Runs -> SUBSET {"modify", "block"}]
    BY <1>15, LeavesTyped
  <2>2. QED BY <2>1, <1>15 DEF TypeOK
<1>0. Len(Hooks) \in Nat BY GateAssumption
<1>1. CASE ChainHook(r)
  <2>1. hook' \in [Runs -> 1 .. (Len(Hooks) + 1)] BY <1>0, <1>1 DEF ChainHook, AnyHook
  <2>2. QED BY <1>1, <2>1 DEF ChainHook, Combined
<1>2. CASE ShortAllows(r) BY <1>0, <1>2 DEF ShortAllows, AnyHook
<1>3. CASE ShortBlocks(r)
  <2>1. Leaves(r, "idle") BY <1>3 DEF ShortBlocks
  <2>2. QED BY <1>15, <2>1
<1>4. CASE ShortModifies(r) BY <1>4 DEF ShortModifies
<1>5. CASE Dispatched(r)
  <2>1. CASE verdict[r] = "block"
    <3>1. Leaves(r, "idle") BY <1>5, <2>1 DEF Dispatched
    <3>2. QED BY <1>15, <3>1
  <2>2. CASE verdict[r] # "block"
    <3>1. /\ UNCHANGED <<hook, verdict, objections, said>> /\ pc' = [pc EXCEPT ![r] = "check"]
          /\ args' = [args EXCEPT ![r] = IF verdict[r] = "modify" THEN "modified" ELSE @]
      BY <1>5, <2>2 DEF Dispatched
    <3>2. QED BY <3>1
  <2>3. QED BY <2>1, <2>2
<1>6. CASE Check(r)
  <2>1. Objecting(r) \subseteq SUBSET PolicySet BY DEF Objecting
  <2>2. PICK objecting \in Objecting(r) :
          \/ Leaves(r, "idle")
          \/ /\ objections' = [objections EXCEPT ![r] = objecting]
             /\ pc' = [pc EXCEPT ![r] = IF Asked(r, objecting) THEN "prompting" ELSE "running"]
             /\ ForgetHooks(r)
    BY <1>6 DEF Check
  <2>3. CASE Leaves(r, "idle") BY <1>15, <2>3
  <2>4. CASE ForgetHooks(r) /\ objections' = [objections EXCEPT ![r] = objecting]
             /\ pc' = [pc EXCEPT ![r] = IF Asked(r, objecting) THEN "prompting" ELSE "running"]
    <3>1. objecting \in SUBSET PolicySet BY <2>1, <2>2
    <3>2. QED BY <1>0, <2>4, <3>1 DEF ForgetHooks
  <2>5. QED BY <2>2, <2>3, <2>4
<1>7. CASE Sent(r) BY <1>7 DEF Sent
<1>8. CASE SendFails(r)
  <2>1. Leaves(r, "idle") BY <1>8 DEF SendFails
  <2>2. QED BY <1>15, <2>1
<1>9. CASE Woken(r)
  <2>1. CASE Leaves(r, "idle") BY <1>15, <2>1
  <2>2. CASE pc' = [pc EXCEPT ![r] = "running"] /\ UNCHANGED dispatching BY <2>2
  <2>3. QED BY <1>9, <2>1, <2>2 DEF Woken
<1>10. CASE Timeout(r)
  <2>1. Leaves(r, "idle") BY <1>10 DEF Timeout, Silence
  <2>2. QED BY <1>15, <2>1
<1>11. CASE Returns(r)
  <2>1. Leaves(r, "idle") BY <1>11 DEF Returns
  <2>2. QED BY <1>15, <2>1
<1>12. CASE Delivered(r) BY <1>12 DEF Delivered
<1>13. CASE Cancel(r)
  <2>1. Leaves(r, "gone") BY <1>13 DEF Cancel
  <2>2. QED BY <1>15, <2>1
<1>14. QED
  BY <1>1, <1>2, <1>3, <1>4, <1>5, <1>6, <1>7, <1>8, <1>9, <1>10, <1>11, <1>12, <1>13
  DEF RunStep, Act

\* The next call of a run has a request of its own.
LEMMA CallRequest ==
  ASSUME TypeOK, CallsOk, NEW r \in Runs, Call(r)
  PROVE  /\ request(r)' = <<r, calls[r] + 1>> /\ request(r)' \in Requests
         /\ CallsOk'
<1>1. calls[r] + 1 \in 1 .. MaxCalls[r] BY GateAssumption DEF CallsOk, Call
<1>2. calls'[r] = calls[r] + 1 /\ \A s \in Runs \ {r} : calls'[s] = calls[s]
  BY DEF Call, TypeOK
<1>3. request(r)' = <<r, calls[r] + 1>> BY <1>2 DEF request
<1>4. CallsOk'
  <2>1. pc' = [pc EXCEPT ![r] = "hooks"] BY DEF Call
  <2>2. QED BY <1>1, <1>2, <2>1 DEF CallsOk, TypeOK
<1>5. QED BY <1>1, <1>3, <1>4, RequestsAre

LEMMA TypeStep ==
  ASSUME TypeOK, CallsOk, [Next]_vars
  PROVE  TypeOK' /\ CallsOk'
<1>1. CASE UNCHANGED vars
  BY <1>1 DEF vars, local, shared, dispatching, TypeOK, CallsOk, request
<1>2. ASSUME NEW r \in Runs, Call(r) PROVE TypeOK' /\ CallsOk'
  <2>1. tool' \in [Requests -> Tools] BY <1>2, CallRequest DEF Call, TypeOK
  <2>2. pc' = [pc EXCEPT ![r] = "hooks"] /\ calls' = [calls EXCEPT ![r] = @ + 1]
        /\ UNCHANGED <<dispatching, shared, pressed, expired>>
    BY <1>2 DEF Call
  <2>3. \A s \in Runs : pc'[s] \in {"prompting", "waiting"} =>
           request(s)' \in pending' /\ manager'
    BY <2>2 DEF TypeOK, shared, request
  <2>4. QED BY <1>2, <2>1, <2>2, <2>3, CallRequest DEF TypeOK, shared, dispatching
<1>3. ASSUME NEW r \in Runs, RunStep(r) PROVE TypeOK' /\ CallsOk'
  <2>1. /\ pc[r] # "idle" /\ UNCHANGED <<calls, tool, manager, approved, grants, pressed>>
        /\ \A s \in Runs \ {r} : pc'[s] = pc[s]
    BY <1>3, StepFrame
  <2>2. request(r) \in Requests /\ \A s \in Runs : request(s)' = request(s)
    BY <2>1, CurrentRequest DEF request
  <2>3. CallsOk' BY <2>1 DEF CallsOk
  <2>4. pending' \subseteq Requests /\ prompts' \subseteq Requests /\ expired' \subseteq Requests
    <3>1. RequestMoves(r) BY <1>3, StepRequest
    <3>2. QED BY <2>2, <3>1 DEF RequestMoves, TypeOK
  <2>5. \A s \in Runs : pc'[s] \in {"prompting", "waiting"} =>
          request(s)' \in pending' /\ manager'
    <3>1. SUFFICES ASSUME NEW s \in Runs, pc'[s] \in {"prompting", "waiting"}
                   PROVE  request(s) \in pending' /\ manager
      BY <2>1, <2>2
    <3>5. RequestMoves(r) BY <1>3, StepRequest
    <3>2. CASE s = r
      <4>1. pc[r] \in {"prompting", "waiting"} => request(r) \in pending /\ manager
        BY DEF TypeOK
      <4>2. QED BY <3>1, <3>2, <3>5, <4>1 DEF RequestMoves
    <3>3. CASE s # r
      <4>1. request(s) \in pending /\ manager BY <2>1, <3>1, <3>3 DEF TypeOK
      <4>2. request(s) # request(r) BY <3>3 DEF request
      <4>3. QED BY <3>5, <4>1, <4>2 DEF RequestMoves
    <3>4. QED BY <3>2, <3>3
  <2>6. QED BY <1>3, <2>1, <2>3, <2>4, <2>5, StepDispatch DEF TypeOK
<1>4. ASSUME NEW q \in Requests, NEW button \in Buttons, Press(q, button)
      PROVE  TypeOK' /\ CallsOk'
  <2>1. approved' \in [Requests -> {"open", "yes", "no"}]
        /\ pressed' \in [Requests -> Buttons \cup {"none"}]
    BY <1>4 DEF Press, TypeOK
  <2>2. Grant(q) \subseteq Agents \X Tools
    BY RequestParts, GateAssumption DEF Grant, TypeOK
  <2>3. grants' \subseteq Agents \X Tools BY <1>4, <2>2 DEF Press, TypeOK
  <2>4. UNCHANGED <<pc, local, manager, pending, prompts, expired>> BY <1>4 DEF Press
  <2>5. QED
    BY <2>1, <2>3, <2>4 DEF TypeOK, CallsOk, local, dispatching, request
<1>5. QED BY <1>1, <1>2, <1>3, <1>4 DEF Next, RunStep

\* Every variable has its type in every reachable state.
THEOREM GateTypeCorrect == Spec => []TypeOK
<1>1. TypeOK /\ CallsOk /\ [Next]_vars => (TypeOK /\ CallsOk)'
  BY TypeStep
<1>2. QED BY TypeInit, <1>1, PTL DEF Spec

-----------------------------------------------------------------------------
(* Requests, answers and consent. *)

\* A step of a run touches no request but the current one.
LEMMA OtherRequests ==
  ASSUME TypeOK, CallsOk, NEW r \in Runs, RunStep(r), NEW q \in Requests, q # request(r)
  PROVE  /\ q \in pending' <=> q \in pending
         /\ q \in prompts' <=> q \in prompts
         /\ q \in expired' <=> q \in expired
<1>1. RequestMoves(r) BY StepRequest
<1>2. QED BY <1>1 DEF RequestMoves

LEMMA NotAskedBefore ==
  ASSUME TypeOK, CallsOk, [Next]_vars, NEW t \in Runs, NEW n \in Nat, NotAsked(t, n)'
  PROVE  NotAsked(t, n) \/ \E r \in Runs : RunStep(r) /\ t = r /\ n = calls[r]
<1>0. n > calls'[t] \/ (n = calls'[t] /\ pc'[t] \in {"hooks", "check"}) BY DEF NotAsked
<1>1. CASE UNCHANGED vars BY <1>0, <1>1 DEF vars, local, NotAsked
<1>2. ASSUME NEW r \in Runs, Call(r) PROVE NotAsked(t, n)
  <2>1. pc' = [pc EXCEPT ![r] = "hooks"] /\ calls' = [calls EXCEPT ![r] = @ + 1]
    BY <1>2 DEF Call
  <2>2. calls \in [Runs -> Nat] /\ pc = [s \in Runs |-> pc[s]] BY DEF TypeOK
  <2>3. PICK c \in Nat : c = calls[t] BY <2>2
  <2>4. CASE t = r
    <3>1. calls'[t] = c + 1 BY <2>1, <2>2, <2>3, <2>4
    <3>2. n > c + 1 \/ n = c + 1 BY <1>0, <3>1
    <3>3. n > c BY <3>2
    <3>4. QED BY <2>3, <3>3 DEF NotAsked
  <2>5. CASE t # r
    <3>1. calls'[t] = calls[t] /\ pc'[t] = pc[t] BY <2>1, <2>2, <2>5
    <3>2. QED BY <1>0, <3>1 DEF NotAsked
  <2>6. QED BY <2>4, <2>5
<1>3. ASSUME NEW r \in Runs, RunStep(r)
      PROVE  NotAsked(t, n) \/ \E s \in Runs : RunStep(s) /\ t = s /\ n = calls[s]
  <2>1. calls' = calls /\ \A s \in Runs \ {r} : pc'[s] = pc[s] BY <1>3, StepFrame
  <2>2. CASE t = r /\ n = calls[r] BY <1>3, <2>2
  <2>3. CASE t = r /\ n # calls[r]
    <3>1. calls'[t] = calls[t] /\ n # calls[t] BY <2>1, <2>3
    <3>2. n > calls[t] BY <1>0, <3>1
    <3>3. QED BY <3>2 DEF NotAsked
  <2>4. CASE t # r
    <3>1. calls'[t] = calls[t] /\ pc'[t] = pc[t] BY <2>1, <2>4
    <3>2. QED BY <1>0, <3>1 DEF NotAsked
  <2>5. QED BY <2>2, <2>3, <2>4
<1>4. ASSUME NEW p \in Requests, NEW button \in Buttons, Press(p, button)
      PROVE  NotAsked(t, n)
  BY <1>0, <1>4 DEF Press, local, NotAsked
<1>5. QED BY <1>1, <1>2, <1>3, <1>4 DEF Next, RunStep

LEMMA FreshStep ==
  ASSUME TypeOK, CallsOk, Fresh, PendingExplained, [Next]_vars
  PROVE  Fresh'
<1> SUFFICES ASSUME NEW q \in Requests, NotAsked(q[1], q[2])'
             PROVE  Untouched(q)'
  BY DEF Fresh
<1>0. q[1] \in Runs /\ q[2] \in Nat /\ q = <<q[1], q[2]>>
  BY RequestParts, GateAssumption
<1>6. \/ NotAsked(q[1], q[2])
      \/ \E r \in Runs : RunStep(r) /\ q[1] = r /\ q[2] = calls[r]
  BY <1>0, NotAskedBefore
<1>1. CASE UNCHANGED vars
  <2>1. NotAsked(q[1], q[2]) BY <1>1 DEF vars, local, NotAsked
  <2>2. QED BY <1>1, <2>1 DEF vars, local, shared, Fresh, Untouched
<1>2. ASSUME NEW r \in Runs, Call(r) PROVE Untouched(q)'
  <2>1. pc[r] = "idle" /\ UNCHANGED <<shared, pressed, expired>> /\ calls' # calls
    BY <1>2 DEF Call, TypeOK
  <2>2. \A s \in Runs : ~RunStep(s) BY <2>1, StepFrame
  <2>3. QED BY <1>6, <2>1, <2>2 DEF Fresh, Untouched, shared
<1>3. ASSUME NEW r \in Runs, RunStep(r) PROVE Untouched(q)'
  <2>1. /\ UNCHANGED <<calls, approved, pressed>>
        /\ \A s \in Runs \ {r} : pc'[s] = pc[s]
    BY <1>3, StepFrame
  <2>2. CASE q = request(r)
    <3>1. q[1] = r /\ q[2] = calls[r] BY <2>2 DEF request
    <3>2. pc'[r] \in {"hooks", "check"} BY <1>0, <2>1, <3>1 DEF TypeOK, NotAsked
    <3>3. RequestMoves(r) BY <1>3, StepRequest
    <3>4. pc[r] \in {"hooks", "check"} /\ UNCHANGED <<pending, prompts, expired>>
      BY <3>2, <3>3 DEF RequestMoves
    <3>5. QED BY <2>1, <3>1, <3>4 DEF Fresh, Untouched, NotAsked
  <2>3. CASE q # request(r)
    <3>1. NotAsked(q[1], q[2])
      <4>1. PICK t \in Runs, n \in Nat : t = q[1] /\ n = q[2] /\ q = <<t, n>> BY <1>0
      <4>2. NotAsked(t, n)' BY <4>1
      <4>3. n > calls'[t] \/ (n = calls'[t] /\ pc'[t] \in {"hooks", "check"})
        BY <4>2 DEF NotAsked
      <4>4. NotAsked(t, n)
        <5>1. ~(t = r /\ n = calls[r]) BY <2>3, <4>1 DEF request
        <5>2. calls'[t] = calls[t] BY <2>1
        <5>3. CASE t = r
          <6>1. n # calls[t] BY <5>1, <5>3
          <6>2. n > calls[t] BY <4>3, <5>2, <6>1
          <6>3. QED BY <6>2 DEF NotAsked
        <5>4. CASE t # r
          <6>1. pc'[t] = pc[t] BY <2>1, <5>4
          <6>2. QED BY <4>3, <5>2, <6>1 DEF NotAsked
        <5>5. QED BY <5>3, <5>4
      <4>5. QED BY <4>1, <4>4
    <3>2. Untouched(q) BY <3>1 DEF Fresh
    <3>3. QED BY <1>3, <2>1, <2>3, <3>2, OtherRequests DEF Untouched
  <2>4. QED BY <2>2, <2>3
<1>4. ASSUME NEW p \in Requests, NEW button \in Buttons, Press(p, button)
      PROVE  Untouched(q)'
  <2>1. UNCHANGED <<pc, calls, pending, prompts, expired>> /\ p \in prompts
    BY <1>4 DEF Press, local
  <2>5. NotAsked(q[1], q[2]) BY <2>1 DEF NotAsked
  <2>2. Untouched(q) BY <2>5 DEF Fresh
  <2>3. q # p BY <2>1, <2>2 DEF Untouched
  <2>4. approved'[q] = approved[q] /\ pressed'[q] = pressed[q]
    BY <1>4, <2>3 DEF Press, TypeOK
  <2>6. QED BY <2>1, <2>2, <2>4 DEF Untouched
<1>5. QED BY <1>1, <1>2, <1>3, <1>4 DEF Next, RunStep

LEMMA PendingStep ==
  ASSUME TypeOK, CallsOk, PendingExplained, [Next]_vars
  PROVE  PendingExplained'
<1> SUFFICES ASSUME NEW q \in pending'
             PROVE  q = request(q[1])' /\ pc'[q[1]] \in {"prompting", "waiting", "gone"}
  BY DEF PendingExplained
<1>0. q \in Requests /\ q[1] \in Runs BY TypeStep, RequestParts DEF TypeOK
<1>1. CASE UNCHANGED vars
  BY <1>1 DEF vars, local, shared, PendingExplained, request
<1>2. ASSUME NEW r \in Runs, Call(r)
      PROVE  q = request(q[1])' /\ pc'[q[1]] \in {"prompting", "waiting", "gone"}
  <2>1. pending' = pending /\ pc[r] = "idle" BY <1>2 DEF Call, shared
  <2>2. q[1] # r BY <2>1 DEF PendingExplained
  <2>3. pc'[q[1]] = pc[q[1]] /\ calls'[q[1]] = calls[q[1]]
    BY <1>0, <1>2, <2>2 DEF Call, TypeOK
  <2>4. QED BY <2>1, <2>3 DEF PendingExplained, request
<1>3. ASSUME NEW r \in Runs, RunStep(r)
      PROVE  q = request(q[1])' /\ pc'[q[1]] \in {"prompting", "waiting", "gone"}
  <2>1. UNCHANGED calls /\ \A s \in Runs \ {r} : pc'[s] = pc[s]
    BY <1>3, StepFrame
  <2>2. RequestMoves(r) BY <1>3, StepRequest
  <2>3. CASE q = request(r)
    <3>1. q[1] = r BY <2>3 DEF request
    <3>2. q \in pending => pc[r] \in {"prompting", "waiting", "gone"}
      BY <3>1 DEF PendingExplained
    <3>3. pc'[r] \in {"prompting", "waiting", "gone"}
      BY <2>2, <2>3, <3>2 DEF RequestMoves
    <3>4. QED BY <2>1, <2>3, <3>1, <3>3 DEF request
  <2>4. CASE q # request(r)
    <3>1. q \in pending BY <1>0, <1>3, <2>4, OtherRequests
    <3>2. q = request(q[1]) /\ q[1] # r BY <2>4, <3>1 DEF PendingExplained
    <3>3. QED BY <1>0, <2>1, <3>1, <3>2 DEF PendingExplained, request
  <2>5. QED BY <2>3, <2>4
<1>4. ASSUME NEW p \in Requests, NEW button \in Buttons, Press(p, button)
      PROVE  q = request(q[1])' /\ pc'[q[1]] \in {"prompting", "waiting", "gone"}
  BY <1>4 DEF Press, local, PendingExplained, request
<1>5. QED BY <1>1, <1>2, <1>3, <1>4 DEF Next, RunStep

\* A button that was pressed in time stays the first, and its tool the tool.
LEMMA ForAllStays ==
  ASSUME TypeOK, CallsOk, Fresh, [Next]_vars, NEW g, ForAll(g)
  PROVE  ForAll(g)'
<1>1. PICK q \in Requests : pressed[q] = "all" /\ <<AgentOf[q[1]], tool[q]>> = g
  BY DEF ForAll
<1>2. pressed'[q] = "all" /\ tool'[q] = tool[q]
  <2>1. CASE UNCHANGED vars BY <1>1, <2>1 DEF vars, local
  <2>2. ASSUME NEW r \in Runs, Call(r) PROVE pressed'[q] = "all" /\ tool'[q] = tool[q]
    <3>1. request(r)' = <<r, calls[r] + 1>> /\ request(r)' \in Requests
      BY <2>2, CallRequest
    <3>2. calls[r] \in Nat BY DEF TypeOK
    <3>3. q # request(r)'
      <4>1. SUFFICES ASSUME q = <<r, calls[r] + 1>> PROVE FALSE BY <3>1
      <4>2. q[2] > calls[q[1]] BY <3>2, <4>1
      <4>4. NotAsked(q[1], q[2]) BY <4>2 DEF NotAsked
      <4>3. QED BY <1>1, <4>4 DEF Fresh, Untouched
    <3>4. PICK t \in Tools : tool' = [tool EXCEPT ![request(r)'] = t] BY <2>2 DEF Call
    <3>5. QED BY <1>1, <2>2, <3>3, <3>4 DEF Call, TypeOK
  <2>3. ASSUME NEW r \in Runs, RunStep(r) PROVE pressed'[q] = "all" /\ tool'[q] = tool[q]
    BY <1>1, <2>3, StepFrame
  <2>4. ASSUME NEW p \in Requests, NEW button \in Buttons, Press(p, button)
        PROVE  pressed'[q] = "all" /\ tool'[q] = tool[q]
    BY <1>1, <2>4 DEF Press, TypeOK, local
  <2>5. QED BY <2>1, <2>2, <2>3, <2>4 DEF Next, RunStep
<1>3. QED BY <1>1, <1>2 DEF ForAll

LEMMA AnsweredStep ==
  ASSUME TypeOK, CallsOk, Fresh, Answered, PendingExplained, [Next]_vars
  PROVE  Answered'
<1>1. \A g \in grants' : ForAll(g)'
  <2>1. SUFFICES ASSUME NEW g \in grants', g \notin grants PROVE ForAll(g)'
    BY ForAllStays DEF Answered
  <2>2. ASSUME UNCHANGED vars PROVE FALSE BY <2>1, <2>2 DEF vars, shared
  <2>3. ASSUME NEW r \in Runs, Call(r) PROVE FALSE BY <2>1, <2>3 DEF Call, shared
  <2>4. ASSUME NEW r \in Runs, RunStep(r) PROVE FALSE BY <2>1, <2>4, StepFrame
  <2>5. ASSUME NEW q \in Requests, NEW button \in Buttons, Press(q, button)
        PROVE  ForAll(g)'
    <3>1. Open(q) /\ button = "all" /\ g = <<AgentOf[q[1]], tool[q]>>
      BY <2>1, <2>5 DEF Press, Grant
    <3>2. pressed[q] = "none" /\ q \notin expired BY <3>1 DEF Answered, Open
    <3>3. pressed'[q] = "all" /\ tool' = tool
      BY <2>5, <3>1, <3>2 DEF Press, TypeOK, local
    <3>4. QED BY <3>1, <3>3 DEF ForAll
  <2>6. QED BY <2>2, <2>3, <2>4, <2>5 DEF Next, RunStep
<1>2. \A q \in Requests : approved'[q] = "yes" => pressed'[q] \in {"approve", "all"}
  <2>1. CASE UNCHANGED vars BY <2>1 DEF vars, shared, Answered
  <2>2. ASSUME NEW r \in Runs, Call(r) PROVE UNCHANGED <<approved, pressed>>
    BY <2>2 DEF Call, shared
  <2>3. ASSUME NEW r \in Runs, RunStep(r) PROVE UNCHANGED <<approved, pressed>>
    BY <2>3, StepFrame
  <2>4. ASSUME NEW p \in Requests, NEW button \in Buttons, Press(p, button), NEW q \in Requests,
               approved'[q] = "yes"
        PROVE  pressed'[q] \in {"approve", "all"}
    <3>1. CASE approved[q] = "yes"
      <4>1. pressed[q] \in {"approve", "all"} BY <3>1 DEF Answered
      <4>2. pressed'[q] = pressed[q] BY <2>4, <4>1 DEF Press, TypeOK
      <4>3. QED BY <4>1, <4>2
    <3>2. CASE approved[q] # "yes"
      <4>1. q = p /\ Open(p) /\ button # "deny" BY <2>4, <3>2 DEF Press, TypeOK
      <4>2. pressed[p] = "none" /\ p \notin expired BY <4>1 DEF Answered, Open
      <4>3. pressed'[p] = button BY <2>4, <4>2 DEF Press, TypeOK
      <4>4. QED BY <4>1, <4>3 DEF Buttons
    <3>3. QED BY <3>1, <3>2
  <2>5. QED BY <2>1, <2>2, <2>3, <2>4 DEF Next, RunStep, Answered
<1>3. ASSUME NEW q \in pending'
      PROVE  q \notin expired' /\ (approved'[q] = "open" => pressed'[q] = "none")
  <2>0. q \in Requests BY TypeStep DEF TypeOK
  <2>1. CASE UNCHANGED vars BY <1>3, <2>1 DEF vars, shared, Answered
  <2>2. ASSUME NEW r \in Runs, Call(r)
        PROVE  UNCHANGED <<pending, expired, approved, pressed>>
    BY <2>2 DEF Call, shared
  <2>3. ASSUME NEW r \in Runs, RunStep(r)
        PROVE  q \notin expired' /\ (approved'[q] = "open" => pressed'[q] = "none")
    <3>1. RequestMoves(r) /\ UNCHANGED <<approved, pressed>>
      BY <2>3, StepRequest, StepFrame
    <3>2. CASE q \in pending
      <4>1. q \notin expired /\ (approved[q] = "open" => pressed[q] = "none")
        BY <3>2 DEF Answered
      <4>2. q \notin expired' BY <1>3, <3>1, <4>1 DEF RequestMoves
      <4>3. QED BY <3>1, <4>1, <4>2
    <3>3. CASE q \notin pending
      <4>1. q = request(r) /\ pc[r] = "check" /\ UNCHANGED expired
        BY <1>3, <3>1, <3>3 DEF RequestMoves
      <4>2. q[1] = r /\ q[2] = calls[r] BY <4>1 DEF request
      <4>5. NotAsked(q[1], q[2]) BY <4>1, <4>2 DEF NotAsked
      <4>3. Untouched(q) BY <2>0, <4>5 DEF Fresh
      <4>4. QED BY <3>1, <4>1, <4>3 DEF Untouched
    <3>4. QED BY <3>2, <3>3
  <2>4. ASSUME NEW p \in Requests, NEW button \in Buttons, Press(p, button)
        PROVE  q \notin expired' /\ (approved'[q] = "open" => pressed'[q] = "none")
    <3>1. q \in pending /\ expired' = expired BY <1>3, <2>4 DEF Press
    <3>2. q \notin expired /\ (approved[q] = "open" => pressed[q] = "none")
      BY <3>1 DEF Answered
    <3>3. CASE q = p
      <4>1. approved'[q] # "open"
        <5>1. CASE Open(p) BY <2>0, <2>4, <3>3, <5>1 DEF Press, TypeOK
        <5>2. CASE ~Open(p) BY <2>4, <3>1, <3>3, <5>2 DEF Press, Open
        <5>3. QED BY <5>1, <5>2
      <4>2. QED BY <3>1, <3>2, <4>1
    <3>4. CASE q # p
      <4>1. approved'[q] = approved[q] /\ pressed'[q] = pressed[q]
        BY <2>0, <2>4, <3>4 DEF Press, TypeOK
      <4>2. QED BY <3>1, <3>2, <4>1
    <3>5. QED BY <3>3, <3>4
  <2>5. QED BY <1>3, <2>1, <2>2, <2>3, <2>4 DEF Next, RunStep, Answered
<1>4. QED BY <1>1, <1>2, <1>3 DEF Answered

\* A run comes to run its tool from the policies or from a human's yes.
LEMMA CheckPasses ==
  ASSUME TypeOK, NEW r \in Runs, RunStep(r), pc[r] \notin {"running", "waiting"},
         pc'[r] = "running"
  PROVE  Check(r)
<1> USE DEF TypeOK, dispatching, local, shared, Leaves
<1>1. ~ChainHook(r) /\ ~ShortAllows(r) /\ ~ShortBlocks(r) /\ ~ShortModifies(r)
  BY DEF ChainHook, ShortAllows, ShortBlocks, ShortModifies, AnyHook
<1>2. ~Dispatched(r)
  <2>1. CASE verdict[r] = "block" BY <2>1 DEF Dispatched
  <2>2. CASE verdict[r] # "block" BY <2>2 DEF Dispatched
  <2>3. QED BY <2>1, <2>2
<1>3. ~Sent(r) /\ ~SendFails(r) /\ ~Woken(r) /\ ~Timeout(r) /\ ~Returns(r)
  BY DEF Sent, SendFails, Woken, Timeout, Returns, GivesUp, Silence
<1>4. ~Delivered(r) /\ ~Cancel(r) BY DEF Delivered, Cancel
<1>5. QED BY <1>1, <1>2, <1>3, <1>4 DEF RunStep, Act

\* What lets one call of a run through.
Consented(r) ==
  \/ request(r) \in Approving /\ request(r) \notin expired
  \/ ForAll(<<AgentOf[r], tool[request(r)]>>)
Guarded(r) ==
  pc[r] = "running" /\ tool[request(r)] \in Sensitive /\ Human \in PolicySet /\ manager

LEMMA ConsentStep ==
  ASSUME TypeOK, CallsOk, Fresh, Answered, PendingExplained, RunsOnConsent, [Next]_vars
  PROVE  RunsOnConsent'
<1> SUFFICES ASSUME NEW r \in Runs, Guarded(r)' PROVE Consented(r)'
  BY DEF RunsOnConsent, Guarded, Consented
<1>1. ASSUME Guarded(r), UNCHANGED <<calls, tool>>,
             request(r) \notin expired => request(r) \notin expired',
             pressed[request(r)] # "none" => pressed'[request(r)] = pressed[request(r)]
      PROVE  Consented(r)'
  <2>1. Consented(r) BY <1>1 DEF RunsOnConsent, Guarded, Consented
  <2>2. request(r)' = request(r) BY <1>1 DEF request
  <2>3. CASE ForAll(<<AgentOf[r], tool[request(r)]>>)
    <3>1. PICK g : g = <<AgentOf[r], tool[request(r)]>> OBVIOUS
    <3>2. ForAll(g)' BY <2>3, <3>1, ForAllStays
    <3>3. <<AgentOf[r], tool[request(r)]>>' = g BY <1>1, <2>2, <3>1
    <3>4. QED BY <3>2, <3>3 DEF Consented
  <2>4. CASE request(r) \in Approving /\ request(r) \notin expired
    BY <1>1, <2>2, <2>4 DEF Approving, Consented
  <2>5. QED BY <2>1, <2>3, <2>4 DEF Consented
<1>2. CASE UNCHANGED vars
  BY <1>1, <1>2 DEF vars, local, shared, Guarded, request
<1>3. ASSUME NEW s \in Runs, Call(s) PROVE Consented(r)'
  <2>1. /\ pc' = [pc EXCEPT ![s] = "hooks"] /\ calls' = [calls EXCEPT ![s] = @ + 1]
        /\ UNCHANGED <<manager, expired, pressed>>
    BY <1>3 DEF Call, shared
  <2>2. r # s /\ pc[r] = "running" BY <2>1 DEF Guarded, TypeOK
  <2>3. request(r)' = request(r) /\ request(s)' = <<s, calls[s] + 1>>
    BY <1>3, <2>1, <2>2, CallRequest DEF request, TypeOK
  <2>4. tool'[request(r)] = tool[request(r)]
    <3>1. request(r) \in Requests BY <2>2, CurrentRequest
    <3>2. request(r) # request(s)' BY <2>2, <2>3 DEF request
    <3>3. PICK t \in Tools : tool' = [tool EXCEPT ![request(s)'] = t] BY <1>3 DEF Call
    <3>4. QED BY <3>1, <3>2, <3>3 DEF TypeOK
  <2>5. Consented(r) BY <2>1, <2>2, <2>3, <2>4 DEF RunsOnConsent, Guarded, Consented
  <2>6. CASE ForAll(<<AgentOf[r], tool[request(r)]>>)
    <3>1. PICK g : g = <<AgentOf[r], tool[request(r)]>> OBVIOUS
    <3>2. ForAll(g)' BY <2>6, <3>1, ForAllStays
    <3>3. <<AgentOf[r], tool[request(r)]>>' = g BY <2>3, <2>4, <3>1
    <3>4. QED BY <3>2, <3>3 DEF Consented
  <2>7. CASE request(r) \in Approving /\ request(r) \notin expired
    BY <2>1, <2>3, <2>7 DEF Approving, Consented
  <2>8. QED BY <2>5, <2>6, <2>7 DEF Consented
<1>4. ASSUME NEW s \in Runs, RunStep(s) PROVE Consented(r)'
  <2>1. /\ UNCHANGED <<calls, tool, manager, approved, grants, pressed>>
        /\ \A t \in Runs \ {s} : pc'[t] = pc[t]
    BY <1>4, StepFrame
  <2>2. RequestMoves(s) BY <1>4, StepRequest
  <2>3. CASE pc[r] = "running"
    <3>1. Guarded(r) BY <2>1, <2>3 DEF Guarded, request
    <3>2. request(r) \notin expired => request(r) \notin expired'
      <4>1. CASE r = s BY <2>2, <2>3, <4>1 DEF RequestMoves
      <4>2. CASE r # s
        <5>1. request(r) # request(s) BY <4>2 DEF request
        <5>2. QED BY <2>2, <5>1 DEF RequestMoves
      <4>3. QED BY <4>1, <4>2
    <3>3. QED BY <1>1, <2>1, <3>1, <3>2
  <2>4. CASE pc[r] # "running"
    <3>1. r = s /\ pc'[r] = "running" BY <2>1, <2>4 DEF Guarded
    <3>2. request(r) \in Requests /\ request(r)' = request(r)
      BY <1>4, <2>1, <3>1, CurrentRequest, StepFrame DEF request
    <3>3. CASE pc[r] = "waiting"
      <4>1. approved[request(r)] = "yes" /\ UNCHANGED expired
        BY <2>2, <3>1, <3>3 DEF RequestMoves
      <4>2. request(r) \in pending BY <3>3 DEF TypeOK
      <4>3. request(r) \notin expired /\ pressed[request(r)] \in {"approve", "all"}
        BY <3>2, <4>1, <4>2 DEF Answered
      <4>4. QED BY <2>1, <3>2, <4>1, <4>3 DEF Approving, Consented
    <3>4. CASE pc[r] # "waiting"
      <4>1. Check(r) BY <1>4, <2>4, <3>1, <3>4, CheckPasses
      <4>2. PICK objecting \in Objecting(r) :
               \/ Leaves(r, "idle")
               \/ /\ objecting = {} \/ Human \in First(objecting)
                  /\ pc' = [pc EXCEPT ![r] = IF Asked(r, objecting) THEN "prompting"
                                             ELSE "running"]
        BY <4>1 DEF Check
      <4>3. ~Leaves(r, "idle") BY <3>1 DEF Leaves, TypeOK
      <4>4. Human \in objecting
        BY <2>1, <3>2 DEF Guarded, Objecting
      <4>5. ~Asked(r, objecting) /\ Human \in First(objecting)
        BY <3>1, <4>2, <4>3, <4>4 DEF TypeOK
      <4>6. Granted(r) BY <2>1, <4>5 DEF Asked, Guarded
      <4>7. ForAll(<<AgentOf[r], tool[request(r)]>>) BY <4>6 DEF Granted, Answered
      <4>8. PICK g : g = <<AgentOf[r], tool[request(r)]>> OBVIOUS
      <4>9. ForAll(g)' BY <4>7, <4>8, ForAllStays
      <4>10. <<AgentOf[r], tool[request(r)]>>' = g BY <2>1, <3>2, <4>8
      <4>11. QED BY <4>9, <4>10 DEF Consented
    <3>5. QED BY <3>3, <3>4
  <2>5. QED BY <2>3, <2>4
<1>5. ASSUME NEW q \in Requests, NEW button \in Buttons, Press(q, button)
      PROVE  Consented(r)'
  <2>1. UNCHANGED <<pc, calls, tool, manager, expired>> BY <1>5 DEF Press, local
  <2>2. Guarded(r) BY <2>1 DEF Guarded, request
  <2>3. pressed[request(r)] # "none" => pressed'[request(r)] = pressed[request(r)]
    BY <1>5 DEF Press, TypeOK
  <2>4. QED BY <1>1, <2>1, <2>2, <2>3
<1>6. QED BY <1>2, <1>3, <1>4, <1>5 DEF Next, RunStep

-----------------------------------------------------------------------------
(* What policies and hooks object to. *)

\* The moves of a run that matter to its hooks and policies.
Listens(r) ==
  \/ /\ pc'[r] \in {"idle", "gone"} \/ pc'[r] = pc[r]
     /\ objections'[r] = objections[r] \/ pc'[r] \in {"idle", "gone"}
     /\ pc'[r] = "hooks" => ChainHook(r) \/ ShortAllows(r)
     /\ pc'[r] # "check"
  \/ Dispatched(r) /\ pc'[r] = "check" /\ verdict[r] # "block"
  \/ ShortModifies(r)
  \/ Check(r) /\ pc'[r] \in {"prompting", "running"}
  \/ pc[r] = "prompting" /\ pc'[r] = "waiting" /\ objections'[r] = objections[r]
  \/ pc[r] = "waiting" /\ pc'[r] = "running" /\ objections'[r] = objections[r]

LEMMA StepListens ==
  ASSUME TypeOK, NEW r \in Runs, RunStep(r)
  PROVE  Listens(r)
<1> USE DEF Listens, TypeOK, dispatching, local, shared, Leaves
<1>1. CASE ChainHook(r)
  <2>1. pc' = pc /\ pc[r] = "hooks" /\ objections' = objections
    BY <1>1 DEF ChainHook, AnyHook
  <2>2. QED BY <1>1, <2>1
<1>2. CASE ShortAllows(r)
  <2>1. pc' = pc /\ pc[r] = "hooks" /\ objections' = objections
    BY <1>2 DEF ShortAllows, AnyHook
  <2>2. QED BY <1>2, <2>1
<1>3. CASE ShortBlocks(r) BY <1>3 DEF ShortBlocks
<1>4. CASE ShortModifies(r) BY <1>4
<1>5. CASE Dispatched(r)
  <2>1. CASE verdict[r] = "block" BY <1>5, <2>1 DEF Dispatched
  <2>2. CASE verdict[r] # "block"
    <3>1. pc'[r] = "check" BY <1>5, <2>2 DEF Dispatched
    <3>2. QED BY <1>5, <2>2, <3>1
  <2>3. QED BY <2>1, <2>2
<1>6. CASE Check(r)
  <2>1. pc'[r] \in {"idle", "prompting", "running"} BY <1>6 DEF Check
  <2>2. QED BY <1>6, <2>1
<1>7. CASE Sent(r) BY <1>7 DEF Sent
<1>8. CASE SendFails(r) BY <1>8 DEF SendFails
<1>9. CASE Woken(r)
  <2>1. CASE approved[request(r)] = "yes" BY <1>9, <2>1 DEF Woken
  <2>2. CASE approved[request(r)] # "yes" BY <1>9, <2>2 DEF Woken
  <2>3. QED BY <2>1, <2>2
<1>10. CASE Timeout(r) BY <1>10 DEF Timeout, GivesUp, Silence
<1>11. CASE Returns(r) BY <1>11 DEF Returns
<1>12. CASE Delivered(r) BY <1>12 DEF Delivered
<1>13. CASE Cancel(r) BY <1>13 DEF Cancel
<1>14. QED
  BY <1>1, <1>2, <1>3, <1>4, <1>5, <1>6, <1>7, <1>8, <1>9, <1>10, <1>11, <1>12, <1>13
  DEF RunStep, Act

\* human_approval is heard first only if it stands before all others that object.
LEMMA HumanFirst ==
  ASSUME NEW objecting \in SUBSET PolicySet, Human \in First(objecting),
         NEW p \in objecting \ {Human}
  PROVE  /\ Human \in objecting
         /\ \E i, j \in DOMAIN Policies : i < j /\ Policies[i] = Human /\ Policies[j] = p
<1>1. DOMAIN Policies \subseteq Nat BY GateAssumption
<1>2. PICK i \in DOMAIN Policies :
        /\ Policies[i] = Human /\ Policies[i] \in objecting
        /\ \A j \in DOMAIN Policies : Policies[j] \in objecting => i <= j
  BY DEF First
<1>3. PICK j \in DOMAIN Policies : Policies[j] = p BY DEF PolicySet
<1>4. i <= j /\ i # j BY <1>2, <1>3
<1>5. i \in Nat /\ j \in Nat BY <1>1
<1>6. i < j BY <1>4, <1>5
<1>7. QED BY <1>2, <1>3, <1>6

\* What a step that is not a run's own leaves of its dispatching.
LEMMA Apart ==
  ASSUME TypeOK, NEW s \in Runs, [Next]_vars, ~RunStep(s)
  PROVE  /\ hook'[s] = hook[s] /\ verdict'[s] = verdict[s] /\ args'[s] = args[s]
         /\ objections'[s] = objections[s] /\ said'[s] = said[s]
         /\ pc'[s] = pc[s] \/ (pc[s] = "idle" /\ pc'[s] = "hooks")
<1>1. CASE UNCHANGED vars BY <1>1 DEF vars, local, dispatching
<1>2. ASSUME NEW r \in Runs, Call(r)
      PROVE  UNCHANGED dispatching /\ (pc'[s] = pc[s] \/ (pc[s] = "idle" /\ pc'[s] = "hooks"))
  BY <1>2 DEF Call, TypeOK
<1>3. ASSUME NEW r \in Runs, RunStep(r), r # s
      PROVE  /\ hook'[s] = hook[s] /\ verdict'[s] = verdict[s] /\ args'[s] = args[s]
             /\ objections'[s] = objections[s] /\ said'[s] = said[s] /\ pc'[s] = pc[s]
  BY <1>3, StepFrame
<1>4. ASSUME NEW q \in Requests, NEW button \in Buttons, Press(q, button)
      PROVE  UNCHANGED <<pc, dispatching>>
  BY <1>4 DEF Press, local
<1>5. QED BY <1>1, <1>2, <1>3, <1>4 DEF Next, RunStep, dispatching

LEMMA PoliciesStep ==
  ASSUME TypeOK, PoliciesNoted, [Next]_vars
  PROVE  PoliciesNoted'
<1> SUFFICES ASSUME NEW r \in Runs, pc'[r] \in {"prompting", "waiting", "running"},
                    NEW p \in objections'[r] \ {Human}
             PROVE  /\ Human \in objections'[r]
                    /\ \E i, j \in DOMAIN Policies :
                         i < j /\ Policies[i] = Human /\ Policies[j] = p
  BY DEF PoliciesNoted
<1>1. CASE pc[r] \in {"prompting", "waiting", "running"} /\ objections'[r] = objections[r]
  BY <1>1 DEF PoliciesNoted
<1>2. CASE ~RunStep(r) BY <1>1, <1>2, Apart
<1>3. CASE RunStep(r)
  <2>1. Listens(r) BY <1>3, StepListens
  <2>2. CASE Check(r) /\ pc'[r] \in {"prompting", "running"}
    <3>1. PICK objecting \in Objecting(r) :
            /\ objecting = {} \/ Human \in First(objecting)
            /\ objections' = [objections EXCEPT ![r] = objecting]
      BY <2>2 DEF Check, Leaves, TypeOK
    <3>2. objecting \in SUBSET PolicySet BY DEF Objecting
    <3>3. objections'[r] = objecting BY <3>1 DEF TypeOK
    <3>4. QED BY <3>1, <3>2, <3>3, HumanFirst
  <2>3. CASE ~(Check(r) /\ pc'[r] \in {"prompting", "running"})
    <3>1. ~(Dispatched(r) /\ pc'[r] = "check") OBVIOUS
    <3>2. ~ShortModifies(r) BY DEF ShortModifies, TypeOK, AnyHook
    <3>3. QED BY <1>1, <2>1, <2>3, <3>1, <3>2 DEF Listens
  <2>4. QED BY <2>2, <2>3
<1>4. QED BY <1>2, <1>3

LEMMA HooksStep ==
  ASSUME TypeOK, Quiet, HooksNoted, [Next]_vars
  PROVE  HooksNoted'
<1> SUFFICES ASSUME NEW r \in Runs, pc'[r] = "hooks"
             PROVE  /\ "block" \in said'[r] => verdict'[r] = "block"
                    /\ "modify" \in said'[r] => verdict'[r] # "allow"
  BY DEF HooksNoted
<1>1. CASE pc[r] \in {"hooks", "idle"} /\ said'[r] = said[r] /\ verdict'[r] = verdict[r]
  BY <1>1 DEF HooksNoted, Quiet
<1>2. CASE ~RunStep(r) BY <1>1, <1>2, Apart
<1>3. CASE RunStep(r)
  <2>1. Listens(r) BY <1>3, StepListens
  <2>2. ChainHook(r) \/ ShortAllows(r)
    BY <2>1 DEF Listens, ShortModifies, TypeOK
  <2>3. CASE ShortAllows(r)
    BY <1>1, <2>3 DEF ShortAllows, AnyHook
  <2>4. CASE ChainHook(r)
    <3>1. PICK answer \in {"allow", "modify", "block"} :
            /\ verdict' = [verdict EXCEPT ![r] = Combined(@, answer)]
            /\ said' = [said EXCEPT ![r] = @ \cup ({answer} \ {"allow"})]
      BY <2>4 DEF ChainHook
    <3>2. /\ verdict'[r] = Combined(verdict[r], answer)
          /\ said'[r] = said[r] \cup ({answer} \ {"allow"})
      BY <3>1 DEF TypeOK
    <3>3. /\ "block" \in said[r] => verdict[r] = "block"
          /\ "modify" \in said[r] => verdict[r] # "allow"
      BY <2>4 DEF ChainHook, AnyHook, HooksNoted
    <3>4. PICK before \in {"allow", "modify", "block"}, heard \in SUBSET {"modify", "block"} :
            before = verdict[r] /\ heard = said[r]
      BY DEF TypeOK
    <3>5. /\ "block" \in heard \cup ({answer} \ {"allow"}) => Combined(before, answer) = "block"
          /\ "modify" \in heard \cup ({answer} \ {"allow"}) => Combined(before, answer) # "allow"
      BY <3>3, <3>4 DEF Combined
    <3>6. QED BY <3>2, <3>4, <3>5
  <2>5. QED BY <2>2, <2>3, <2>4
<1>4. QED BY <1>2, <1>3

LEMMA HeardStep ==
  ASSUME TypeOK, HooksNoted, HooksHeard, [Next]_vars
  PROVE  HooksHeard'
<1> DEFINE Heard(r) ==
      \/ "block" \notin said[r] /\ ("modify" \in said[r] => args[r] = "modified")
      \/ hook[r] <= Len(Hooks) /\ Hooks[hook[r]] = "short"
<1> SUFFICES ASSUME NEW r \in Runs, pc'[r] = "check"
             PROVE  Heard(r)'
  BY DEF HooksHeard
<1>1. CASE ~RunStep(r)
  <2>1. /\ pc[r] = "check" /\ hook'[r] = hook[r] /\ args'[r] = args[r] /\ said'[r] = said[r]
    BY <1>1, Apart
  <2>2. Heard(r) BY <2>1 DEF HooksHeard
  <2>3. QED BY <2>1, <2>2
<1>2. CASE RunStep(r)
  <2>1. Listens(r) BY <1>2, StepListens
  <2>2. (Dispatched(r) /\ verdict[r] # "block") \/ ShortModifies(r)
    BY <2>1 DEF Listens
  <2>3. CASE ShortModifies(r)
    <3>1. hook' = hook /\ hook[r] <= Len(Hooks) /\ Hooks[hook[r]] = "short"
      BY <2>3 DEF ShortModifies, AnyHook
    <3>2. QED BY <3>1
  <2>4. CASE Dispatched(r) /\ verdict[r] # "block"
    <3>1. /\ pc[r] = "hooks" /\ UNCHANGED said
          /\ args' = [args EXCEPT ![r] = IF verdict[r] = "modify" THEN "modified" ELSE @]
      BY <2>4 DEF Dispatched
    <3>2. /\ "block" \in said[r] => verdict[r] = "block"
          /\ "modify" \in said[r] => verdict[r] # "allow"
      BY <3>1 DEF HooksNoted
    <3>3. verdict[r] \in {"allow", "modify"} BY <2>4 DEF TypeOK
    <3>4. QED BY <2>4, <3>1, <3>2, <3>3 DEF TypeOK
  <2>5. QED BY <2>2, <2>3, <2>4
<1>3. QED BY <1>1, <1>2

\* A run leaves a call with all that was said of it forgotten.
LEMMA IdleAfterLeaving ==
  ASSUME TypeOK, NEW r \in Runs, RunStep(r), pc'[r] = "idle"
  PROVE  Leaves(r, "idle")
<1> USE DEF TypeOK, dispatching, local, shared
<1>1. ~ChainHook(r) /\ ~ShortAllows(r) /\ ~ShortModifies(r)
  BY DEF ChainHook, ShortAllows, ShortModifies, AnyHook
<1>2. ~Sent(r) /\ ~Delivered(r) /\ ~Cancel(r)
  BY DEF Sent, Delivered, Cancel, Leaves
<1>3. CASE ShortBlocks(r) BY <1>3 DEF ShortBlocks
<1>4. CASE Dispatched(r)
  <2>1. CASE verdict[r] = "block" BY <1>4, <2>1 DEF Dispatched
  <2>2. CASE verdict[r] # "block" BY <1>4, <2>2 DEF Dispatched
  <2>3. QED BY <2>1, <2>2
<1>5. CASE Check(r) BY <1>5 DEF Check
<1>6. CASE SendFails(r) BY <1>6 DEF SendFails
<1>7. CASE Woken(r)
  <2>1. CASE approved[request(r)] = "yes" BY <1>7, <2>1 DEF Woken
  <2>2. CASE approved[request(r)] # "yes" BY <1>7, <2>2 DEF Woken
  <2>3. QED BY <2>1, <2>2
<1>8. CASE Timeout(r) BY <1>8 DEF Timeout, Silence
<1>9. CASE Returns(r) BY <1>9 DEF Returns
<1>10. QED
  BY <1>1, <1>2, <1>3, <1>4, <1>5, <1>6, <1>7, <1>8, <1>9 DEF RunStep, Act

LEMMA QuietStep ==
  ASSUME TypeOK, Quiet, [Next]_vars
  PROVE  Quiet'
<1> SUFFICES ASSUME NEW r \in Runs, pc'[r] = "idle"
             PROVE  said'[r] = {} /\ verdict'[r] = "allow"
  BY DEF Quiet
<1>1. CASE ~RunStep(r)
  <2>1. pc[r] = "idle" /\ said'[r] = said[r] /\ verdict'[r] = verdict[r] BY <1>1, Apart
  <2>2. QED BY <2>1 DEF Quiet
<1>2. CASE RunStep(r)
  <2>1. Leaves(r, "idle") BY <1>2, IdleAfterLeaving
  <2>2. QED BY <2>1 DEF Leaves, ForgetHooks, TypeOK
<1>3. QED BY <1>1, <1>2

-----------------------------------------------------------------------------
LEMMA GateInvInit == Init => GateInv
<1> SUFFICES ASSUME Init PROVE GateInv OBVIOUS
<1>1. TypeOK /\ CallsOk BY TypeInit
<1>2. Fresh BY DEF Init, Fresh, Untouched
<1>3. Answered /\ PendingExplained BY DEF Init, Answered, PendingExplained
<1>4. \A r \in Runs : pc[r] = "idle" /\ said[r] = {} /\ verdict[r] = "allow" BY DEF Init
<1>5. RunsOnConsent /\ PoliciesNoted /\ Quiet /\ HooksNoted /\ HooksHeard
  BY <1>4 DEF RunsOnConsent, PoliciesNoted, Quiet, HooksNoted, HooksHeard
<1>6. QED BY <1>1, <1>2, <1>3, <1>5 DEF GateInv

LEMMA GateInvStep == GateInv /\ [Next]_vars => GateInv'
<1> SUFFICES ASSUME GateInv, [Next]_vars PROVE GateInv' OBVIOUS
<1>1. /\ TypeOK /\ CallsOk /\ Fresh /\ Answered /\ PendingExplained /\ RunsOnConsent
      /\ PoliciesNoted /\ Quiet /\ HooksNoted /\ HooksHeard
  BY DEF GateInv
<1>2. TypeOK' /\ CallsOk' BY <1>1, TypeStep
<1>3. Fresh' BY <1>1, FreshStep
<1>4. Answered' BY <1>1, AnsweredStep
<1>5. PendingExplained' BY <1>1, PendingStep
<1>6. RunsOnConsent' BY <1>1, ConsentStep
<1>7. PoliciesNoted' BY <1>1, PoliciesStep
<1>8. Quiet' BY <1>1, QuietStep
<1>9. HooksNoted' BY <1>1, HooksStep
<1>10. HooksHeard' BY <1>1, HeardStep
<1>11. QED
  BY <1>2, <1>3, <1>4, <1>5, <1>6, <1>7, <1>8, <1>9, <1>10 DEF GateInv

\* With a permission manager a sensitive tool runs only on a button that was
\* pressed in time, for this call or for all of its kind, and no request is
\* pending but the one its run waits for or was cancelled at.
THEOREM OnlyWithConsent == Spec => []Consent
<1>1. GateInv => Consent BY DEF GateInv, Consent
<1>2. QED BY GateInvInit, GateInvStep, <1>1, PTL DEF Spec

\* A blocking policy and a chain hook are passed over only behind a
\* human_approval that objects first, or by a later short-circuit hook.
THEOREM NothingPassedOver == Spec => []ObjectionsHeard
<1>1. GateInv => ObjectionsHeard
  BY DEF GateInv, PoliciesNoted, ObjectionsHeard, PoliciesHeard
<1>2. QED BY GateInvInit, GateInvStep, <1>1, PTL DEF Spec
=============================================================================
