-------------------------- MODULE WorkflowPromise --------------------------
(***************************************************************************)
(* What the workflow engine promises to whoever starts a workflow,         *)
(* without its steps, locks and rows: a workflow is executed by one run at *)
(* a time, a run ends once, and the status it returns tells whether one of *)
(* its steps failed for good.                                              *)
(***************************************************************************)
CONSTANTS Runs, Workflows

VARIABLES phase,     (* what the caller can know about a run               *)
          work,      (* the workflow it executes                           *)
          blemished  (* whether a step has failed and stays failed         *)

vars == <<phase, work, blemished>>

Init == /\ phase = [r \in Runs |-> "new"]
        /\ work \in [Runs -> Workflows]
        /\ blemished = [r \in Runs |-> FALSE]

Start(r, w) ==
    /\ phase[r] = "new"
    /\ \A s \in Runs : phase[s] = "running" => work[s] # w
    /\ phase' = [phase EXCEPT ![r] = "running"]
    /\ work' = [work EXCEPT ![r] = w]
    /\ UNCHANGED blemished

Refuse(r, w) ==
    /\ phase[r] = "new"
    /\ phase' = [phase EXCEPT ![r] = "refused"]
    /\ work' = [work EXCEPT ![r] = w]
    /\ UNCHANGED blemished

Blemish(r) ==
    /\ phase[r] = "running"
    /\ blemished' = [blemished EXCEPT ![r] = TRUE]
    /\ UNCHANGED <<phase, work>>

Complete(r) ==
    /\ phase[r] = "running" /\ ~blemished[r]
    /\ phase' = [phase EXCEPT ![r] = "completed"]
    /\ UNCHANGED <<work, blemished>>

Fail(r) ==
    /\ phase[r] = "running"
    /\ phase' = [phase EXCEPT ![r] = "failed"]
    /\ blemished' = [blemished EXCEPT ![r] = TRUE]
    /\ UNCHANGED work

Expire(r) ==
    /\ phase[r] = "running"
    /\ phase' = [phase EXCEPT ![r] = "timeout"]
    /\ UNCHANGED <<work, blemished>>

(* The process ends, and every run in it.                                  *)
Die ==
    /\ phase' = [r \in Runs |-> IF phase[r] = "running" THEN "lost" ELSE phase[r]]
    /\ blemished' = [r \in Runs |-> blemished[r] /\ phase[r] # "running"]
    /\ UNCHANGED work

Next ==
    \/ \E r \in Runs, w \in Workflows : Start(r, w) \/ Refuse(r, w)
    \/ \E r \in Runs : Blemish(r) \/ Complete(r) \/ Fail(r) \/ Expire(r)
    \/ Die

Spec == Init /\ [][Next]_vars
=============================================================================
