---------------------------- MODULE MCAgentLoop ----------------------------
(* TLC instance of AgentLoop: runs of several settings.  The thresholds of the *)
(* code, which only differ in size, are scaled down so that two or three        *)
(* iterations cross each of them.                                               *)
EXTENDS AgentLoop

Plain == [plan |-> FALSE, hard |-> FALSE, verify |-> FALSE, feedback |-> FALSE,
          saves |-> FALSE, helpers |-> FALSE, safetyCap |-> 2, allowed |-> Tools]
MCConfigs == {[Plain EXCEPT !.plan = TRUE, !.verify = TRUE, !.helpers = TRUE],
              [Plain EXCEPT !.plan = TRUE, !.saves = TRUE],
              [Plain EXCEPT !.plan = TRUE, !.verify = TRUE, !.allowed = Tools \ ReadOnly],
              [Plain EXCEPT !.hard = TRUE, !.verify = TRUE, !.helpers = TRUE],
              [Plain EXCEPT !.saves = TRUE],
              [Plain EXCEPT !.feedback = TRUE, !.helpers = TRUE, !.safetyCap = 3]}
=============================================================================
