---------------------------- MODULE MCChatSession ----------------------------
(* TLC instance of ChatSession: a first request that may propose a plan, a   *)
(* second that may propose another or act on it, a third that acts on one.   *)
EXTENDS ChatSession
MCKinds == <<{"send", "deep", "inject", "plan"}, {"plan", "approve", "iterate"}, {"approve", "iterate"}>>
=============================================================================
