--------------------------- MODULE MCMemoryFacts ---------------------------
(* TLC instance of MemoryFacts: two facts of one topic at first, and an     *)
(* ingestion that says again what one of them says, unless it is pruned by  *)
(* then.                                                                    *)
EXTENDS MemoryFacts
CONSTANTS d1
MCClaims == 1..2
MCTopic == [c \in MCClaims |-> "a"]
MCGiven == <<1, 2>>
MCClaim == [p \in Ingest |-> 2]
MCKinds == [d \in Dream |-> IF d = d1 THEN {"light", "nightly"} ELSE {"intraday", "deep"}]
MCThreshold == [k \in {"intraday", "light"} |-> 3]
=============================================================================
