-------------------------------- MODULE Runs --------------------------------
(* The runs of the agent runner, which its modules share.                    *)

CONSTANTS
  Run  \* run ids (uuids, engine/models.py); their number bounds a TLC model
=============================================================================
