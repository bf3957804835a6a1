--------------------------- MODULE MCTurnCheckpoint ---------------------------
(* Small instances of TurnCheckpoint.                                        *)
EXTENDS TurnCheckpoint

CONSTANTS u1, g1, c1

OneUser == {u1}
OneSubagent == {g1}
OneCommand == {c1}
=============================================================================
