--------------------------- MODULE MCConsolidation ---------------------------
(* Instances of Consolidation for TLC.                                     *)
EXTENDS Consolidation
=============================================================================
