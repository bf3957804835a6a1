--------------------------- MODULE MCTriggerQueue ---------------------------
(* Instances of TriggerQueue for TLC. *)
EXTENDS TriggerQueue

CONSTANTS t1, t2

\* Every delivery belongs to one trigger.
OwnerOne == [d \in Delivery |-> t1]
\* Delivery 2 belongs to another trigger.
OwnerTwo == [d \in Delivery |-> IF d = 2 THEN t2 ELSE t1]
=============================================================================
