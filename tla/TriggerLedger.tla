---------------------------- MODULE TriggerLedger ----------------------------
(***************************************************************************)
(* What the local trigger queue promises (docs/chat-commands.md, "Local    *)
(* triggers"): an accepted delivery stays in the workspace until its agent *)
(* turn has finished, its trigger is paused or deleted, or it is moved to  *)
(* the failed queue; its turn runs at least once, and a bounded number of  *)
(* times.                                                                  *)
(***************************************************************************)
EXTENDS Naturals

CONSTANTS Delivery, MaxTurns

VARIABLES
    ledger,    \* ledger[d]: "new", "pending", "failed" or "gone"
    turns,     \* turns[d]: agent turns started for d
    answered,  \* deliveries with a turn that ended
    refused    \* deliveries whose trigger was once paused or deleted

lvars == <<ledger, turns, answered, refused>>

LInit ==
    /\ ledger = [d \in Delivery |-> "new"]
    /\ turns = [d \in Delivery |-> 0]
    /\ answered = {}
    /\ refused = {}

Accept(d) ==
    /\ ledger[d] = "new"
    /\ ledger' = [ledger EXCEPT ![d] = "pending"]
    /\ UNCHANGED <<turns, answered, refused>>

\* A turn starts, for a delivery that is still wanted or was just withdrawn.
Attempt(d) ==
    /\ ledger[d] = "pending" \/ d \in refused
    /\ turns[d] < MaxTurns
    /\ turns' = [turns EXCEPT ![d] = @ + 1]
    /\ UNCHANGED <<ledger, answered, refused>>

Answer(d) ==
    /\ turns[d] > 0
    /\ answered' = answered \cup {d}
    /\ UNCHANGED <<ledger, turns, refused>>

\* A delivery leaves the queue because its turn has ended.
Settle(d) ==
    /\ ledger[d] = "pending" /\ d \in answered
    /\ ledger' = [ledger EXCEPT ![d] = "gone"]
    /\ UNCHANGED <<turns, answered, refused>>

\* Pausing or deleting a trigger: its deliveries are no longer promised a turn
\* and may be thrown away, now or later.
Refuse(D) ==
    /\ D \subseteq {d \in Delivery : ledger[d] # "new"}
    /\ refused' = refused \cup D
    /\ \E fate \in [D -> {"pending", "failed", "gone"}] :
          ledger' = [d \in Delivery |-> IF d \in D THEN fate[d] ELSE ledger[d]]
    /\ UNCHANGED <<turns, answered>>

\* What becomes of a refused delivery is open.
Waive(d) ==
    /\ d \in refused
    /\ ledger[d] # "new"
    /\ \E to \in {"pending", "failed", "gone"} : ledger' = [ledger EXCEPT ![d] = to]
    /\ UNCHANGED <<turns, answered, refused>>

\* The attempts are used up.
GiveUp(d) ==
    /\ ledger[d] = "pending"
    /\ ledger' = [ledger EXCEPT ![d] = "failed"]
    /\ UNCHANGED <<turns, answered, refused>>

LNext ==
    \/ \E d \in Delivery : \/ Accept(d) \/ Attempt(d) \/ Answer(d) \/ Settle(d)
                           \/ Waive(d) \/ GiveUp(d)
    \/ \E D \in SUBSET Delivery : Refuse(D)

LSpec == LInit /\ [][LNext]_lvars
=============================================================================
