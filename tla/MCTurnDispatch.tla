--------------------------- MODULE MCTurnDispatch ---------------------------
(* Instances of TurnDispatch for TLC.                                      *)
EXTENDS TurnDispatch, TLC

CONSTANTS s1, s2, u2

\* Everything in one session.
KeyOne == [m \in Msg |-> s1]

\* One user message in a second session, to contend for the gate.
KeyTwo == [m \in Msg |-> IF m = u2 THEN s2 ELSE s1]

\* Messages of one kind in one session are interchangeable.
Perms == Permutations(User) \cup Permutations(Automation)
=============================================================================
