-------------------------- MODULE MCOutboundDelivery --------------------------
(* Instances of OutboundDelivery for TLC.                                  *)
EXTENDS OutboundDelivery

CONSTANTS s1, s2, c1

\* Two streams that interleave, and replies that repeat each other.
Items ==
    [to : {s1, s2}, kind : {"delta", "late"}, says : {c1}]
        \cup [to : {s1}, kind : {"end", "hidden", "reply"}, says : {c1}]
=============================================================================
