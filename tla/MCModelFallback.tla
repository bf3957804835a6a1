--------------------------- MODULE MCModelFallback ---------------------------
(* Instances of ModelFallback for TLC.                                     *)
EXTENDS ModelFallback

CONSTANTS r1, r2

\* One request of a chat and one of a caller without on_stream_recover.
Modes == [r \in Request |-> IF r = r1 THEN "stream" ELSE "progress"]
=============================================================================
