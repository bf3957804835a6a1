----------------------------- MODULE OutboundFifo -----------------------------
(***************************************************************************)
(* What the delivery of outbound messages promises a channel: it is handed *)
(* what was published in the order of publication, only consecutive pieces *)
(* of one stream come joined in one call, and what is passed over is a     *)
(* prefix of what was due.  A call that raised may be made again.          *)
(***************************************************************************)
EXTENDS Naturals, Sequences

CONSTANTS Item

VARIABLES
    log,   \* what was published; a message is named by its place here
    todo,  \* messages not settled yet, in order
    got    \* calls the channel has carried out, each with its messages

fvars == <<log, todo, got>>

\* These messages may go out as one: pieces of one stream, its end last.
OneMessage(ids) ==
    /\ ids # <<>>
    /\ Len(ids) > 1 =>
         /\ \A i \in 1..Len(ids) : log[ids[i]].to = log[ids[1]].to
         /\ \A i \in 1..(Len(ids) - 1) : log[ids[i]].kind = "delta"
         /\ log[ids[Len(ids)]].kind \in {"delta", "end"}

First(n) == SubSeq(todo, 1, n)
Rest(n) == SubSeq(todo, n + 1, Len(todo))

FInit == log = <<>> /\ todo = <<>> /\ got = <<>>

FPublish(item) ==
    /\ log' = Append(log, item)
    /\ todo' = Append(todo, Len(log) + 1)
    /\ UNCHANGED got

FDeliver(n) ==
    /\ OneMessage(First(n))
    /\ got' = Append(got, First(n))
    /\ todo' = Rest(n)
    /\ UNCHANGED log

\* The call took effect and raised.
FRepeat(n) ==
    /\ OneMessage(First(n))
    /\ got' = Append(got, First(n))
    /\ UNCHANGED <<log, todo>>

FPass(n) ==
    /\ todo' = Rest(n)
    /\ UNCHANGED <<log, got>>

FNext ==
    \/ \E item \in Item : FPublish(item)
    \/ \E n \in 1..Len(todo) : FDeliver(n) \/ FRepeat(n) \/ FPass(n)

FSpec == FInit /\ [][FNext]_fvars
=============================================================================
