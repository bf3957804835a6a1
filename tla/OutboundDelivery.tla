--------------------------- MODULE OutboundDelivery ---------------------------
(***************************************************************************)
(* The dispatcher of outbound messages (nanobot/channels/manager.py).      *)
(*                                                                         *)
(* One task takes messages from the outbound queue of the bus and hands    *)
(* each to its channel, retrying a call that raises.  Pieces of a streamed *)
(* answer that have piled up are joined into one call; the message that    *)
(* ends the run has been taken from the queue by then and waits in         *)
(* `pending`.  A reply that repeats the last one to the same source        *)
(* message is suppressed.                                                  *)
(***************************************************************************)
EXTENDS Naturals, Sequences

CONSTANTS
    Stream,       \* (channel, chat, stream id)
    Content,      \* what a reply may say
    NoContent,
    Item,         \* the messages that may be published
    MaxAttempts,  \* max(send_max_retries, 1)
    MaxMessages,  \* bound on the messages published
    MaxFailures   \* bound on the calls that raise

\* delta, end: StreamDeltaEvent, StreamEndEvent with content
\* reply: an answer to the source message, with its message_id
\* late: a later answer that names its source as origin_message_id
\* other: anything else that is sent on as it is
\* hidden: progress the channel did not ask for, RetryWaitEvent,
\*         StreamedResponseEvent, a channel that is not configured
Kind == {"delta", "end", "reply", "late", "other", "hidden"}

ASSUME OutboundAssumption ==
    /\ Item \subseteq [to : Stream, kind : Kind, says : Content]
    /\ NoContent \notin Content
    /\ MaxAttempts \in Nat \ {0} /\ MaxMessages \in Nat /\ MaxFailures \in Nat

VARIABLES
    log,         \* every message published; it is named by its place here
    queue,       \* bus.outbound
    pending,     \* taken from the bus, not looked at yet
    current,     \* the messages joined in the call in progress
    attempts,    \* calls that raised for `current`
    failures,    \* calls that raised
    said,        \* _origin_reply_fingerprints, one source per stream
    got,         \* calls the channels have carried out
    gaveUp,      \* messages given up after MaxAttempts calls
    suppressed,  \* messages passed over as repetitions
    up           \* the dispatcher task runs

vars == <<log, queue, pending, current, attempts, failures, said, got, gaveUp, suppressed,
          up>>

Ids(s) == {s[i] : i \in 1..Len(s)}

Init ==
    /\ log = <<>> /\ queue = <<>> /\ pending = <<>> /\ current = <<>>
    /\ attempts = 0 /\ failures = 0
    /\ said = [s \in Stream |-> NoContent]
    /\ got = <<>> /\ gaveUp = {} /\ suppressed = {}
    /\ up = TRUE

\* publish_outbound.  What comes after the end of the dispatcher stays unread.
Publish(item) ==
    /\ up
    /\ Len(log) < MaxMessages
    /\ log' = Append(log, item)
    /\ queue' = Append(queue, Len(log) + 1)
    /\ UNCHANGED <<pending, current, attempts, failures, said, got, gaveUp, suppressed, up>>

-----------------------------------------------------------------------------
(* Taking a message.                                                       *)

\* _coalesce_stream_deltas may join the first n messages of q to the delta m:
\* they are pieces of its stream, up to and including an end.
Joins(m, q, n) ==
    /\ \A i \in 1..n : log[q[i]].to = log[m].to /\ log[q[i]].kind \in {"delta", "end"}
    /\ \A i \in 1..n : i < n => log[q[i]].kind = "delta"

\* It joins as many as it can.
JoinsAll(m, q, n) == Joins(m, q, n) /\ (n < Len(q) => ~Joins(m, q, n + 1))

\* Was a message behind the n joined ones taken from the queue as well?
Boundary(q, n) == n < Len(q) /\ ~(n > 0 /\ log[q[n]].kind = "end")

\* Mutant: the boundary is put back at the end of the queue.
Coalesce_PutsBack(m, waiting, q) ==
    \E n \in 0..Len(q) :
      LET taken == IF Boundary(q, n) THEN n + 1 ELSE n
      IN
        /\ JoinsAll(m, q, n)
        /\ current' = <<m>> \o SubSeq(q, 1, n)
        /\ pending' = waiting
        /\ queue' = SubSeq(q, taken + 1, Len(q)) \o SubSeq(q, n + 1, taken)
        /\ UNCHANGED <<said, suppressed>>

Coalesce(m, waiting, q) ==
    \E n \in 0..Len(q) :
      LET taken == IF Boundary(q, n) THEN n + 1 ELSE n
      IN
        /\ JoinsAll(m, q, n)
        /\ current' = <<m>> \o SubSeq(q, 1, n)
        /\ pending' = waiting \o SubSeq(q, n + 1, taken)
        /\ queue' = SubSeq(q, taken + 1, Len(q))
        /\ UNCHANGED <<said, suppressed>>

\* Mutant: what was said to one source counts for every other.
Reply_AnySource(m) ==
    IF log[m].kind = "late" /\ said[log[m].to] = log[m].says
    THEN /\ suppressed' = suppressed \cup {m}
         /\ UNCHANGED <<current, said>>
    ELSE /\ current' = <<m>>
         /\ said' = [s \in Stream |-> log[m].says]
         /\ UNCHANGED suppressed

\* _should_suppress_outbound, and the send it may prevent.
Reply(m) ==
    IF log[m].kind = "late" /\ said[log[m].to] = log[m].says
    THEN /\ suppressed' = suppressed \cup {m}
         /\ UNCHANGED <<current, said>>
    ELSE /\ current' = <<m>>
         /\ said' = [said EXCEPT ![log[m].to] = log[m].says]
         /\ UNCHANGED suppressed

\* Message m leaves `pending` or the bus; `waiting` and q are what they hold
\* without it.  Everything up to the call is synchronous.
Handle(m, waiting, q) ==
    CASE log[m].kind = "delta" -> Coalesce(m, waiting, q)
      [] log[m].kind \in {"reply", "late"} ->
           Reply(m) /\ pending' = waiting /\ queue' = q
      [] log[m].kind \in {"end", "other"} ->
           /\ current' = <<m>> /\ pending' = waiting /\ queue' = q
           /\ UNCHANGED <<said, suppressed>>
      [] log[m].kind = "hidden" ->
           /\ pending' = waiting /\ queue' = q
           /\ UNCHANGED <<current, said, suppressed>>

Take ==
    /\ up /\ current = <<>>
    /\ IF pending # <<>> THEN Handle(Head(pending), Tail(pending), queue)
       ELSE queue # <<>> /\ Handle(Head(queue), pending, Tail(queue))
    /\ UNCHANGED <<log, attempts, failures, got, gaveUp, up>>

-----------------------------------------------------------------------------
(* The call, _send_with_retry.                                             *)

Sent ==
    /\ current # <<>>
    /\ got' = Append(got, current)
    /\ current' = <<>> /\ attempts' = 0
    /\ UNCHANGED <<log, queue, pending, failures, said, gaveUp, suppressed, up>>

\* Mutant: one attempt too many is counted.
SendFails_OffByOne ==
    /\ current # <<>>
    /\ failures < MaxFailures
    /\ failures' = failures + 1
    /\ got' \in {got, Append(got, current)}
    /\ IF attempts = MaxAttempts
       THEN /\ gaveUp' = gaveUp \cup Ids(current)
            /\ current' = <<>> /\ attempts' = 0
       ELSE /\ attempts' = attempts + 1
            /\ UNCHANGED <<gaveUp, current>>
    /\ UNCHANGED <<log, queue, pending, said, suppressed, up>>

\* Mutant: after the last attempt the message is dropped without a word.
SendFails_Silently ==
    /\ current # <<>>
    /\ failures < MaxFailures
    /\ failures' = failures + 1
    /\ got' \in {got, Append(got, current)}
    /\ current' = <<>> /\ attempts' = 0
    /\ UNCHANGED <<log, queue, pending, said, gaveUp, suppressed, up>>

\* The call raises, with or without having had its effect.
SendFails ==
    /\ current # <<>>
    /\ failures < MaxFailures
    /\ failures' = failures + 1
    /\ got' \in {got, Append(got, current)}
    /\ IF attempts + 1 = MaxAttempts
       THEN /\ gaveUp' = gaveUp \cup Ids(current)
            /\ current' = <<>> /\ attempts' = 0
       ELSE /\ attempts' = attempts + 1
            /\ UNCHANGED <<gaveUp, current>>
    /\ UNCHANGED <<log, queue, pending, said, suppressed, up>>

\* stop_all cancels the dispatcher; what it holds is gone.
Stop ==
    /\ up
    /\ up' = FALSE
    /\ current' = <<>> /\ pending' = <<>> /\ attempts' = 0
    /\ UNCHANGED <<log, queue, failures, said, got, gaveUp, suppressed>>

Next ==
    \/ \E item \in Item : Publish(item)
    \/ Take \/ Sent \/ SendFails \/ Stop

Spec == Init /\ [][Next]_vars

\* The event loop runs the dispatcher, and every call of a channel returns or
\* raises.
FairSpec == Spec /\ WF_vars(Take) /\ WF_vars(Sent \/ SendFails)

-----------------------------------------------------------------------------
(* Properties.                                                             *)

\* Types, and what the joining relies on: at most one message waits in
\* `pending`, so that none is there when a delta is joined with the queue.
TypeOK ==
    /\ log \in Seq(Item) /\ Len(log) <= MaxMessages
    /\ queue \in Seq(1..Len(log)) /\ pending \in Seq(1..Len(log))
    /\ current \in Seq(1..Len(log))
    /\ Len(pending) <= 1
    /\ attempts \in 0..(MaxAttempts - 1) /\ failures \in 0..MaxFailures
    /\ said \in [Stream -> Content \cup {NoContent}]
    /\ got \in Seq(Seq(1..Len(log)))
    /\ gaveUp \subseteq 1..Len(log) /\ suppressed \subseteq 1..Len(log)
    /\ up \in BOOLEAN

\* Joining deltas and handing the boundary back never reorder or mix what the
\* channels get, and what was passed over does not come later: the dispatcher
\* refines OutboundFifo.  Which messages are passed over is left open there;
\* EachIsSettled and SuppressedWasSaid speak of them.
Fifo == INSTANCE OutboundFifo WITH todo <- current \o pending \o queue

ImplementsFifo == Fifo!FSpec

Delivered == UNION {Ids(got[i]) : i \in 1..Len(got)}

\* A message is only suppressed when the same was said to the same source
\* before it, and that was delivered or given up ("repeated content from
\* separate turns is still delivered").
SuppressedWasSaid ==
    \A m \in suppressed : \E k \in 1..(m - 1) :
        /\ log[k].to = log[m].to /\ log[k].says = log[m].says
        /\ log[k].kind \in {"reply", "late"}
        /\ k \in Delivered \cup gaveUp

\* Whatever fails, every message that is to be sent is delivered or given up
\* while the dispatcher runs: a dead channel does not hold up the others.
EachIsSettled ==
    \A m \in 1..MaxMessages :
        (m <= Len(log) /\ log[m].kind # "hidden")
            ~> (~up \/ m \in Delivered \cup gaveUp \cup suppressed)
=============================================================================
