----------------------------- MODULE ModelFallback -----------------------------
(***************************************************************************)
(* How a request reaches a model that answers                              *)
(* (nanobot/providers/base.py:_run_with_retry, chat_stream_with_retry;     *)
(* nanobot/providers/fallback_provider.py).                                *)
(*                                                                         *)
(* A request calls the FallbackProvider, which calls the primary model     *)
(* and, when that fails, the fallback models in order; the whole is        *)
(* retried after a pause as long as the error is transient.  All requests  *)
(* of the process share the provider and so its circuit breaker, which     *)
(* lets the primary rest after repeated failures.  Text is streamed to the *)
(* user while a call runs; after a timeout the caller may close the        *)
(* segment of the stream and go on in a new one.                           *)
(***************************************************************************)
EXTENDS Naturals

CONSTANTS
    Request,
    Mode,       \* Mode[r]: "stream", with on_stream_recover; "progress",
                \* streamed without it; "plain", not streamed
    Images,     \* requests with images in their messages
    Fallbacks,  \* number of fallback models
    Broken,     \* those of 1..Fallbacks that provider_factory cannot create
    Threshold,  \* _PRIMARY_FAILURE_THRESHOLD (3 in the code)
    Cooldown,   \* _PRIMARY_COOLDOWN_S, in ticks of the clock
    Retries,    \* Len(_CHAT_RETRY_DELAYS) (3 in the code)
    MaxTime     \* bound on the clock

ASSUME FallbackAssumption ==
    /\ Mode \in [Request -> {"stream", "progress", "plain"}]
    /\ Images \subseteq Request /\ Broken \subseteq 1..Fallbacks
    /\ Fallbacks \in Nat \ {0} /\ Threshold \in Nat \ {0}
    /\ Cooldown \in Nat \ {0} /\ Retries \in Nat /\ MaxTime \in Nat

VARIABLES
    req,       \* the requests
    failures,  \* _primary_failures
    tripped,   \* _primary_tripped_at, NotTripped for None
    now        \* time.monotonic()

vars == <<req, failures, tripped, now>>

NotTripped == MaxTime + 1

\* What a call may come to.  timeout, transient: worth a fallback and a retry.
\* quota: worth a fallback, no retry.  fatal: neither.  raised: an exception.
Outcome == {"ok", "timeout", "transient", "quota", "fatal", "raised"}

\* The wrapper makes up an error when no fallback has answered.
Error == (Outcome \ {"ok"}) \cup {"no_model"}

\* _should_fallback; _is_transient_response, for an exception either way.
ShouldFallback(error) == error \in {"timeout", "transient", "quota"}
MayBeTransient(error) == error \in {"timeout", "transient", "raised"}
MayBePermanent(error) == error \in {"quota", "fatal", "raised", "no_model"}

\* pc: "idle", "calling" (a model is awaited), "retry" or "done"
\* model: the model in call, 0 for the primary
\* attempt: calls of the wrapper
\* streamed, inner: has_streamed_content, has_streamed
\* muted, innerMuted: on_content_delta was withdrawn, for good or for this call
\* last, heard: last_response; the last error any model gave in this call
\* segment: whose text the open segment holds: "empty", "this" call's,
\*          an "earlier" call's, or "mixed"
\* stripped: the images were taken out
\* result: what the wrapper returned last
Idle == [pc |-> "idle", model |-> 0, attempt |-> 0, streamed |-> FALSE, inner |-> FALSE,
         muted |-> FALSE, innerMuted |-> FALSE, last |-> "none", heard |-> "none",
         segment |-> "empty", stripped |-> FALSE, result |-> "none"]

Init ==
    /\ req = [r \in Request |-> Idle]
    /\ failures = 0
    /\ tripped = NotTripped
    /\ now = 0

Streams(r) == Mode[r] # "plain"
Recovers(r) == Mode[r] = "stream"

-----------------------------------------------------------------------------
(* The steps of request r, as operators on its record q.                   *)

\* on_stream_recover: the segment is closed, and both levels forget it.
Recovered(q) == [q EXCEPT !.segment = "empty", !.streamed = FALSE, !.inner = FALSE]

Call(q, model) ==
    [q EXCEPT !.pc = "calling", !.model = model,
              !.segment = IF @ = "this" THEN "earlier" ELSE @]

\* The model in call gives text: both tracking callbacks note it, unless they
\* were withdrawn.
Text(q) ==
    IF q.innerMuted THEN q
    ELSE IF q.muted THEN [q EXCEPT !.inner = TRUE]
    ELSE [q EXCEPT !.inner = TRUE, !.streamed = TRUE,
                   !.segment = IF @ \in {"empty", "this"} THEN "this" ELSE "mixed"]

\* The request is over.
Finish(q, result) == [q EXCEPT !.pc = "done", !.result = result, !.streamed = FALSE,
                               !.innerMuted = FALSE, !.last = "none"]

\* Mutant: one attempt more than there are delays.
Fail_OneMore(r, q, error) ==
    LET held == Streams(r) /\ q.streamed /\ ~q.muted
        open == IF ~held THEN q
                ELSE IF Recovers(r) THEN Recovered(q) ELSE [q EXCEPT !.muted = TRUE]
        Stop(p) == Finish(p, error)
        Again(p) == [p EXCEPT !.pc = "retry", !.model = 0, !.inner = FALSE,
                              !.innerMuted = FALSE, !.last = "none", !.heard = "none"]
        transient == IF q.attempt <= Retries + 1 THEN Again(open) ELSE Stop(open)
        permanent == IF r \in Images THEN [Again(open) EXCEPT !.stripped = TRUE]
                     ELSE Stop(open)
    IN  IF q.stripped \/ (held /\ error # "timeout") THEN {Stop(q)}
        ELSE {p \in {transient, permanent} :
                 \/ p = transient /\ MayBeTransient(error)
                 \/ p = permanent /\ MayBePermanent(error)}

\* The wrapper returns an error to _run_with_retry.  Text in the open segment
\* forbids another attempt, unless after a timeout it can be closed or all
\* further text suppressed.  A permanent error is tried once more without the
\* images, a transient one as often as there are delays.
Fail(r, q, error) ==
    LET held == Streams(r) /\ q.streamed /\ ~q.muted
        open == IF ~held THEN q
                ELSE IF Recovers(r) THEN Recovered(q) ELSE [q EXCEPT !.muted = TRUE]
        Stop(p) == Finish(p, error)
        Again(p) == [p EXCEPT !.pc = "retry", !.model = 0, !.inner = FALSE,
                              !.innerMuted = FALSE, !.last = "none", !.heard = "none"]
        transient == IF q.attempt <= Retries THEN Again(open) ELSE Stop(open)
        permanent == IF r \in Images THEN [Again(open) EXCEPT !.stripped = TRUE]
                     ELSE Stop(open)
    IN  IF q.stripped \/ (held /\ error # "timeout") THEN {Stop(q)}
        ELSE {p \in {transient, permanent} :
                 \/ p = transient /\ MayBeTransient(error)
                 \/ p = permanent /\ MayBePermanent(error)}

\* The fallback models from m on that can be created.
Usable(m) == {k \in m..Fallbacks : k \notin Broken}

\* Mutant: a fallback's fatal error ends the loop.
Fallback_StopsOnFatal(r, q, m) ==
    LET stalled == q.inner /\ m <= Fallbacks /\ q.last = "timeout" /\ Recovers(r)
        p == IF stalled THEN Recovered(q) ELSE q
        next == IF p.inner \/ p.last = "fatal" THEN {} ELSE {k \in Usable(m) : \A l \in Usable(m) : k <= l}
    IN  IF next # {} THEN {Call(p, k) : k \in next}
        ELSE Fail(r, p, IF p.last = "none" THEN "no_model" ELSE p.last)

\* The loop over the fallback models from model m on.  Text in the open
\* segment ends it, unless it came from a model that timed out and the segment
\* can be closed.  A model that cannot be created is passed over.  At the end
\* the last error of a fallback is returned.
Fallback(r, q, m) ==
    LET stalled == q.inner /\ m <= Fallbacks /\ q.last = "timeout" /\ Recovers(r)
        p == IF stalled THEN Recovered(q) ELSE q
        next == IF p.inner THEN {} ELSE {k \in Usable(m) : \A l \in Usable(m) : k <= l}
    IN  IF next # {} THEN {Call(p, k) : k \in next}
        ELSE Fail(r, p, IF p.last = "none" THEN "no_model" ELSE p.last)

\* _primary_available: not tripped, or the cooldown is over.
PrimaryAvailable == tripped = NotTripped \/ now >= tripped + Cooldown

\* Mutant: the attempt is not counted.
Enter_NotCounted(r, q) ==
    LET p == q
    IN  IF PrimaryAvailable THEN {Call(p, 0)} ELSE Fallback(r, p, 1)

\* The wrapper is called: the primary, or the first fallback that can be made.
Enter(r, q) ==
    LET p == [q EXCEPT !.attempt = @ + 1]
    IN  IF PrimaryAvailable THEN {Call(p, 0)} ELSE Fallback(r, p, 1)

\* Mutant: the stalled text is forgotten, its segment is not closed.
PrimaryError_LeavesSegment(r, q, error) ==
    LET quiet == IF Recovers(r) THEN [q EXCEPT !.inner = FALSE]
                 ELSE [q EXCEPT !.inner = FALSE, !.innerMuted = TRUE]
        open == IF q.inner THEN quiet ELSE q
    IN  IF error = "raised" \/ (q.inner /\ error # "timeout") \/ ~ShouldFallback(error)
        THEN Fail(r, q, error)
        ELSE Fallback(r, open, 1)

\* The primary has answered with an error.
PrimaryError(r, q, error) ==
    LET quiet == IF Recovers(r) THEN Recovered(q)
                 ELSE [q EXCEPT !.inner = FALSE, !.innerMuted = TRUE]
        open == IF q.inner THEN quiet ELSE q
    IN  IF error = "raised" \/ (q.inner /\ error # "timeout") \/ ~ShouldFallback(error)
        THEN Fail(r, q, error)
        ELSE Fallback(r, open, 1)

-----------------------------------------------------------------------------
(* Actions.                                                                *)

Become(r, S) == \E q \in S : req' = [req EXCEPT ![r] = q]

\* chat_with_retry or chat_stream_with_retry is called, or its pause is over.
Start(r) ==
    /\ req[r].pc \in {"idle", "retry"}
    /\ Become(r, Enter(r, req[r]))
    /\ UNCHANGED <<failures, tripped, now>>

\* The record once the model has answered, with text or without.
Answered(r, outcome, text) ==
    LET q == IF text /\ Streams(r) THEN Text(req[r]) ELSE req[r]
    IN  IF outcome = "ok" THEN q ELSE [q EXCEPT !.heard = outcome]

\* After a success or a cancellation nothing but the text shown is left.
Success(r, q) ==
    req' = [req EXCEPT ![r] = [Idle EXCEPT !.pc = "done", !.result = "ok",
                                           !.segment = q.segment]]

\* Only an error that leads on to a fallback is counted by the breaker.
PrimaryAnswers(r, outcome, text) ==
    /\ req[r].pc = "calling" /\ req[r].model = 0
    /\ LET q == Answered(r, outcome, text)
           counted == ShouldFallback(outcome) /\ (q.inner => outcome = "timeout")
       IN  IF outcome = "ok"
           THEN /\ Success(r, q)
                /\ failures' = 0 /\ tripped' = NotTripped
           ELSE /\ Become(r, PrimaryError(r, q, outcome))
                /\ failures' = IF counted THEN failures + 1 ELSE failures
                /\ tripped' = IF counted /\ failures + 1 >= Threshold THEN now ELSE tripped
    /\ UNCHANGED now

FallbackAnswers(r, outcome, text) ==
    /\ req[r].pc = "calling" /\ req[r].model > 0
    /\ LET q == Answered(r, outcome, text)
       IN  IF outcome = "ok" THEN Success(r, q)
           ELSE IF outcome = "raised" THEN Become(r, Fail(r, q, outcome))
           ELSE Become(r, Fallback(r, [q EXCEPT !.last = outcome], q.model + 1))
    /\ UNCHANGED <<failures, tripped, now>>

Answers(r) ==
    \E outcome \in Outcome, text \in BOOLEAN :
        PrimaryAnswers(r, outcome, text) \/ FallbackAnswers(r, outcome, text)

\* The turn is stopped, or the wall-clock limit of an unstreamed request ends it.
Cancel(r) ==
    /\ req[r].pc \in {"calling", "retry"}
    /\ req' = [req EXCEPT ![r] = [Idle EXCEPT !.pc = "done", !.result = "cancelled"]]
    /\ UNCHANGED <<failures, tripped, now>>

Tick ==
    /\ now < MaxTime
    /\ now' = now + 1
    /\ UNCHANGED <<req, failures, tripped>>

Next ==
    \/ \E r \in Request : Start(r) \/ Answers(r) \/ Cancel(r)
    \/ Tick

Spec == Init /\ [][Next]_vars

\* Every pause ends, and every call of a model answers or times out.
FairSpec == Spec /\ \A r \in Request : WF_vars(req[r].pc # "idle" /\ (Start(r) \/ Answers(r)))

-----------------------------------------------------------------------------
(* Properties.                                                             *)

RequestType ==
    [pc : {"idle", "calling", "retry", "done"}, model : 0..Fallbacks,
     attempt : 0..(Retries + 2), streamed : BOOLEAN, inner : BOOLEAN,
     muted : BOOLEAN, innerMuted : BOOLEAN,
     last : {"none"} \cup Error, heard : {"none"} \cup Error,
     segment : {"empty", "this", "earlier", "mixed"}, stripped : BOOLEAN,
     result : {"none", "ok", "cancelled"} \cup Error]

TypeOK ==
    /\ req \in [Request -> RequestType]
    /\ failures \in Nat
    /\ now \in 0..MaxTime /\ tripped \in (0..now) \cup {NotTripped}

\* "Skipped when content was already streamed to avoid duplicate output,
\* except timeout recovery can resume in a new stream segment": no segment
\* shows the text of two calls, and the segment a request ends with, if it
\* streams with recovery, is that of the call that answered it.
OneAnswerPerSegment ==
    \A r \in Request :
        /\ req[r].segment # "mixed"
        /\ req[r].result = "ok" /\ Recovers(r) => req[r].segment \in {"empty", "this"}

\* A request fails only when its text cannot be taken back, or when both
\* levels have done what they can: the wrapper has passed over every model (or
\* was told that no model will do, or gave text that cannot be taken back),
\* and _run_with_retry has used its attempts or need not try again.
FailsOnlyAtTheEnd ==
    \A r \in Request :
        LET q == req[r]
            noModelLeft == Usable(q.model + 1) = {} \/ q.inner
                              \/ q.result = "raised" \/ (q.result = "fatal" /\ q.model = 0)
            noAttemptLeft == q.attempt > Retries \/ q.stripped
                              \/ (MayBePermanent(q.result) /\ r \notin Images)
        IN  (q.pc = "done" /\ q.result \in Error) =>
                (q.segment # "empty" /\ ~q.muted) \/ (noModelLeft /\ noAttemptLeft)

\* A request that was made is answered, whatever the models do.
RequestReturns ==
    \A r \in Request : req[r].pc # "idle" ~> req[r].pc = "done"

\* "Return the last error response we saw (primary or last fallback)."
LastErrorIsReturned ==
    \A r \in Request :
        (req[r].result \in Error /\ req[r].heard # "none") => req[r].result = req[r].heard

\* "Half-open: allow one probe attempt."
OneProbe ==
    tripped # NotTripped /\ now >= tripped + Cooldown =>
        \A r, s \in Request :
            (r # s /\ req[r].pc = "calling" /\ req[s].pc = "calling") =>
                req[r].model # 0 \/ req[s].model # 0
=============================================================================
