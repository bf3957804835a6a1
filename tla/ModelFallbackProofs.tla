-------------------------- MODULE ModelFallbackProofs --------------------------
(***************************************************************************)
(* Proofs about ModelFallback, for every set of requests, every mode of    *)
(* each, every number of fallback models and of attempts and every         *)
(* threshold and cooldown of the circuit breaker.                          *)
(***************************************************************************)
EXTENDS ModelFallback, WellFoundedInduction, TLAPS

-----------------------------------------------------------------------------
(* The inductive invariant: what holds of the record of a request.         *)

\* The text in the open segment is known to both levels, or all further text
\* is withheld.
Open(r, q) ==
    /\ q \in RequestType
    /\ q.result = "none"
    /\ q.segment # "mixed"
    /\ q.segment # "empty" => Streams(r) /\ (q.muted \/ q.streamed)
    /\ q.streamed /\ ~q.muted => q.segment # "empty"
    /\ q.inner /\ ~q.muted => q.streamed
    /\ q.segment = "earlier" => q.muted \/ q.innerMuted
    /\ q.muted \/ q.innerMuted => ~Recovers(r)

\* The text of the models called so far is that of the one in call.
Known(q) == q.segment # "empty" => q.muted \/ q.innerMuted \/ q.inner

\* One attempt for each delay and the first; one more without the images.
Tried(q) == q.attempt <= Retries + 1 \/ q.stripped

InCall(r, q) == q.pc = "calling" /\ Open(r, q) /\ Known(q) /\ Tried(q)

Waiting(r, q) ==
    /\ q.pc = "retry" /\ Open(r, q)
    /\ ~q.inner /\ ~q.innerMuted /\ q.last = "none" /\ q.model = 0
    /\ q.segment # "empty" => q.muted
    /\ q.attempt <= Retries \/ (q.stripped /\ q.attempt <= Retries + 1)

NoModelLeft(q, error) ==
    \/ Usable(q.model + 1) = {} \/ q.inner
    \/ error = "raised" \/ (error = "fatal" /\ q.model = 0)

NoAttemptLeft(r, q, error) ==
    \/ q.attempt > Retries \/ q.stripped
    \/ MayBePermanent(error) /\ r \notin Images

Over(r, q) ==
    /\ q.pc = "done" /\ q \in RequestType
    /\ q.segment # "mixed"
    /\ q.result = "ok" /\ Recovers(r) => q.segment \in {"empty", "this"}
    /\ q.result \in Error =>
         (q.segment # "empty" /\ ~q.muted)
            \/ (NoModelLeft(q, q.result) /\ NoAttemptLeft(r, q, q.result))

RequestInv(r, q) == q = Idle \/ InCall(r, q) \/ Waiting(r, q) \/ Over(r, q)

FallbackInv == TypeOK /\ \A r \in Request : RequestInv(r, req[r])

-----------------------------------------------------------------------------
(* The steps of a request.                                                 *)

LEMMA IdleType == Idle \in RequestType
BY FallbackAssumption DEF Idle, RequestType

\* The fields of a record after the operators on it.
LEMMA RecoveredFields ==
    ASSUME NEW q \in RequestType
    PROVE  /\ Recovered(q) \in RequestType
           /\ Recovered(q).segment = "empty" /\ ~Recovered(q).streamed /\ ~Recovered(q).inner
           /\ Recovered(q).pc = q.pc /\ Recovered(q).model = q.model
           /\ Recovered(q).attempt = q.attempt /\ Recovered(q).muted = q.muted
           /\ Recovered(q).innerMuted = q.innerMuted /\ Recovered(q).last = q.last
           /\ Recovered(q).stripped = q.stripped /\ Recovered(q).result = q.result
BY DEF Recovered, RequestType

LEMMA FinishFields ==
    ASSUME NEW q \in RequestType, NEW error \in Error
    PROVE  /\ Finish(q, error) \in RequestType
           /\ Finish(q, error).pc = "done" /\ Finish(q, error).result = error
           /\ Finish(q, error).segment = q.segment /\ Finish(q, error).muted = q.muted
           /\ Finish(q, error).inner = q.inner /\ Finish(q, error).model = q.model
           /\ Finish(q, error).attempt = q.attempt /\ Finish(q, error).stripped = q.stripped
BY DEF Finish, RequestType

LEMMA CallFields ==
    ASSUME NEW q \in RequestType, NEW model \in 0..Fallbacks
    PROVE  /\ Call(q, model) \in RequestType
           /\ Call(q, model).pc = "calling"
           /\ Call(q, model).segment = IF q.segment = "this" THEN "earlier" ELSE q.segment
           /\ Call(q, model).attempt = q.attempt /\ Call(q, model).stripped = q.stripped
           /\ Call(q, model).muted = q.muted /\ Call(q, model).innerMuted = q.innerMuted
           /\ Call(q, model).inner = q.inner /\ Call(q, model).streamed = q.streamed
           /\ Call(q, model).result = q.result
BY DEF Call, RequestType

\* A request that ends with an error, its text still open or nothing left to try.
LEMMA Ends ==
    ASSUME NEW r \in Request, NEW q \in RequestType, NEW error \in Error,
           q.segment # "mixed",
           \/ q.segment # "empty" /\ ~q.muted
           \/ NoModelLeft(q, error) /\ NoAttemptLeft(r, q, error)
    PROVE  Over(r, Finish(q, error))
<1> DEFINE p == Finish(q, error)
<1>1. /\ p \in RequestType /\ p.pc = "done" /\ p.result = error
      /\ p.segment = q.segment /\ p.muted = q.muted /\ p.inner = q.inner
      /\ p.model = q.model /\ p.attempt = q.attempt /\ p.stripped = q.stripped
  BY FinishFields
<1>2. error # "ok"
  BY DEF Error, Outcome
<1> HIDE DEF p
<1>3. Over(r, p)
  BY <1>1, <1>2 DEF Over, NoModelLeft, NoAttemptLeft
<1>. QED  BY <1>3 DEF p

\* What _run_with_retry does with the stream before another attempt.
Reopened(r, q) ==
    IF ~(Streams(r) /\ q.streamed /\ ~q.muted) THEN q
    ELSE IF Recovers(r) THEN Recovered(q) ELSE [q EXCEPT !.muted = TRUE]

Retried(q) ==
    [q EXCEPT !.pc = "retry", !.model = 0, !.inner = FALSE,
              !.innerMuted = FALSE, !.last = "none", !.heard = "none"]

LEMMA ReopenedFields ==
    ASSUME NEW r \in Request, NEW q, Open(r, q)
    PROVE  /\ Reopened(r, q) \in RequestType /\ Open(r, Reopened(r, q))
           /\ Reopened(r, q).segment # "empty" => Reopened(r, q).muted
           /\ Reopened(r, q).model = q.model /\ Reopened(r, q).attempt = q.attempt
           /\ Reopened(r, q).stripped = q.stripped
           /\ \/ Reopened(r, q).inner = q.inner
              \/ Recovers(r) /\ q.streamed /\ ~q.muted /\ Streams(r)
<1>1. q \in RequestType
  BY DEF Open
<1>2. CASE ~(Streams(r) /\ q.streamed /\ ~q.muted)
  BY <1>2 DEF Reopened, Open
<1>3. CASE Streams(r) /\ q.streamed /\ ~q.muted /\ Recovers(r)
  <2> DEFINE p == Recovered(q)
  <2>1. Reopened(r, q) = p
    BY <1>3 DEF Reopened
  <2>2. /\ p \in RequestType /\ p.segment = "empty" /\ ~p.streamed /\ ~p.inner
        /\ p.model = q.model /\ p.attempt = q.attempt /\ p.muted = q.muted
        /\ p.innerMuted = q.innerMuted /\ p.stripped = q.stripped /\ p.result = q.result
    BY <1>1, RecoveredFields
  <2> HIDE DEF p
  <2>3. Open(r, p)
    BY <2>2 DEF Open
  <2>. QED  BY <1>3, <2>1, <2>2, <2>3
<1>4. CASE Streams(r) /\ q.streamed /\ ~q.muted /\ ~Recovers(r)
  <2> DEFINE p == [q EXCEPT !.muted = TRUE]
  <2>1. Reopened(r, q) = p
    BY <1>4 DEF Reopened
  <2>2. /\ p \in RequestType /\ p.muted /\ p.model = q.model /\ p.attempt = q.attempt
        /\ p.stripped = q.stripped /\ p.inner = q.inner /\ p.segment = q.segment
        /\ p.result = q.result
    BY <1>1 DEF RequestType
  <2> HIDE DEF p
  <2>3. Open(r, p)
    BY <1>4, <2>2 DEF Open
  <2>. QED  BY <2>1, <2>2, <2>3
<1>. QED  BY <1>2, <1>3, <1>4

\* p waits for another attempt where q stopped.
Again(q, p) ==
    /\ p \in RequestType
    /\ p.pc = "retry" /\ p.model = 0 /\ ~p.inner /\ ~p.innerMuted /\ p.last = "none"
    /\ p.segment = q.segment /\ p.muted = q.muted /\ p.streamed = q.streamed
    /\ p.attempt = q.attempt /\ p.result = q.result

LEMMA RetriedFields ==
    ASSUME NEW q \in RequestType
    PROVE  /\ Again(q, Retried(q))
           /\ Again(q, [Retried(q) EXCEPT !.stripped = TRUE])
           /\ [Retried(q) EXCEPT !.stripped = TRUE].stripped
<1> DEFINE p == Retried(q)
           t == [p EXCEPT !.stripped = TRUE]
           u == [q EXCEPT !.pc = "retry", !.model = 0, !.inner = FALSE, !.innerMuted = FALSE,
                          !.last = "none", !.heard = "none", !.stripped = TRUE]
<1>0. 0 \in 0..Fallbacks
  BY FallbackAssumption
<1>5. p \in RequestType
  BY <1>0 DEF Retried, RequestType
<1>6. u \in RequestType
  BY <1>0 DEF RequestType
<1>1. /\ p.pc = "retry" /\ p.model = 0 /\ ~p.inner /\ ~p.innerMuted
      /\ p.last = "none" /\ p.segment = q.segment /\ p.muted = q.muted
      /\ p.streamed = q.streamed /\ p.attempt = q.attempt /\ p.result = q.result
  BY DEF Retried, RequestType
<1>2. /\ u.pc = "retry" /\ u.model = 0 /\ ~u.inner /\ ~u.innerMuted
      /\ u.last = "none" /\ u.segment = q.segment /\ u.muted = q.muted
      /\ u.streamed = q.streamed /\ u.attempt = q.attempt /\ u.result = q.result
      /\ u.stripped
  BY DEF RequestType
<1>3. t = u
  BY DEF Retried, RequestType
<1> HIDE DEF p, u
<1>4. Again(q, p) /\ Again(q, u)
  BY <1>1, <1>2, <1>5, <1>6 DEF Again
<1>. QED  BY <1>2, <1>3, <1>4 DEF p

\* Another attempt keeps what is known of the stream.
LEMMA Waits ==
    ASSUME NEW r \in Request, NEW q, Open(r, q), q.segment # "empty" => q.muted,
           NEW p, Again(q, p),
           q.attempt <= Retries \/ (p.stripped /\ q.attempt <= Retries + 1)
    PROVE  Waiting(r, p)
BY DEF Open, Again, Waiting

\* _run_with_retry: another attempt, or the end.
LEMMA FailResult ==
    ASSUME NEW r \in Request, NEW q, Open(r, q), Tried(q), NEW error \in Error,
           NoModelLeft(q, error),
           q.inner /\ error = "timeout" /\ Recovers(r) => Usable(q.model + 1) = {},
           NEW p \in Fail(r, q, error)
    PROVE  Waiting(r, p) \/ Over(r, p)
<1> DEFINE held == Streams(r) /\ q.streamed /\ ~q.muted
           open == Reopened(r, q)
           transient == IF q.attempt <= Retries THEN Retried(open) ELSE Finish(open, error)
           permanent == IF r \in Images THEN [Retried(open) EXCEPT !.stripped = TRUE]
                        ELSE Finish(open, error)
<1>1. IF q.stripped \/ (held /\ error # "timeout") THEN p = Finish(q, error)
      ELSE p = transient \/ (p = permanent /\ MayBePermanent(error))
  <2>1. CASE q.stripped \/ (held /\ error # "timeout")
    BY <2>1 DEF Fail
  <2>2. CASE ~(q.stripped \/ (held /\ error # "timeout"))
    BY <2>2, Zenon DEF Fail, Reopened, Retried
  <2>. QED  BY <2>1, <2>2
<1>2. q \in RequestType
  BY DEF Open
<1>3. /\ open \in RequestType /\ Open(r, open) 
      /\ open.segment # "empty" => open.muted
      /\ open.model = q.model /\ open.attempt = q.attempt /\ open.stripped = q.stripped
      /\ open.inner = q.inner \/ (Recovers(r) /\ held)
  BY ReopenedFields
<1> HIDE DEF open
<1>4. CASE q.stripped \/ (held /\ error # "timeout")
  <2>1. (q.segment # "empty" /\ ~q.muted) \/ NoAttemptLeft(r, q, error)
    BY <1>4 DEF Open, NoAttemptLeft
  <2>2. Over(r, Finish(q, error))
    BY <1>2, <2>1, Ends DEF Open
  <2>. QED  BY <1>1, <1>4, <2>2
<1>5. CASE ~(q.stripped \/ (held /\ error # "timeout"))
  <2>1. NoModelLeft(open, error)
    BY <1>3, <1>5 DEF NoModelLeft
  <2>2. q.attempt \in Nat /\ q.attempt <= Retries + 1
    BY <1>2, <1>5 DEF Tried, RequestType
  <2>3. ASSUME NoAttemptLeft(r, open, error) PROVE Over(r, Finish(open, error))
    <3>1. open.segment # "mixed"
      BY <1>3 DEF Open
    <3>. QED  BY <1>3, <2>1, <2>3, <3>1, Ends
  <2>4. CASE p = transient
    <3>1. CASE q.attempt <= Retries
      <4>1. Again(open, Retried(open))
        BY <1>3, RetriedFields
      <4>2. Waiting(r, Retried(open))
        BY <1>3, <3>1, <4>1, Waits
      <4>. QED  BY <2>4, <3>1, <4>2
    <3>2. CASE ~(q.attempt <= Retries)
      <4>1. NoAttemptLeft(r, open, error)
        BY <1>3, <2>2, <3>2, FallbackAssumption DEF NoAttemptLeft
      <4>. QED  BY <2>3, <2>4, <3>2, <4>1
    <3>. QED  BY <3>1, <3>2
  <2>5. CASE p = permanent /\ MayBePermanent(error)
    <3>1. CASE r \in Images
      <4> DEFINE t == [Retried(open) EXCEPT !.stripped = TRUE]
      <4>1. Again(open, t) /\ t.stripped
        BY <1>3, RetriedFields
      <4>2. p = t
        BY <2>5, <3>1
      <4> HIDE DEF t
      <4>3. Waiting(r, t)
        BY <1>3, <2>2, <4>1, Waits
      <4>. QED  BY <4>2, <4>3
    <3>2. CASE r \notin Images
      <4>1. NoAttemptLeft(r, open, error)
        BY <2>5, <3>2 DEF NoAttemptLeft
      <4>. QED  BY <2>3, <2>5, <3>2, <4>1
    <3>. QED  BY <3>1, <3>2
  <2>. QED  BY <1>1, <1>5, <2>4, <2>5
<1>. QED  BY <1>4, <1>5

-----------------------------------------------------------------------------
(* The fallback models.                                                    *)

LEMMA Least ==
    ASSUME NEW S \in SUBSET Nat, S # {}
    PROVE  \E k \in S : \A l \in S : k <= l
<1>1. PICK k \in S : \A l \in S : ~(<<l, k>> \in OpToRel(<, Nat))
  BY NatLessThanWellFounded, WFMin
<1>2. ASSUME NEW l \in S PROVE k <= l
  <2>1. ~(l < k)
    BY <1>1 DEF OpToRel
  <2>. QED  BY <2>1
<1>. QED  BY <1>2

\* The call of a model whose text will not be mixed with that of another.
LEMMA CallResult ==
    ASSUME NEW r \in Request, NEW q, Open(r, q), Tried(q), ~q.inner, Known(q),
           NEW model \in 0..Fallbacks
    PROVE  InCall(r, Call(q, model))
<1> DEFINE p == Call(q, model)
<1>1. q \in RequestType
  BY DEF Open
<1>2. /\ p \in RequestType /\ p.pc = "calling"
      /\ p.segment = IF q.segment = "this" THEN "earlier" ELSE q.segment
      /\ p.attempt = q.attempt /\ p.stripped = q.stripped /\ p.muted = q.muted
      /\ p.innerMuted = q.innerMuted /\ p.inner = q.inner /\ p.streamed = q.streamed
      /\ p.result = q.result
  BY <1>1, CallFields
<1> HIDE DEF p
<1>3. Open(r, p)
  BY <1>2 DEF Open, Known
<1>4. Known(p) /\ Tried(p)
  BY <1>2 DEF Known, Tried
<1>5. InCall(r, p)
  BY <1>2, <1>3, <1>4 DEF InCall
<1>. QED  BY <1>5 DEF p

\* _try_with_fallback from model q.model + 1 on.
LEMMA FallbackResult ==
    ASSUME NEW r \in Request, NEW q, Open(r, q), Tried(q), Known(q),
           q.inner => q.last # "none",
           NEW p \in Fallback(r, q, q.model + 1)
    PROVE  RequestInv(r, p)
<1> DEFINE m == q.model + 1
           stalled == q.inner /\ m <= Fallbacks /\ q.last = "timeout" /\ Recovers(r)
           o == IF stalled THEN Recovered(q) ELSE q
           next == IF o.inner THEN {} ELSE {k \in Usable(m) : \A l \in Usable(m) : k <= l}
           error == IF o.last = "none" THEN "no_model" ELSE o.last
<1>1. IF next # {} THEN p \in {Call(o, k) : k \in next} ELSE p \in Fail(r, o, error)
  BY Zenon DEF Fallback
<1>2. q \in RequestType /\ q.model \in 0..Fallbacks
  BY DEF Open, RequestType
<1>3. /\ Open(r, o) /\ Tried(o) /\ Known(o) /\ o.model = q.model /\ o \in RequestType
      /\ o.inner => q.last # "none" /\ ~stalled
      /\ o.last = q.last
      /\ o.inner => q.inner
  <2>1. CASE stalled
    <3> DEFINE c == Recovered(q)
    <3>1. /\ c \in RequestType /\ c.segment = "empty" /\ ~c.streamed /\ ~c.inner
          /\ c.model = q.model /\ c.attempt = q.attempt /\ c.muted = q.muted
          /\ c.innerMuted = q.innerMuted /\ c.stripped = q.stripped /\ c.result = q.result
          /\ c.last = q.last
      BY <1>2, RecoveredFields
    <3>2. o = c
      BY <2>1
    <3> HIDE DEF c, o
    <3>3. Open(r, c) /\ Tried(c) /\ Known(c)
      BY <3>1 DEF Open, Tried, Known
    <3>. QED  BY <3>1, <3>2, <3>3
  <2>2. CASE ~stalled
    BY <1>2, <2>2
  <2>. QED  BY <2>1, <2>2
<1> HIDE DEF o
<1>4. error \in Error /\ (o.last # "none" => error = o.last)
  <2>1. o.last \in {"none"} \cup Error
    BY <1>3 DEF RequestType
  <2>. QED  BY <2>1 DEF Error
<1>5. Usable(m) \in SUBSET Nat /\ Usable(m) \subseteq m..Fallbacks /\ m \in 1..(Fallbacks + 1)
  BY <1>2, FallbackAssumption DEF Usable
<1>6. CASE next # {}
  <2>1. PICK k \in next : p = Call(o, k)
    BY <1>1, <1>6
  <2>2. ~o.inner /\ k \in 0..Fallbacks
    BY <1>5
  <2>3. InCall(r, p)
    BY <1>3, <2>1, <2>2, CallResult
  <2>. QED  BY <2>3 DEF RequestInv
<1>7. CASE next = {}
  <2>1. o.inner \/ Usable(m) = {}
    BY <1>5, <1>7, Least
  <2>2. NoModelLeft(o, error)
    BY <1>3, <2>1 DEF NoModelLeft
  <2>3. o.inner /\ error = "timeout" /\ Recovers(r) => Usable(o.model + 1) = {}
    <3>. SUFFICES ASSUME o.inner, error = "timeout", Recovers(r) PROVE Usable(m) = {}
      BY <1>3
    <3>1. ~(m <= Fallbacks)
      BY <1>3, <1>4
    <3>. QED  BY <1>5, <3>1, FallbackAssumption
  <2>4. p \in Fail(r, o, error)
    BY <1>1, <1>7
  <2>5. Waiting(r, p) \/ Over(r, p)
    BY <1>3, <1>4, <2>2, <2>3, <2>4, FailResult
  <2>. QED  BY <2>5 DEF RequestInv
<1>. QED  BY <1>6, <1>7

\* The wrapper is called for the first time or once more.
LEMMA EnterResult ==
    ASSUME NEW r \in Request, NEW q, q = Idle \/ Waiting(r, q), NEW p \in Enter(r, q)
    PROVE  RequestInv(r, p)
<1> DEFINE o == [q EXCEPT !.attempt = @ + 1]
<1>1. /\ q \in RequestType /\ q.attempt \in Nat /\ q.model = 0 /\ ~q.inner /\ q.result = "none"
      /\ ~q.innerMuted /\ q.last = "none"
      /\ q.segment # "empty" => q.muted
      /\ q.attempt <= Retries \/ (q.stripped /\ q.attempt <= Retries + 1)
  <2>1. CASE q = Idle
    BY <2>1, IdleType, FallbackAssumption DEF Idle
  <2>2. CASE Waiting(r, q)
    BY <2>2 DEF Waiting, Open, RequestType
  <2>. QED  BY <2>1, <2>2
<1>2. Open(r, q)
  <2>1. CASE q = Idle
    BY <2>1, IdleType DEF Idle, Open
  <2>. QED  BY <2>1 DEF Waiting
<1>3. q.attempt + 1 \in 0..(Retries + 2)
  BY <1>1, FallbackAssumption
<1>4. /\ o \in RequestType /\ o.attempt = q.attempt + 1 /\ o.model = 0 /\ ~o.inner
      /\ o.result = "none" /\ o.muted = q.muted /\ o.innerMuted = q.innerMuted
      /\ o.segment = q.segment /\ o.streamed = q.streamed /\ o.stripped = q.stripped
  BY <1>1, <1>3 DEF RequestType
<1>5. p \in (IF PrimaryAvailable THEN {Call(o, 0)} ELSE Fallback(r, o, 1))
  BY DEF Enter
<1> HIDE DEF o
<1>6. Open(r, o) /\ Known(o) /\ Tried(o)
  BY <1>1, <1>2, <1>4, FallbackAssumption DEF Open, Known, Tried
<1>7. CASE PrimaryAvailable
  <2>1. 0 \in 0..Fallbacks
    BY FallbackAssumption
  <2>2. InCall(r, Call(o, 0))
    BY <1>4, <1>6, <2>1, CallResult
  <2>. QED  BY <1>5, <1>7, <2>2 DEF RequestInv
<1>8. CASE ~PrimaryAvailable
  <2>1. o.model + 1 = 1
    BY <1>4
  <2>2. p \in Fallback(r, o, o.model + 1)
    BY <1>5, <1>8, <2>1
  <2>. QED  BY <1>4, <1>6, <2>2, FallbackResult
<1>. QED  BY <1>7, <1>8

\* The primary has answered with an error.
LEMMA PrimaryErrorResult ==
    ASSUME NEW r \in Request, NEW q, InCall(r, q), q.model = 0,
           NEW error \in Error, error # "no_model", NEW p \in PrimaryError(r, q, error)
    PROVE  RequestInv(r, p)
<1>1. Open(r, q) /\ Tried(q) /\ Known(q) /\ q \in RequestType
  BY DEF InCall, Open
<1> DEFINE stop == error = "raised" \/ (q.inner /\ error # "timeout") \/ ~ShouldFallback(error)
           quiet == [q EXCEPT !.inner = FALSE, !.innerMuted = TRUE]
           closed == Recovered(q)
           o == IF ~q.inner THEN q ELSE IF Recovers(r) THEN closed ELSE quiet
<1>2. IF stop THEN p \in Fail(r, q, error) ELSE p \in Fallback(r, o, 1)
  BY Zenon DEF PrimaryError
<1>3. CASE stop
  <2>1. error \in {"raised", "fatal"} \/ (q.inner /\ error # "timeout")
    BY <1>3 DEF ShouldFallback, Error, Outcome
  <2>2. NoModelLeft(q, error)
    BY <2>1 DEF NoModelLeft
  <2>3. ~(q.inner /\ error = "timeout")  \/ ~Recovers(r) \/ Usable(q.model + 1) = {}
    BY <1>3, <2>1
  <2>4. Waiting(r, p) \/ Over(r, p)
    BY <1>1, <1>2, <1>3, <2>2, <2>3, FailResult
  <2>. QED  BY <2>4 DEF RequestInv
<1>4. CASE ~stop
  <2>1. /\ o \in RequestType /\ Open(r, o) /\ Tried(o) /\ Known(o) /\ ~o.inner /\ o.model = 0
    <3>1. CASE ~q.inner
      BY <1>1, <3>1
    <3>2. CASE q.inner /\ Recovers(r)
      <4>1. /\ closed \in RequestType /\ closed.segment = "empty" /\ ~closed.streamed
            /\ ~closed.inner /\ closed.model = q.model /\ closed.attempt = q.attempt
            /\ closed.muted = q.muted /\ closed.innerMuted = q.innerMuted
            /\ closed.stripped = q.stripped /\ closed.result = q.result
        BY <1>1, RecoveredFields
      <4>2. o = closed
        BY <3>2
      <4> HIDE DEF closed, o
      <4>3. Open(r, closed) /\ Tried(closed) /\ Known(closed)
        BY <1>1, <4>1 DEF Open, Tried, Known
      <4>. QED  BY <4>1, <4>2, <4>3
    <3>3. CASE q.inner /\ ~Recovers(r)
      <4>1. /\ quiet \in RequestType /\ ~quiet.inner /\ quiet.innerMuted
            /\ quiet.segment = q.segment /\ quiet.streamed = q.streamed
            /\ quiet.muted = q.muted /\ quiet.model = q.model /\ quiet.attempt = q.attempt
            /\ quiet.stripped = q.stripped /\ quiet.result = q.result
        BY <1>1 DEF RequestType
      <4>2. o = quiet
        BY <3>3
      <4> HIDE DEF quiet, o
      <4>3. Open(r, quiet) /\ Tried(quiet) /\ Known(quiet)
        BY <1>1, <3>3, <4>1 DEF Open, Tried, Known
      <4>. QED  BY <4>1, <4>2, <4>3
    <3>. QED  BY <3>1, <3>2, <3>3
  <2> HIDE DEF o
  <2>2. p \in Fallback(r, o, o.model + 1)
    <3>1. o.model + 1 = 1
      BY <2>1
    <3>. QED  BY <1>2, <1>4, <3>1
  <2>. QED  BY <2>1, <2>2, FallbackResult
<1>. QED  BY <1>3, <1>4

-----------------------------------------------------------------------------
(* Every step keeps the invariant.                                         *)

\* Text given by the model in call.
LEMMA AnsweredKeeps ==
    ASSUME NEW r \in Request, InCall(r, req[r]), NEW outcome \in Outcome,
           NEW text \in BOOLEAN
    PROVE  /\ InCall(r, Answered(r, outcome, text))
           /\ Answered(r, outcome, text).model = req[r].model
<1> DEFINE q == req[r]
           t == IF text /\ Streams(r) THEN Text(q) ELSE q
           a == IF outcome = "ok" THEN t ELSE [t EXCEPT !.heard = outcome]
<1>1. /\ q \in RequestType /\ InCall(r, q)
  BY DEF InCall, Open
<1>2. Answered(r, outcome, text) = a
  BY DEF Answered
<1> HIDE DEF q
<1>3. InCall(r, t) /\ t.model = q.model /\ t \in RequestType
  <2>1. CASE ~(text /\ Streams(r)) \/ q.innerMuted
    BY <1>1, <2>1 DEF Text
  <2>2. CASE text /\ Streams(r) /\ ~q.innerMuted /\ q.muted
    <3> DEFINE u == [q EXCEPT !.inner = TRUE]
    <3>1. t = u
      BY <2>2 DEF Text
    <3>2. /\ u \in RequestType /\ u.inner /\ u.pc = q.pc /\ u.model = q.model
          /\ u.attempt = q.attempt /\ u.streamed = q.streamed /\ u.muted = q.muted
          /\ u.innerMuted = q.innerMuted /\ u.segment = q.segment
          /\ u.stripped = q.stripped /\ u.result = q.result
      BY <1>1 DEF RequestType
    <3> HIDE DEF u, t
    <3>. QED  BY <1>1, <2>2, <3>1, <3>2 DEF InCall, Open, Known, Tried
  <2>3. CASE text /\ Streams(r) /\ ~q.innerMuted /\ ~q.muted
    <3> DEFINE u == [q EXCEPT !.inner = TRUE, !.streamed = TRUE,
                              !.segment = IF @ \in {"empty", "this"} THEN "this" ELSE "mixed"]
    <3>1. t = u
      BY <2>3 DEF Text
    <3>2. q.segment \in {"empty", "this"}
      BY <1>1, <2>3 DEF InCall, Open, RequestType
    <3>3. /\ u \in RequestType /\ u.inner /\ u.pc = q.pc /\ u.model = q.model
          /\ u.attempt = q.attempt /\ u.streamed /\ u.muted = q.muted
          /\ u.innerMuted = q.innerMuted /\ u.segment = "this"
          /\ u.stripped = q.stripped /\ u.result = q.result
      BY <1>1, <3>2 DEF RequestType
    <3> HIDE DEF u, t
    <3>. QED  BY <1>1, <2>3, <3>1, <3>3 DEF InCall, Open, Known, Tried
  <2>. QED  BY <2>1, <2>2, <2>3
<1> HIDE DEF t
<1>4. CASE outcome = "ok"
  BY <1>2, <1>3, <1>4 DEF q
<1>5. CASE outcome # "ok"
  <2> DEFINE u == [t EXCEPT !.heard = outcome]
  <2>1. outcome \in Error
    BY <1>5 DEF Error
  <2>2. /\ u \in RequestType /\ u.inner = t.inner /\ u.pc = t.pc /\ u.model = t.model
        /\ u.attempt = t.attempt /\ u.streamed = t.streamed /\ u.muted = t.muted
        /\ u.innerMuted = t.innerMuted /\ u.segment = t.segment
        /\ u.stripped = t.stripped /\ u.result = t.result
    BY <1>3, <2>1 DEF RequestType
  <2>3. a = u
    BY <1>5
  <2> HIDE DEF u, a
  <2>4. InCall(r, u)
    BY <1>3, <2>2 DEF InCall, Open, Known, Tried
  <2>. QED  BY <1>2, <1>3, <2>2, <2>3, <2>4 DEF q
<1>. QED  BY <1>4, <1>5

\* The record is well typed whatever the request is doing.
LEMMA InvType ==
    ASSUME NEW r \in Request, NEW q, RequestInv(r, q)
    PROVE  q \in RequestType
BY IdleType DEF RequestInv, InCall, Waiting, Over, Open

\* A step that changes the record of one request.
LEMMA OneKept ==
    ASSUME FallbackInv, NEW r \in Request, NEW q, RequestInv(r, q),
           req' = [req EXCEPT ![r] = q]
    PROVE  /\ req' \in [Request -> RequestType]
           /\ \A s \in Request : RequestInv(s, req'[s])
<1>1. q \in RequestType
  BY InvType
<1>. QED  BY <1>1 DEF FallbackInv, TypeOK

LEMMA SuccessResult ==
    ASSUME NEW r \in Request, NEW q, InCall(r, q)
    PROVE  Over(r, [Idle EXCEPT !.pc = "done", !.result = "ok", !.segment = q.segment])
<1> DEFINE p == [Idle EXCEPT !.pc = "done", !.result = "ok", !.segment = q.segment]
<1>1. /\ q.segment \in {"empty", "this", "earlier"}
      /\ Recovers(r) => q.segment \in {"empty", "this"}
  BY DEF InCall, Open, RequestType
<1>0. 0 \in 0..Fallbacks /\ 0 \in 0..(Retries + 2)
  BY FallbackAssumption
<1>5. p \in RequestType
  BY <1>0, <1>1 DEF Idle, RequestType
<1>2. p \in RequestType /\ p.pc = "done" /\ p.result = "ok" /\ p.segment = q.segment
  BY <1>5 DEF Idle
<1> HIDE DEF p
<1>3. "ok" \notin Error
  BY DEF Error, Outcome
<1>4. Over(r, p)
  BY <1>1, <1>2, <1>3 DEF Over
<1>. QED  BY <1>4 DEF p

LEMMA CancelResult ==
    ASSUME NEW r \in Request
    PROVE  Over(r, [Idle EXCEPT !.pc = "done", !.result = "cancelled"])
<1> DEFINE p == [Idle EXCEPT !.pc = "done", !.result = "cancelled"]
<1>0. 0 \in 0..Fallbacks /\ 0 \in 0..(Retries + 2)
  BY FallbackAssumption
<1>5. p \in RequestType
  BY <1>0 DEF Idle, RequestType
<1>1. p \in RequestType /\ p.pc = "done" /\ p.result = "cancelled" /\ p.segment = "empty"
  BY <1>5 DEF Idle
<1> HIDE DEF p
<1>2. "cancelled" \notin Error
  BY DEF Error, Outcome
<1>3. Over(r, p)
  BY <1>1, <1>2 DEF Over
<1>. QED  BY <1>3 DEF p

LEMMA StartKeeps ==
    ASSUME FallbackInv, NEW r \in Request, Start(r)
    PROVE  FallbackInv'
<1>1. req[r].pc \in {"idle", "retry"} /\ UNCHANGED <<failures, tripped, now>>
  BY DEF Start
<1>2. PICK p \in Enter(r, req[r]) : req' = [req EXCEPT ![r] = p]
  BY DEF Start, Become
<1>3. req[r] = Idle \/ Waiting(r, req[r])
  BY <1>1 DEF FallbackInv, RequestInv, InCall, Over
<1>4. RequestInv(r, p)
  BY <1>3, EnterResult
<1>5. /\ req' \in [Request -> RequestType]
      /\ \A s \in Request : RequestInv(s, req'[s])
  BY <1>2, <1>4, OneKept
<1>. QED  BY <1>1, <1>5 DEF FallbackInv, TypeOK

LEMMA PrimaryAnswersKeeps ==
    ASSUME FallbackInv, NEW r \in Request, NEW outcome \in Outcome, NEW text \in BOOLEAN,
           PrimaryAnswers(r, outcome, text)
    PROVE  FallbackInv'
<1> DEFINE q == Answered(r, outcome, text)
           counted == ShouldFallback(outcome) /\ (q.inner => outcome = "timeout")
<1>1. /\ req[r].pc = "calling" /\ req[r].model = 0 /\ now' = now
      /\ IF outcome = "ok"
         THEN Success(r, q) /\ failures' = 0 /\ tripped' = NotTripped
         ELSE /\ Become(r, PrimaryError(r, q, outcome))
              /\ failures' = IF counted THEN failures + 1 ELSE failures
              /\ tripped' = IF counted /\ failures + 1 >= Threshold THEN now ELSE tripped
  BY DEF PrimaryAnswers
<1>2. InCall(r, req[r])
  BY <1>1 DEF FallbackInv, RequestInv, Idle, Waiting, Over
<1>3. InCall(r, q) /\ q.model = 0
  BY <1>1, <1>2, AnsweredKeeps
<1> HIDE DEF q
<1>4. failures' \in Nat /\ now' \in 0..MaxTime /\ tripped' \in (0..now') \cup {NotTripped}
  BY <1>1, FallbackAssumption DEF FallbackInv, TypeOK
<1>5. \E p : RequestInv(r, p) /\ req' = [req EXCEPT ![r] = p]
  <2>1. CASE outcome = "ok"
    BY <1>1, <1>3, <2>1, SuccessResult DEF Success, RequestInv
  <2>2. CASE outcome # "ok"
    <3>1. PICK p \in PrimaryError(r, q, outcome) : req' = [req EXCEPT ![r] = p]
      BY <1>1, <2>2 DEF Become
    <3>2. outcome \in Error /\ outcome # "no_model"
      BY <2>2 DEF Error, Outcome
    <3>3. RequestInv(r, p)
      BY <1>3, <3>2, PrimaryErrorResult
    <3>. QED  BY <3>1, <3>3
  <2>. QED  BY <2>1, <2>2
<1>6. /\ req' \in [Request -> RequestType]
      /\ \A s \in Request : RequestInv(s, req'[s])
  BY <1>5, OneKept
<1>. QED  BY <1>4, <1>6 DEF FallbackInv, TypeOK

LEMMA FallbackAnswersKeeps ==
    ASSUME FallbackInv, NEW r \in Request, NEW outcome \in Outcome, NEW text \in BOOLEAN,
           FallbackAnswers(r, outcome, text)
    PROVE  FallbackInv'
<1> DEFINE q == Answered(r, outcome, text)
           l == [q EXCEPT !.last = outcome]
<1>1. /\ req[r].pc = "calling" /\ UNCHANGED <<failures, tripped, now>>
      /\ IF outcome = "ok" THEN Success(r, q)
         ELSE IF outcome = "raised" THEN Become(r, Fail(r, q, outcome))
         ELSE Become(r, Fallback(r, l, q.model + 1))
  BY DEF FallbackAnswers
<1>2. InCall(r, req[r])
  BY <1>1 DEF FallbackInv, RequestInv, Idle, Waiting, Over
<1>3. InCall(r, q) /\ q \in RequestType
  BY <1>2, AnsweredKeeps DEF InCall, Open
<1> HIDE DEF q
<1>4. CASE outcome = "ok"
  <2>1. \E p : RequestInv(r, p) /\ req' = [req EXCEPT ![r] = p]
    BY <1>1, <1>3, <1>4, SuccessResult DEF Success, RequestInv
  <2>. QED  BY <1>1, <2>1, OneKept DEF FallbackInv, TypeOK
<1>5. CASE outcome = "raised"
  <2>1. PICK p \in Fail(r, q, outcome) : req' = [req EXCEPT ![r] = p]
    BY <1>1, <1>5 DEF Become
  <2>2. outcome \in Error /\ NoModelLeft(q, outcome)
    BY <1>5 DEF Error, Outcome, NoModelLeft
  <2>3. ~(q.inner /\ outcome = "timeout" /\ Recovers(r))
    BY <1>5
  <2>4. Waiting(r, p) \/ Over(r, p)
    BY <1>3, <2>2, <2>3, FailResult DEF InCall
  <2>. QED  BY <1>1, <2>1, <2>4, OneKept DEF RequestInv, FallbackInv, TypeOK
<1>6. CASE outcome \notin {"ok", "raised"}
  <2>1. outcome \in Error /\ outcome # "none"
    BY <1>6 DEF Error, Outcome
  <2>2. /\ l \in RequestType /\ l.last = outcome /\ l.inner = q.inner /\ l.model = q.model
        /\ l.attempt = q.attempt /\ l.streamed = q.streamed /\ l.muted = q.muted
        /\ l.innerMuted = q.innerMuted /\ l.segment = q.segment
        /\ l.stripped = q.stripped /\ l.result = q.result
    BY <1>3, <2>1 DEF RequestType
  <2>3. PICK p \in Fallback(r, l, q.model + 1) : req' = [req EXCEPT ![r] = p]
    BY <1>1, <1>6 DEF Become
  <2> HIDE DEF l
  <2>4. Open(r, l) /\ Tried(l) /\ Known(l)
    BY <1>3, <2>2 DEF InCall, Open, Known, Tried
  <2>5. p \in Fallback(r, l, l.model + 1)
    BY <2>2, <2>3
  <2>6. RequestInv(r, p)
    BY <2>1, <2>2, <2>4, <2>5, FallbackResult
  <2>. QED  BY <1>1, <2>3, <2>6, OneKept DEF FallbackInv, TypeOK
<1>. QED  BY <1>4, <1>5, <1>6

LEMMA FallbackStep ==
    ASSUME FallbackInv, [Next]_vars
    PROVE  FallbackInv'
<1>1. ASSUME NEW r \in Request, Start(r) PROVE FallbackInv'
  BY <1>1, StartKeeps
<1>2. ASSUME NEW r \in Request, Answers(r) PROVE FallbackInv'
  BY <1>2, PrimaryAnswersKeeps, FallbackAnswersKeeps DEF Answers
<1>3. ASSUME NEW r \in Request, Cancel(r) PROVE FallbackInv'
  <2>1. \E p : RequestInv(r, p) /\ req' = [req EXCEPT ![r] = p]
    BY <1>3, CancelResult DEF Cancel, RequestInv
  <2>. QED  BY <1>3, <2>1, OneKept DEF Cancel, FallbackInv, TypeOK
<1>4. CASE Tick
  <2>1. /\ now' \in 0..MaxTime /\ tripped' \in (0..now') \cup {NotTripped}
    BY <1>4, FallbackAssumption DEF Tick, FallbackInv, TypeOK
  <2>. QED  BY <1>4, <2>1 DEF Tick, FallbackInv, TypeOK
<1>5. CASE UNCHANGED vars
  BY <1>5 DEF vars, FallbackInv, TypeOK
<1>. QED  BY <1>1, <1>2, <1>3, <1>4, <1>5 DEF Next

LEMMA FallbackAlways == Spec => []FallbackInv
<1>1. Init => FallbackInv
  BY IdleType, FallbackAssumption DEF Init, FallbackInv, TypeOK, RequestInv
<1>2. FallbackInv /\ [Next]_vars => FallbackInv'
  BY FallbackStep
<1>. QED  BY <1>1, <1>2, PTL DEF Spec

-----------------------------------------------------------------------------
(* What both levels promise.                                               *)

\* A request makes at most one attempt more than there are delays, and one
\* more without its images; the breaker is never tripped in the future.
THEOREM RequestTypes == Spec => []TypeOK
<1>1. FallbackInv => TypeOK
  BY DEF FallbackInv
<1>. QED  BY <1>1, FallbackAlways, PTL

\* Neither a fallback nor a retry writes into a segment of the stream that
\* holds the text of another call, and a request that can reopen its stream
\* ends with the text of the call that answered it alone.
THEOREM SegmentsHoldOneAnswer == Spec => []OneAnswerPerSegment
<1>1. FallbackInv => OneAnswerPerSegment
  <2>. SUFFICES ASSUME FallbackInv, NEW r \in Request
                PROVE  /\ req[r].segment # "mixed"
                       /\ req[r].result = "ok" /\ Recovers(r) =>
                             req[r].segment \in {"empty", "this"}
    BY DEF OneAnswerPerSegment
  <2>1. RequestInv(r, req[r])
    BY DEF FallbackInv
  <2>. QED  BY <2>1 DEF RequestInv, Idle, InCall, Waiting, Over, Open
<1>. QED  BY <1>1, FallbackAlways, PTL

\* A request fails only when its text cannot be taken back, or when every model
\* and every attempt has been used that the error allows.
THEOREM FailuresAreFinal == Spec => []FailsOnlyAtTheEnd
<1>1. FallbackInv => FailsOnlyAtTheEnd
  <2>. SUFFICES ASSUME FallbackInv, NEW r \in Request, req[r].pc = "done",
                       req[r].result \in Error
                PROVE  \/ req[r].segment # "empty" /\ ~req[r].muted
                       \/ /\ NoModelLeft(req[r], req[r].result)
                          /\ NoAttemptLeft(r, req[r], req[r].result)
    BY DEF FailsOnlyAtTheEnd, NoModelLeft, NoAttemptLeft
  <2>1. RequestInv(r, req[r])
    BY DEF FallbackInv
  <2>. QED  BY <2>1 DEF RequestInv, Idle, InCall, Waiting, Over
<1>. QED  BY <1>1, FallbackAlways, PTL
=============================================================================
