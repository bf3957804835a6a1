------------------------- MODULE TurnDispatchProofs -------------------------
(***************************************************************************)
(* Proofs about TurnDispatch, for every set of sessions and messages and   *)
(* every capacity.                                                         *)
(***************************************************************************)
EXTENDS TurnDispatch, SequenceTheorems, TLAPS

-----------------------------------------------------------------------------
(* Facts about the elements of a queue.                                    *)

\* The elements of a queue after put.
LEMMA ElementsAppend ==
    ASSUME NEW S, NEW q \in Seq(S), NEW e \in S
    PROVE  /\ Append(q, e) \in Seq(S)
           /\ Len(Append(q, e)) = Len(q) + 1
           /\ Elements(Append(q, e)) = Elements(q) \cup {e}
           /\ NoRepeat(q) /\ e \notin Elements(q) => NoRepeat(Append(q, e))
BY AppendProperties DEF Elements, NoRepeat

\* The elements of a queue after get.
LEMMA ElementsTail ==
    ASSUME NEW S, NEW q \in Seq(S), q # <<>>
    PROVE  /\ Head(q) \in S
           /\ Tail(q) \in Seq(S)
           /\ Elements(q) = {Head(q)} \cup Elements(Tail(q))
           /\ NoRepeat(q) => NoRepeat(Tail(q)) /\ Head(q) \notin Elements(Tail(q))
<1>1. /\ Head(q) \in S /\ Head(q) = q[1]
      /\ Tail(q) \in Seq(S)
      /\ Len(q) \in Nat \ {0}
      /\ Len(Tail(q)) = Len(q) - 1
      /\ \A i \in 1..Len(Tail(q)) : Tail(q)[i] = q[i + 1]
  BY HeadTailProperties, EmptySeq
<1>2. Elements(q) = {Head(q)} \cup Elements(Tail(q))
  <2>1. ASSUME NEW x \in Elements(q) PROVE x \in {Head(q)} \cup Elements(Tail(q))
    <3>1. PICK i \in 1..Len(q) : x = q[i]
      BY <2>1 DEF Elements
    <3>2. CASE i = 1
      BY <3>1, <3>2, <1>1
    <3>3. CASE i # 1
      <4>1. i - 1 \in 1..Len(Tail(q)) /\ Tail(q)[i - 1] = q[i]
        BY <3>3, <1>1
      <4>. QED  BY <4>1, <3>1 DEF Elements
    <3>. QED  BY <3>2, <3>3
  <2>2. ASSUME NEW x \in Elements(Tail(q)) PROVE x \in Elements(q)
    <3>1. PICK i \in 1..Len(Tail(q)) : x = Tail(q)[i]
      BY <2>2 DEF Elements
    <3>2. i + 1 \in 1..Len(q) /\ x = q[i + 1]
      BY <3>1, <1>1
    <3>. QED  BY <3>2 DEF Elements
  <2>3. Head(q) \in Elements(q)
    BY <1>1 DEF Elements
  <2>. QED  BY <2>1, <2>2, <2>3
<1>3. ASSUME NoRepeat(q) PROVE NoRepeat(Tail(q)) /\ Head(q) \notin Elements(Tail(q))
  BY <1>1, <1>3 DEF NoRepeat, Elements
<1>. QED  BY <1>1, <1>2, <1>3

\* The elements of a queue after another was appended to it.
LEMMA ElementsConcat ==
    ASSUME NEW S, NEW q \in Seq(S), NEW r \in Seq(S)
    PROVE  /\ q \o r \in Seq(S)
           /\ Elements(q \o r) = Elements(q) \cup Elements(r)
           /\ NoRepeat(q) /\ NoRepeat(r) /\ Elements(q) \cap Elements(r) = {}
              => NoRepeat(q \o r)
<1>1. /\ q \o r \in Seq(S)
      /\ Len(q \o r) = Len(q) + Len(r)
      /\ \A i \in 1..Len(q) + Len(r) :
           (q \o r)[i] = IF i <= Len(q) THEN q[i] ELSE r[i - Len(q)]
      /\ Len(q) \in Nat /\ Len(r) \in Nat
  BY ConcatProperties, LenProperties
<1>2. \A i \in 1..Len(q) : i \in 1..Len(q \o r) /\ (q \o r)[i] = q[i]
  BY <1>1
<1>3. \A i \in 1..Len(r) : Len(q) + i \in 1..Len(q \o r) /\ (q \o r)[Len(q) + i] = r[i]
  BY <1>1
<1>4. \A i \in 1..Len(q \o r) : \/ i \in 1..Len(q) /\ (q \o r)[i] = q[i]
                                \/ i - Len(q) \in 1..Len(r) /\ (q \o r)[i] = r[i - Len(q)]
  BY <1>1
<1>5. Elements(q \o r) = Elements(q) \cup Elements(r)
  <2>1. ASSUME NEW x \in Elements(q \o r) PROVE x \in Elements(q) \cup Elements(r)
    BY <2>1, <1>4 DEF Elements
  <2>2. ASSUME NEW x \in Elements(q) PROVE x \in Elements(q \o r)
    BY <2>2, <1>2 DEF Elements
  <2>3. ASSUME NEW x \in Elements(r) PROVE x \in Elements(q \o r)
    <3>1. PICK i \in 1..Len(r) : x = r[i]
      BY <2>3 DEF Elements
    <3>. QED  BY <3>1, <1>3 DEF Elements
  <2>. QED  BY <2>1, <2>2, <2>3
<1>6. ASSUME NoRepeat(q), NoRepeat(r), Elements(q) \cap Elements(r) = {},
             NEW i \in 1..Len(q \o r), NEW j \in 1..Len(q \o r),
             (q \o r)[i] = (q \o r)[j]
      PROVE  i = j
  <2>1. CASE i \in 1..Len(q) /\ j \in 1..Len(q)
    BY <2>1, <1>2, <1>6 DEF NoRepeat
  <2>2. CASE i - Len(q) \in 1..Len(r) /\ j - Len(q) \in 1..Len(r)
    <3>1. (q \o r)[i] = r[i - Len(q)] /\ (q \o r)[j] = r[j - Len(q)]
      BY <2>2, <1>4, <1>1
    <3>2. i - Len(q) = j - Len(q)
      BY <3>1, <2>2, <1>6 DEF NoRepeat
    <3>. QED  BY <3>2, <1>1
  <2>3. CASE i \in 1..Len(q) /\ j - Len(q) \in 1..Len(r)
    <3>1. q[i] = r[j - Len(q)]
      BY <2>3, <1>6, <1>4, <1>1
    <3>2. q[i] \in Elements(q) /\ r[j - Len(q)] \in Elements(r)
      BY <2>3 DEF Elements
    <3>. QED  BY <3>1, <3>2, <1>6
  <2>4. CASE i - Len(q) \in 1..Len(r) /\ j \in 1..Len(q)
    <3>1. r[i - Len(q)] = q[j]
      BY <2>4, <1>6, <1>4, <1>1
    <3>2. q[j] \in Elements(q) /\ r[i - Len(q)] \in Elements(r)
      BY <2>4 DEF Elements
    <3>. QED  BY <3>1, <3>2, <1>6
  <2>. QED  BY <2>1, <2>2, <2>3, <2>4, <1>4
<1>. QED  BY <1>1, <1>5, <1>6 DEF NoRepeat

\* A queue split after its first n elements.
LEMMA ElementsSplit ==
    ASSUME NEW S, NEW q \in Seq(S), NEW n \in 0..Len(q)
    PROVE  /\ SubSeq(q, 1, n) \in Seq(S) /\ SubSeq(q, n + 1, Len(q)) \in Seq(S)
           /\ Len(SubSeq(q, n + 1, Len(q))) = Len(q) - n
           /\ Elements(q) = Elements(SubSeq(q, 1, n)) \cup Elements(SubSeq(q, n + 1, Len(q)))
           /\ NoRepeat(q) =>
                /\ NoRepeat(SubSeq(q, n + 1, Len(q)))
                /\ Elements(SubSeq(q, 1, n)) \cap Elements(SubSeq(q, n + 1, Len(q))) = {}
<1>. DEFINE a == SubSeq(q, 1, n)
            b == SubSeq(q, n + 1, Len(q))
<1>0. Len(q) \in Nat /\ n \in Nat /\ n <= Len(q) /\ \A i \in 1..Len(q) : q[i] \in S
  BY LenProperties, ElementOfSeq
<1>1. a \in Seq(S) /\ Len(a) = n /\ \A i \in 1..n : a[i] = q[i]
  <2>1. \A i \in 1..n : q[i] \in S
    BY <1>0
  <2>. QED  BY <2>1, <1>0, SubSeqProperties
<1>2. b \in Seq(S) /\ Len(b) = Len(q) - n /\ \A i \in 1..Len(q) - n : b[i] = q[n + i]
  <2>1. \A i \in n + 1..Len(q) : q[i] \in S
    BY <1>0
  <2>2. /\ b \in Seq(S)
        /\ Len(b) = IF n + 1 <= Len(q) THEN Len(q) - (n + 1) + 1 ELSE 0
        /\ \A i \in 1..Len(q) - (n + 1) + 1 : b[i] = q[(n + 1) + i - 1]
    BY <2>1, <1>0, SubSeqProperties
  <2>. QED  BY <2>2, <1>0
<1>. HIDE DEF a, b
<1>3. Elements(q) = Elements(a) \cup Elements(b)
  <2>1. ASSUME NEW x \in Elements(q) PROVE x \in Elements(a) \cup Elements(b)
    <3>1. PICK i \in 1..Len(q) : x = q[i]
      BY <2>1 DEF Elements
    <3>2. CASE i <= n
      BY <3>1, <3>2, <1>0, <1>1 DEF Elements
    <3>3. CASE i > n
      <4>1. i - n \in 1..Len(b) /\ b[i - n] = q[i]
        BY <3>3, <1>0, <1>2
      <4>. QED  BY <4>1, <3>1 DEF Elements
    <3>. QED  BY <3>2, <3>3, <1>0
  <2>2. ASSUME NEW x \in Elements(a) PROVE x \in Elements(q)
    BY <2>2, <1>0, <1>1 DEF Elements
  <2>3. ASSUME NEW x \in Elements(b) PROVE x \in Elements(q)
    <3>1. PICK i \in 1..Len(b) : x = b[i]
      BY <2>3 DEF Elements
    <3>2. n + i \in 1..Len(q) /\ x = q[n + i]
      BY <3>1, <1>0, <1>2
    <3>. QED  BY <3>2 DEF Elements
  <2>. QED  BY <2>1, <2>2, <2>3
<1>4. ASSUME NoRepeat(q) PROVE NoRepeat(b) /\ Elements(a) \cap Elements(b) = {}
  <2>1. NoRepeat(b)
    <3>. SUFFICES ASSUME NEW i \in 1..Len(b), NEW j \in 1..Len(b), b[i] = b[j]
                  PROVE  i = j
      BY DEF NoRepeat
    <3>1. n + i \in 1..Len(q) /\ n + j \in 1..Len(q) /\ q[n + i] = q[n + j]
      BY <1>0, <1>2
    <3>2. n + i = n + j
      BY <3>1, <1>4 DEF NoRepeat
    <3>. QED  BY <3>2, <1>0, <1>2
  <2>2. ASSUME NEW i \in 1..Len(a), NEW j \in 1..Len(b), a[i] = b[j] PROVE FALSE
    <3>1. i \in 1..Len(q) /\ n + j \in 1..Len(q) /\ q[i] = q[n + j] /\ i # n + j
      BY <2>2, <1>0, <1>1, <1>2
    <3>. QED  BY <3>1, <1>4 DEF NoRepeat
  <2>. QED  BY <2>1, <2>2 DEF Elements
<1>. QED  BY <1>1, <1>2, <1>3, <1>4 DEF a, b

-----------------------------------------------------------------------------
(* Type correctness.                                                       *)

\* A move of some messages keeps place well typed.
LEMMA MovedType ==
    ASSUME TypeOK, NEW S, NEW to \in Place
    PROVE  Moved(S, to) \in [Msg -> Place]
BY DEF Moved, TypeOK

LEMMA ConsumeType ==
    ASSUME TypeOK, NEW m \in Msg, Consume(m)
    PROVE  inbound' \in Seq(Msg)
BY HeadTailProperties DEF Consume, TypeOK

LEMMA BeginCancelType ==
    ASSUME TypeOK, NEW c \in Canceller, NEW s \in Session, BeginCancel(c, s)
    PROVE  /\ canceller' \in [Canceller -> CancelJob]
           /\ cancelled' \subseteq Msg
           /\ active' \in [Session -> SUBSET Msg]
<1>1. active[s] \in SUBSET Msg
  BY DEF TypeOK
<1>2. [stage |-> "tasks", key |-> s, waits |-> active[s]] \in CancelJob
  BY <1>1 DEF CancelJob
<1>. QED  BY <1>1, <1>2 DEF BeginCancel, TypeOK

LEMMA NextDeferredType ==
    ASSUME TypeOK, NEW s \in Session
    PROVE  NextDeferred(s) \in Seq(Automation) /\ PopDeferred(s) \in Seq(Automation)
<1>1. deferred[s] \in Seq(Automation)
  BY DEF TypeOK
<1>2. CASE deferred[s] = <<>>
  BY <1>2 DEF NextDeferred, PopDeferred
<1>3. CASE deferred[s] # <<>>
  <2>1. Head(deferred[s]) \in Automation /\ Tail(deferred[s]) \in Seq(Automation)
    BY <1>1, <1>3, HeadTailProperties
  <2>. QED  BY <2>1, <1>3 DEF NextDeferred, PopDeferred
<1>. QED  BY <1>2, <1>3

\* What a finished turn republishes is a queue of messages.
LEMMA BackType ==
    ASSUME TypeOK, NEW t \in Msg, NEW s \in Session
    PROVE  /\ NextDeferred(s) \in Seq(Msg)
           /\ box[t] \in Seq(Msg)
           /\ box[t] \o NextDeferred(s) \in Seq(Msg)
           /\ inbound \o NextDeferred(s) \in Seq(Msg)
           /\ inbound \o (box[t] \o NextDeferred(s)) \in Seq(Msg)
<1>1. box[t] \in Seq(User \cup System) /\ inbound \in Seq(Msg)
  BY DEF TypeOK
<1>2. box[t] \in Seq(Msg)
  BY <1>1, SeqMonotonic, User \cup System \subseteq Msg DEF Msg
<1>3. NextDeferred(s) \in Seq(Msg)
  BY NextDeferredType, SeqMonotonic, Automation \subseteq Msg DEF Msg
<1>4. box[t] \o NextDeferred(s) \in Seq(Msg)
  BY <1>2, <1>3, ConcatProperties
<1>. QED  BY <1>1, <1>2, <1>3, <1>4, ConcatProperties

LEMMA KeyType == \A m \in Msg : Key[m] \in Session
BY DispatchAssumption

LEMMA InitType == Init => TypeOK
<1>. SUFFICES ASSUME Init PROVE TypeOK
  OBVIOUS
<1>. USE DispatchAssumption DEF Init
<1>1. place \in [Msg -> Place]
  BY DEF Place
<1>2. inbound \in Seq(Msg) /\ deferred \in [Session -> Seq(Automation)]
  OBVIOUS
<1>3. box \in [Msg -> Seq(User \cup System)] /\ \A t \in Msg : Len(box[t]) <= PendingCap
  OBVIOUS
<1>4. canceller \in [Canceller -> CancelJob]
  <2>1. (CHOOSE s \in Session : TRUE) \in Session
    OBVIOUS
  <2>2. \A s \in Session : Idle(s) \in CancelJob
    BY DEF Idle, CancelJob
  <2>. QED  BY <2>1, <2>2
<1>. QED  BY <1>1, <1>2, <1>3, <1>4 DEF TypeOK

LEMMA FinishType ==
    ASSUME TypeOK, NEW t \in Msg, NEW outcome \in {"ok", "error"}, Finish(t, outcome)
    PROVE  /\ place' \in [Msg -> Place]
           /\ inbound' \in Seq(Msg)
           /\ deferred' \in [Session -> Seq(Automation)]
           /\ box' \in [Msg -> Seq(User \cup System)]
           /\ \A u \in Msg : Len(box'[u]) <= PendingCap
           /\ reg' \in [Session -> Msg \cup {NoTask}]
           /\ ahead' \in [Msg -> SUBSET Msg]
           /\ active' \in [Session -> SUBSET Msg]
           /\ cancelled' \subseteq Msg
           /\ waiter' \in [Automation -> {"none", "pending", "ok", "error"}]
           /\ canceller' \in [Canceller -> CancelJob]
<1>. Key[t] \in Session
  BY KeyType
<1>1. place' \in [Msg -> Place]
  BY DEF Finish, TypeOK, Place
<1>2. inbound' \in Seq(Msg)
  BY BackType DEF Finish
<1>3. deferred' \in [Session -> Seq(Automation)]
  BY NextDeferredType DEF Finish, TypeOK
<1>4. /\ box' \in [Msg -> Seq(User \cup System)]
      /\ \A u \in Msg : Len(box'[u]) <= PendingCap
  BY DispatchAssumption DEF Finish, TypeOK
<1>5. reg' \in [Session -> Msg \cup {NoTask}]
  BY DEF Finish, Withdraw, TypeOK
<1>6. ahead' \in [Msg -> SUBSET Msg] /\ active' \in [Session -> SUBSET Msg]
  BY DEF Finish, Release, TypeOK
<1>7. waiter' \in [Automation -> {"none", "pending", "ok", "error"}]
  BY DEF Finish, Answer, TypeOK
<1>8. cancelled' \subseteq Msg /\ canceller' \in [Canceller -> CancelJob]
  BY DEF Finish, TypeOK
<1>. QED  BY <1>1, <1>2, <1>3, <1>4, <1>5, <1>6, <1>7, <1>8

LEMMA NextType == TypeOK /\ [Next]_vars => TypeOK'
<1>. SUFFICES ASSUME TypeOK, [Next]_vars PROVE TypeOK'
  OBVIOUS
<1>. USE KeyType
<1>1. ASSUME NEW m \in Msg, Send(m) PROVE TypeOK'
  BY <1>1, MovedType, AppendProperties DEF Send, TypeOK, Place
<1>2. ASSUME NEW m \in Msg, Submit(m) PROVE TypeOK'
  BY <1>2, MovedType, AppendProperties DEF Submit, TypeOK, Place
<1>3. ASSUME NEW m \in Msg, Announce(m) PROVE TypeOK'
  BY <1>3, MovedType, AppendProperties DEF Announce, TypeOK, Place
<1>4. ASSUME NEW m \in Automation, Abandon(m) PROVE TypeOK'
  BY <1>4 DEF Abandon, TypeOK
<1>5. ASSUME NEW t \in Msg, NEW m \in Msg, Spawn(t, m) PROVE TypeOK'
  BY <1>5, MovedType DEF Spawn, TypeOK, Place
<1>6. ASSUME NEW m \in Msg, StopCommand(m) PROVE TypeOK'
  <2>1. Loop \in Canceller
    BY DEF Canceller
  <2>. QED  BY <1>6, <2>1, MovedType, ConsumeType, BeginCancelType
            DEF StopCommand, TypeOK, Place
<1>7. ASSUME NEW m \in Msg, Defer(m) PROVE TypeOK'
  <2>1. Append(deferred[Key[m]], m) \in Seq(Automation)
    BY <1>7, AppendProperties DEF Defer, TypeOK
  <2>. QED  BY <1>7, <2>1, MovedType, ConsumeType DEF Defer, TypeOK, Place
<1>8. ASSUME NEW m \in Msg, RouteToTurn(m) PROVE TypeOK'
  <2>. DEFINE t == reg[Key[m]]
  <2>1. t \in Msg /\ Len(box[t]) < PendingCap /\ m \in User \cup System
    BY <1>8 DEF RouteToTurn, HasRoom, TypeOK
  <2>2. box[t] \in Seq(User \cup System)
    BY <2>1 DEF TypeOK
  <2>3. /\ Append(box[t], m) \in Seq(User \cup System)
        /\ Len(Append(box[t], m)) <= PendingCap
    BY <2>1, <2>2, AppendProperties, LenProperties, DispatchAssumption
  <2>4. box' = [box EXCEPT ![t] = Append(box[t], m)]
    BY <1>8 DEF RouteToTurn
  <2>5. /\ box' \in [Msg -> Seq(User \cup System)]
        /\ \A u \in Msg : Len(box'[u]) <= PendingCap
    BY <2>1, <2>3, <2>4 DEF TypeOK
  <2>. QED  BY <1>8, <2>5, MovedType, ConsumeType DEF RouteToTurn, TypeOK, Place
<1>9. ASSUME NEW m \in Msg, CreateTask(m) PROVE TypeOK'
  BY <1>9, MovedType, ConsumeType DEF CreateTask, TypeOK, Place
<1>10. ASSUME NEW c \in Canceller, CancelSubagents(c) PROVE TypeOK'
  <2>1. [canceller[c] EXCEPT !.stage = "purge"] \in CancelJob
    BY <1>10 DEF TypeOK, CancelJob
  <2>. QED  BY <1>10, <2>1, MovedType DEF CancelSubagents, TypeOK, Place
<1>11. ASSUME NEW c \in Canceller, DiscardQueue(c) PROVE TypeOK'
  <2>1. canceller[c].key \in Session /\ Idle(canceller[c].key) \in CancelJob
    BY DEF TypeOK, CancelJob, Idle
  <2>2. place' \in [Msg -> Place]
    BY <1>11, MovedType DEF DiscardQueue, TypeOK, Place
  <2>3. /\ box' \in [Msg -> Seq(User \cup System)]
        /\ \A u \in Msg : Len(box'[u]) <= PendingCap
    <3>1. \/ UNCHANGED box
          \/ box' = [box EXCEPT ![reg[canceller[c].key]] = <<>>]
      BY <1>11 DEF DiscardQueue
    <3>2. <<>> \in Seq(User \cup System) /\ Len(<<>>) <= PendingCap
      BY DispatchAssumption
    <3>. QED  BY <3>1, <3>2 DEF TypeOK
  <2>. QED  BY <1>11, <2>1, <2>2, <2>3 DEF DiscardQueue, TypeOK
<1>12. ASSUME NEW s \in Session, TimerExpires(s) PROVE TypeOK'
  <2>1. s \in Canceller
    BY DEF Canceller
  <2>. QED  BY <1>12, <2>1, BeginCancelType DEF TimerExpires, TypeOK
<1>13. ASSUME NEW t \in Msg, TaskStart(t) PROVE TypeOK'
  BY <1>13, MovedType DEF TaskStart, Holding, TypeOK, Place
<1>14. ASSUME NEW t \in Msg, TaskNeverStarts(t) PROVE TypeOK'
  BY <1>14, MovedType DEF TaskNeverStarts, TypeOK, Place
<1>15. ASSUME NEW t \in Msg, TaskAborts(t) PROVE TypeOK'
  <2>1. place' \in [Msg -> Place]
    BY <1>15 DEF TaskAborts, TypeOK, Place
  <2>2. inbound' \in Seq(Msg)
    BY <1>15, BackType DEF TaskAborts
  <2>3. deferred' \in [Session -> Seq(Automation)]
    <3>1. PopDeferred(Key[t]) \in Seq(Automation)
      BY NextDeferredType
    <3>. QED  BY <1>15, <3>1 DEF TaskAborts, TypeOK
  <2>4. ahead' \in [Msg -> SUBSET Msg] /\ active' \in [Session -> SUBSET Msg]
    BY <1>15 DEF TaskAborts, Release, TypeOK
  <2>. QED  BY <1>15, <2>1, <2>2, <2>3, <2>4 DEF TaskAborts, TypeOK
<1>16. ASSUME NEW t \in Msg, TurnBegin(t) PROVE TypeOK'
  <2>1. /\ box' \in [Msg -> Seq(User \cup System)]
        /\ \A u \in Msg : Len(box'[u]) <= PendingCap
    BY <1>16, DispatchAssumption DEF TurnBegin, TypeOK
  <2>. QED  BY <1>16, <2>1, MovedType DEF TurnBegin, TypeOK, Place
<1>17. ASSUME NEW t \in Msg, Drain(t) PROVE TypeOK'
  <2>. DEFINE n == Batch(t)
  <2>1. box[t] \in Seq(User \cup System) /\ Len(box[t]) \in Nat /\ Len(box[t]) <= PendingCap
    BY LenProperties DEF TypeOK
  <2>2. n \in 0..Len(box[t])
    BY <2>1, DispatchAssumption DEF Batch
  <2>3. /\ SubSeq(box[t], n + 1, Len(box[t])) \in Seq(User \cup System)
        /\ Len(SubSeq(box[t], n + 1, Len(box[t]))) = Len(box[t]) - n
    BY <2>1, <2>2, ElementsSplit
  <2>4. box' = [box EXCEPT ![t] = SubSeq(box[t], n + 1, Len(box[t]))]
    BY <1>17 DEF Drain, Unread
  <2>5. Len(box[t]) - n <= PendingCap
    BY <2>1, <2>2, DispatchAssumption
  <2>6. /\ box' \in [Msg -> Seq(User \cup System)]
        /\ \A u \in Msg : Len(box'[u]) <= PendingCap
    BY <2>3, <2>4, <2>5 DEF TypeOK
  <2>. QED  BY <1>17, <2>6, MovedType DEF Drain, TypeOK, Place
<1>18. ASSUME NEW t \in Msg, TurnEnds(t) PROVE TypeOK'
  <2>1. ASSUME NEW arm \in BOOLEAN, TurnReturns(t, arm) PROVE TypeOK'
    <3>1. timer' \in [Session -> BOOLEAN]
      BY <2>1 DEF TurnReturns, TypeOK
    <3>. QED  BY <2>1, <3>1, FinishType DEF TurnReturns, TypeOK
  <2>2. CASE TurnFails(t)
    BY <2>2, FinishType DEF TurnFails, TypeOK
  <2>3. CASE TurnInterrupted(t)
    BY <2>3, FinishType DEF TurnInterrupted, TypeOK
  <2>. QED  BY <1>18, <2>1, <2>2, <2>3 DEF TurnEnds
<1>19. CASE UNCHANGED vars
  BY <1>19 DEF vars, TypeOK
<1>. QED  BY <1>1, <1>2, <1>3, <1>4, <1>5, <1>6, <1>7, <1>8, <1>9, <1>10, <1>11, <1>12,
             <1>13, <1>14, <1>15, <1>16, <1>17, <1>18, <1>19 DEF Next, Route

\* Every variable keeps its type and no pending queue outgrows its capacity.
THEOREM TypeCorrect == Spec => []TypeOK
BY InitType, NextType, PTL DEF Spec

-----------------------------------------------------------------------------
(* Messages are conserved and every queue in use has an owner.             *)

\* The inductive invariant about the queues.
QueueInv == TypeOK /\ MessagesConserved /\ QueueHasOwner

Queued == {"inbound", "deferred", "boxed"}

\* A step that stops no turn and puts nothing in the queue of an idle task.
LEMMA OwnersKept ==
    ASSUME QueueInv, reg' = reg,
           \A t \in Msg : place[t] = "running" => place'[t] = "running",
           \A t \in Msg : box'[t] # <<>> => box[t] # <<>> \/ place[t] = "running"
    PROVE  QueueHasOwner'
<1>1. ASSUME NEW s \in Session, reg'[s] # NoTask
      PROVE  place'[reg'[s]] = "running" /\ Key[reg'[s]] = s
  <2>1. reg[s] \in Msg /\ reg[s] # NoTask
    BY <1>1 DEF QueueInv, TypeOK
  <2>. QED  BY <2>1 DEF QueueInv, QueueHasOwner
<1>2. ASSUME NEW t \in Msg, box'[t] # <<>> PROVE place'[t] = "running"
  BY <1>2 DEF QueueInv, QueueHasOwner
<1>. QED  BY <1>1, <1>2 DEF QueueHasOwner

\* Steps that move messages outside the queues.
LEMMA QueuesUntouched ==
    ASSUME QueueInv, UNCHANGED <<inbound, deferred, box, reg>>,
           NEW S, NEW to \in Place \ Queued, place' = Moved(S, to),
           \A m \in Msg : m \in S => place[m] \notin Queued \cup {"running"}
    PROVE  MessagesConserved' /\ QueueHasOwner'
<1>1. \A m \in Msg : place'[m] = IF m \in S THEN to ELSE place[m]
  BY DEF Moved
<1>2. \A m \in Msg : /\ place'[m] = "inbound" <=> place[m] = "inbound"
                     /\ place'[m] = "deferred" <=> place[m] = "deferred"
                     /\ place'[m] = "boxed" <=> place[m] = "boxed"
                     /\ place[m] = "running" => place'[m] = "running"
  BY <1>1 DEF Queued
<1>3. BusConserved'
  BY <1>2 DEF QueueInv, MessagesConserved, BusConserved
<1>4. DeferredConserved'
  BY <1>2 DEF QueueInv, MessagesConserved, DeferredConserved
<1>5. BoxesConserved'
  BY <1>2 DEF QueueInv, MessagesConserved, BoxesConserved
<1>6. QueueHasOwner'
  BY <1>2, OwnersKept
<1>. QED  BY <1>3, <1>4, <1>5, <1>6 DEF MessagesConserved

\* A message is published on the bus.
LEMMA Published ==
    ASSUME QueueInv, NEW m \in Msg, place[m] \in {"unsent", "brewing"},
           place' = Moved({m}, "inbound"), inbound' = Append(inbound, m),
           UNCHANGED <<deferred, box, reg>>
    PROVE  MessagesConserved' /\ QueueHasOwner'
<1>1. \A n \in Msg : place'[n] = IF n = m THEN "inbound" ELSE place[n]
  BY DEF Moved
<1>2. /\ Elements(inbound') = Elements(inbound) \cup {m}
      /\ NoRepeat(inbound) /\ m \notin Elements(inbound) => NoRepeat(inbound')
  BY ElementsAppend DEF QueueInv, TypeOK
<1>3. BusConserved'
  BY <1>1, <1>2 DEF QueueInv, MessagesConserved, BusConserved
<1>4. DeferredConserved'
  BY <1>1 DEF QueueInv, MessagesConserved, DeferredConserved
<1>5. BoxesConserved'
  BY <1>1 DEF QueueInv, MessagesConserved, BoxesConserved
<1>6. QueueHasOwner'
  BY <1>1, OwnersKept
<1>. QED  BY <1>3, <1>4, <1>5, <1>6 DEF MessagesConserved

\* What the run loop leaves on the bus when it takes a message.
LEMMA Consumed ==
    ASSUME QueueInv, NEW m \in Msg, Consume(m),
           NEW to \in Place \ {"inbound"}, place' = Moved({m}, to)
    PROVE  /\ BusConserved'
           /\ place[m] = "inbound"
           /\ \A n \in Msg : place'[n] = IF n = m THEN to ELSE place[n]
<1>1. \A n \in Msg : place'[n] = IF n = m THEN to ELSE place[n]
  BY DEF Moved
<1>2. /\ Elements(inbound) = {m} \cup Elements(inbound')
      /\ NoRepeat(inbound) => NoRepeat(inbound') /\ m \notin Elements(inbound')
  BY ElementsTail DEF Consume, QueueInv, TypeOK
<1>. QED  BY <1>1, <1>2 DEF QueueInv, MessagesConserved, BusConserved

\* A message leaves the bus for its own task, or is executed as a command.
LEMMA TakenFromBus ==
    ASSUME QueueInv, NEW m \in Msg, Consume(m),
           NEW to \in Place \ Queued, place' = Moved({m}, to),
           UNCHANGED <<deferred, box, reg>>
    PROVE  MessagesConserved' /\ QueueHasOwner'
<1>1. /\ BusConserved'
      /\ place[m] = "inbound"
      /\ \A n \in Msg : place'[n] = IF n = m THEN to ELSE place[n]
  BY Consumed DEF Queued
<1>2. DeferredConserved'
  BY <1>1 DEF QueueInv, MessagesConserved, DeferredConserved, Queued
<1>3. BoxesConserved'
  BY <1>1 DEF QueueInv, MessagesConserved, BoxesConserved, Queued
<1>4. QueueHasOwner'
  BY <1>1, OwnersKept
<1>. QED  BY <1>1, <1>2, <1>3, <1>4 DEF MessagesConserved

LEMMA DeferKeeps ==
    ASSUME QueueInv, NEW m \in Msg, Defer(m)
    PROVE  MessagesConserved' /\ QueueHasOwner'
<1>. DEFINE s == Key[m]
<1>1. s \in Session /\ m \in Automation
  BY KeyType DEF Defer
<1>2. /\ BusConserved'
      /\ place[m] = "inbound"
      /\ \A n \in Msg : place'[n] = IF n = m THEN "deferred" ELSE place[n]
  BY Consumed DEF Defer, Place
<1>3. deferred' = [deferred EXCEPT ![s] = Append(deferred[s], m)]
  BY DEF Defer
<1>4. deferred[s] \in Seq(Automation) /\ deferred \in [Session -> Seq(Automation)]
  BY <1>1 DEF QueueInv, TypeOK
<1>5. /\ Elements(Append(deferred[s], m)) = Elements(deferred[s]) \cup {m}
      /\ NoRepeat(deferred[s]) /\ m \notin Elements(deferred[s])
           => NoRepeat(Append(deferred[s], m))
  BY <1>1, <1>4, ElementsAppend
<1>6. m \notin Elements(deferred[s])
  BY <1>1, <1>2 DEF QueueInv, MessagesConserved, DeferredConserved
<1>7. \A r \in Session :
        /\ Elements(deferred'[r]) = IF r = s THEN Elements(deferred[s]) \cup {m}
                                    ELSE Elements(deferred[r])
        /\ NoRepeat(deferred[r]) => NoRepeat(deferred'[r])
  BY <1>1, <1>3, <1>4, <1>5, <1>6
<1>8. DeferredConserved'
  <2>1. \A r \in Session : NoRepeat(deferred'[r])
    BY <1>7 DEF QueueInv, MessagesConserved, DeferredConserved
  <2>2. ASSUME NEW n \in Msg, NEW r \in Session
        PROVE  n \in Elements(deferred'[r]) <=> place'[n] = "deferred" /\ Key[n] = r
    BY <1>1, <1>2, <1>6, <1>7 DEF QueueInv, MessagesConserved, DeferredConserved
  <2>. QED  BY <2>1, <2>2 DEF DeferredConserved
<1>9. BoxesConserved'
  <2>1. box' = box
    BY DEF Defer
  <2>. QED  BY <1>2, <2>1 DEF QueueInv, MessagesConserved, BoxesConserved
<1>10. QueueHasOwner'
  BY <1>2, OwnersKept DEF Defer
<1>. QED  BY <1>2, <1>8, <1>9, <1>10 DEF MessagesConserved

LEMMA RouteKeeps ==
    ASSUME QueueInv, NEW m \in Msg, RouteToTurn(m)
    PROVE  MessagesConserved' /\ QueueHasOwner'
<1>. DEFINE s == Key[m]
            t == reg[s]
<1>1. /\ s \in Session /\ m \in User \cup System
      /\ t \in Msg /\ place[t] = "running" /\ Key[t] = s
  BY KeyType DEF RouteToTurn, HasRoom, QueueInv, TypeOK, QueueHasOwner
<1>2. /\ BusConserved'
      /\ place[m] = "inbound"
      /\ \A n \in Msg : place'[n] = IF n = m THEN "boxed" ELSE place[n]
  BY Consumed DEF RouteToTurn, Place
<1>3. box' = [box EXCEPT ![t] = Append(box[t], m)]
  BY DEF RouteToTurn
<1>4. box[t] \in Seq(User \cup System) /\ box \in [Msg -> Seq(User \cup System)]
  BY <1>1 DEF QueueInv, TypeOK
<1>5. /\ Elements(Append(box[t], m)) = Elements(box[t]) \cup {m}
      /\ NoRepeat(box[t]) /\ m \notin Elements(box[t]) => NoRepeat(Append(box[t], m))
  BY <1>1, <1>4, ElementsAppend
<1>6. \A u \in Msg : m \notin Elements(box[u])
  BY <1>2 DEF QueueInv, MessagesConserved, BoxesConserved
<1>7. \A u \in Msg :
        /\ Elements(box'[u]) = IF u = t THEN Elements(box[t]) \cup {m} ELSE Elements(box[u])
        /\ NoRepeat(box[u]) => NoRepeat(box'[u])
        /\ u # t => box'[u] = box[u]
  BY <1>1, <1>3, <1>4, <1>5, <1>6
<1>8. DeferredConserved'
  <2>1. deferred' = deferred
    BY DEF RouteToTurn
  <2>. QED  BY <1>2, <2>1 DEF QueueInv, MessagesConserved, DeferredConserved
<1>9. BoxesConserved'
  <2>1. \A u \in Msg : NoRepeat(box'[u])
    BY <1>7 DEF QueueInv, MessagesConserved, BoxesConserved
  <2>2. ASSUME NEW n \in Msg, NEW u \in Msg, n \in Elements(box'[u])
        PROVE  place'[n] = "boxed" /\ Key[n] = Key[u]
    BY <1>1, <1>2, <1>7, <2>2 DEF QueueInv, MessagesConserved, BoxesConserved
  <2>3. ASSUME NEW n \in Msg, NEW u \in Msg, NEW v \in Msg,
               n \in Elements(box'[u]), n \in Elements(box'[v])
        PROVE  u = v
    BY <1>6, <1>7, <2>3 DEF QueueInv, MessagesConserved, BoxesConserved
  <2>4. ASSUME NEW n \in Msg, place'[n] = "boxed"
        PROVE  \E u \in Msg : n \in Elements(box'[u])
    <3>1. CASE n = m
      BY <3>1, <1>1, <1>7
    <3>2. CASE n # m
      <4>1. PICK u \in Msg : n \in Elements(box[u])
        BY <3>2, <2>4, <1>2 DEF QueueInv, MessagesConserved, BoxesConserved
      <4>. QED  BY <4>1, <1>7
    <3>. QED  BY <3>1, <3>2
  <2>. QED  BY <2>1, <2>2, <2>3, <2>4 DEF BoxesConserved
<1>10. QueueHasOwner'
  <2>1. reg' = reg
    BY DEF RouteToTurn
  <2>. QED  BY <1>1, <1>2, <1>7, <2>1, OwnersKept
<1>. QED  BY <1>2, <1>8, <1>9, <1>10 DEF MessagesConserved

LEMMA DiscardKeeps ==
    ASSUME QueueInv, NEW c \in Canceller, DiscardQueue(c)
    PROVE  MessagesConserved' /\ QueueHasOwner'
<1>. DEFINE s == canceller[c].key
            t == reg[s]
<1>1. s \in Session
  BY DEF QueueInv, TypeOK, CancelJob
<1>2. reg' = [reg EXCEPT ![s] = NoTask] /\ inbound' = inbound /\ deferred' = deferred
  BY DEF DiscardQueue
<1>3. CASE t = NoTask
  <2>1. box' = box /\ place' = place
    BY <1>3 DEF DiscardQueue
  <2>2. reg' = reg
    BY <1>1, <1>2, <1>3 DEF QueueInv, TypeOK
  <2>. QED  BY <1>2, <2>1, <2>2 DEF QueueInv, MessagesConserved, BusConserved,
               DeferredConserved, BoxesConserved, QueueHasOwner
<1>4. CASE t # NoTask
  <2>1. t \in Msg /\ place[t] = "running" /\ Key[t] = s
    BY <1>1, <1>4 DEF QueueInv, TypeOK, QueueHasOwner
  <2>2. /\ box' = [box EXCEPT ![t] = <<>>]
        /\ \A m \in Msg : place'[m] = IF m \in Elements(box[t]) THEN "dropped" ELSE place[m]
    BY <1>4 DEF DiscardQueue, Moved
  <2>3. /\ Elements(<<>>) = {} /\ NoRepeat(<<>>)
        /\ \A u \in Msg : box'[u] = IF u = t THEN <<>> ELSE box[u]
    BY <2>1, <2>2 DEF QueueInv, TypeOK, Elements, NoRepeat
  <2>4. \A m \in Elements(box[t]) : m \in Msg => place[m] = "boxed"
    BY <2>1 DEF QueueInv, MessagesConserved, BoxesConserved
  <2>5. BusConserved'
    BY <1>2, <2>2, <2>4 DEF QueueInv, MessagesConserved, BusConserved
  <2>6. DeferredConserved'
    BY <1>2, <2>2, <2>4 DEF QueueInv, MessagesConserved, DeferredConserved
  <2>7. BoxesConserved'
    <3>1. \A u \in Msg : NoRepeat(box'[u])
      BY <2>3 DEF QueueInv, MessagesConserved, BoxesConserved
    <3>2. ASSUME NEW m \in Msg, NEW u \in Msg, m \in Elements(box'[u])
          PROVE  u # t /\ m \in Elements(box[u]) /\ m \notin Elements(box[t])
      BY <2>1, <2>3, <3>2 DEF QueueInv, MessagesConserved, BoxesConserved
    <3>3. ASSUME NEW m \in Msg, NEW u \in Msg, m \in Elements(box'[u])
          PROVE  place'[m] = "boxed" /\ Key[m] = Key[u]
      BY <2>2, <3>2, <3>3 DEF QueueInv, MessagesConserved, BoxesConserved
    <3>4. ASSUME NEW m \in Msg, NEW u \in Msg, NEW v \in Msg,
                 m \in Elements(box'[u]), m \in Elements(box'[v])
          PROVE  u = v
      BY <3>2, <3>4 DEF QueueInv, MessagesConserved, BoxesConserved
    <3>5. ASSUME NEW m \in Msg, place'[m] = "boxed"
          PROVE  \E u \in Msg : m \in Elements(box'[u])
      <4>1. place[m] = "boxed" /\ m \notin Elements(box[t])
        BY <2>2, <3>5
      <4>2. PICK u \in Msg : m \in Elements(box[u])
        BY <4>1 DEF QueueInv, MessagesConserved, BoxesConserved
      <4>. QED  BY <2>3, <4>1, <4>2
    <3>. QED  BY <3>1, <3>3, <3>4, <3>5 DEF BoxesConserved
  <2>8. QueueHasOwner'
    <3>1. ASSUME NEW m \in Msg, place[m] = "running" PROVE place'[m] = "running"
      BY <2>2, <2>4, <3>1
    <3>2. ASSUME NEW r \in Session, reg'[r] # NoTask
          PROVE  place'[reg'[r]] = "running" /\ Key[reg'[r]] = r
      <4>1. reg'[r] = reg[r] /\ reg[r] \in Msg
        BY <1>1, <1>2, <3>2 DEF QueueInv, TypeOK
      <4>. QED  BY <3>1, <3>2, <4>1 DEF QueueInv, QueueHasOwner
    <3>3. ASSUME NEW u \in Msg, box'[u] # <<>> PROVE place'[u] = "running"
      BY <2>3, <3>1, <3>3 DEF QueueInv, QueueHasOwner
    <3>. QED  BY <3>2, <3>3 DEF QueueHasOwner
  <2>. QED  BY <2>5, <2>6, <2>7, <2>8 DEF MessagesConserved
<1>. QED  BY <1>3, <1>4

LEMMA BeginKeeps ==
    ASSUME QueueInv, NEW t \in Msg, TurnBegin(t)
    PROVE  MessagesConserved' /\ QueueHasOwner'
<1>1. /\ place[t] = "waiting" /\ Key[t] \in Session
      /\ \A m \in Msg : place'[m] = IF m = t THEN "running" ELSE place[m]
  BY KeyType DEF TurnBegin, Moved
<1>2. box[t] = <<>>
  BY <1>1 DEF QueueInv, QueueHasOwner
<1>3. box' = box /\ inbound' = inbound /\ deferred' = deferred
  BY <1>2 DEF TurnBegin, QueueInv, TypeOK
<1>4. reg' = [reg EXCEPT ![Key[t]] = t]
  BY DEF TurnBegin
<1>5. BusConserved'
  BY <1>1, <1>3 DEF QueueInv, MessagesConserved, BusConserved
<1>6. DeferredConserved'
  BY <1>1, <1>3 DEF QueueInv, MessagesConserved, DeferredConserved
<1>7. BoxesConserved'
  BY <1>1, <1>3 DEF QueueInv, MessagesConserved, BoxesConserved
<1>8. QueueHasOwner'
  <2>1. ASSUME NEW r \in Session, reg'[r] # NoTask
        PROVE  place'[reg'[r]] = "running" /\ Key[reg'[r]] = r
    <3>1. CASE r = Key[t]
      BY <3>1, <1>1, <1>4 DEF QueueInv, TypeOK
    <3>2. CASE r # Key[t]
      <4>1. reg'[r] = reg[r] /\ reg[r] \in Msg
        BY <3>2, <1>1, <1>4, <2>1 DEF QueueInv, TypeOK
      <4>. QED  BY <4>1, <1>1, <2>1 DEF QueueInv, QueueHasOwner
    <3>. QED  BY <3>1, <3>2
  <2>2. ASSUME NEW u \in Msg, box'[u] # <<>> PROVE place'[u] = "running"
    BY <1>1, <1>3, <2>2 DEF QueueInv, QueueHasOwner
  <2>. QED  BY <2>1, <2>2 DEF QueueHasOwner
<1>. QED  BY <1>5, <1>6, <1>7, <1>8 DEF MessagesConserved

\* The deferred list of a session is its next message and the others.
LEMMA DeferredSplit ==
    ASSUME QueueInv, NEW s \in Session
    PROVE  /\ Elements(deferred[s]) = Elements(NextDeferred(s)) \cup Elements(PopDeferred(s))
           /\ Elements(NextDeferred(s)) \cap Elements(PopDeferred(s)) = {}
           /\ NoRepeat(NextDeferred(s)) /\ NoRepeat(PopDeferred(s))
<1>1. deferred[s] \in Seq(Automation) /\ NoRepeat(deferred[s])
  BY DEF QueueInv, TypeOK, MessagesConserved, DeferredConserved
<1>2. CASE deferred[s] = <<>>
  BY <1>2 DEF NextDeferred, PopDeferred, Elements, NoRepeat
<1>3. CASE deferred[s] # <<>>
  <2>. DEFINE h == Head(deferred[s])
  <2>1. /\ Elements(deferred[s]) = {h} \cup Elements(Tail(deferred[s]))
        /\ NoRepeat(Tail(deferred[s])) /\ h \notin Elements(Tail(deferred[s]))
    BY <1>1, <1>3, ElementsTail
  <2>2. NextDeferred(s) = <<h>> /\ PopDeferred(s) = Tail(deferred[s])
    BY <1>3 DEF NextDeferred, PopDeferred
  <2>3. Elements(<<h>>) = {h} /\ NoRepeat(<<h>>)
    BY DEF Elements, NoRepeat
  <2>. QED  BY <2>1, <2>2, <2>3
<1>. QED  BY <1>2, <1>3

\* Messages that wait elsewhere are appended to the bus when a task ends.
LEMMA Republished ==
    ASSUME QueueInv, NEW t \in Msg, NEW end \in Finished, NEW back \in Seq(Msg),
           place[t] \in {"waiting", "running"}, NoRepeat(back),
           \A m \in Elements(back) : m \in Msg => place[m] \in {"deferred", "boxed"},
           place' = [m \in Msg |-> CASE m = t -> end
                                     [] m \in Elements(back) -> "inbound"
                                     [] OTHER -> place[m]],
           inbound' = inbound \o back
    PROVE  /\ BusConserved'
           /\ \A m \in Msg : place'[m] = IF m = t THEN end
                                         ELSE IF m \in Elements(back) THEN "inbound"
                                         ELSE place[m]
           /\ t \notin Elements(back)
<1>1. Elements(back) \subseteq Msg
  BY ElementOfSeq DEF Elements
<1>2. t \notin Elements(back)
  OBVIOUS
<1>3. \A m \in Msg : place'[m] = IF m = t THEN end
                                 ELSE IF m \in Elements(back) THEN "inbound"
                                 ELSE place[m]
  OBVIOUS
<1>4. Elements(inbound) \cap Elements(back) = {}
  BY <1>1 DEF QueueInv, MessagesConserved, BusConserved
<1>5. Elements(inbound') = Elements(inbound) \cup Elements(back) /\ NoRepeat(inbound')
  <2>1. inbound \in Seq(Msg) /\ NoRepeat(inbound)
    BY DEF QueueInv, TypeOK, MessagesConserved, BusConserved
  <2>. QED  BY <2>1, <1>4, ElementsConcat
<1>6. end # "inbound"
  BY DEF Finished
<1>7. BusConserved'
  BY <1>2, <1>3, <1>5, <1>6 DEF QueueInv, MessagesConserved, BusConserved
<1>. QED  BY <1>2, <1>3, <1>7

LEMMA AbortsKeeps ==
    ASSUME QueueInv, NEW t \in Msg, TaskAborts(t)
    PROVE  MessagesConserved' /\ QueueHasOwner'
<1>. DEFINE s == Key[t]
            back == NextDeferred(s)
<1>1. s \in Session /\ place[t] = "waiting" /\ box' = box /\ reg' = reg
  BY KeyType DEF TaskAborts
<1>2. /\ Elements(deferred[s]) = Elements(back) \cup Elements(PopDeferred(s))
      /\ Elements(back) \cap Elements(PopDeferred(s)) = {}
      /\ NoRepeat(back) /\ NoRepeat(PopDeferred(s))
  BY <1>1, DeferredSplit
<1>3. back \in Seq(Msg) /\ inbound' = inbound \o back
  BY <1>1, BackType DEF TaskAborts, QueueInv
<1>4. \A m \in Elements(back) : m \in Msg => place[m] = "deferred" /\ Key[m] = s
  BY <1>1, <1>2 DEF QueueInv, MessagesConserved, DeferredConserved
<1>5. /\ BusConserved'
      /\ \A m \in Msg : place'[m] = IF m = t THEN "aborted"
                                    ELSE IF m \in Elements(back) THEN "inbound"
                                    ELSE place[m]
      /\ t \notin Elements(back)
  <2>1. place' = [m \in Msg |-> CASE m = t -> "aborted"
                                  [] m \in Elements(back) -> "inbound"
                                  [] OTHER -> place[m]]
    BY DEF TaskAborts
  <2>2. "aborted" \in Finished
    BY DEF Finished
  <2>. HIDE DEF back
  <2>. QED  BY <1>1, <1>2, <1>3, <1>4, <2>1, <2>2, Republished
<1>6. /\ \A r \in Session : deferred'[r] = IF r = s THEN PopDeferred(s) ELSE deferred[r]
      /\ deferred' = [deferred EXCEPT ![s] = PopDeferred(s)]
  BY <1>1 DEF TaskAborts, QueueInv, TypeOK
<1>. HIDE DEF back
<1>7. DeferredConserved'
  <2>1. \A r \in Session : NoRepeat(deferred'[r])
    BY <1>2, <1>6 DEF QueueInv, MessagesConserved, DeferredConserved
  <2>2. ASSUME NEW m \in Msg, NEW r \in Session
        PROVE  m \in Elements(deferred'[r]) <=> place'[m] = "deferred" /\ Key[m] = r
    BY <1>1, <1>2, <1>4, <1>5, <1>6 DEF QueueInv, MessagesConserved, DeferredConserved
  <2>. QED  BY <2>1, <2>2 DEF DeferredConserved
<1>8. BoxesConserved'
  BY <1>1, <1>4, <1>5 DEF QueueInv, MessagesConserved, BoxesConserved
<1>9. QueueHasOwner'
  <2>1. \A m \in Msg : place[m] = "running" => place'[m] = "running"
    BY <1>1, <1>4, <1>5
  <2>. QED  BY <1>1, <2>1, OwnersKept
<1>. QED  BY <1>5, <1>7, <1>8, <1>9 DEF MessagesConserved

LEMMA FinishKeeps ==
    ASSUME QueueInv, NEW t \in Msg, NEW outcome, Finish(t, outcome)
    PROVE  MessagesConserved' /\ QueueHasOwner'
<1>. DEFINE s == Key[t]
            next == NextDeferred(s)
            back == box[t] \o next
<1>1. s \in Session /\ place[t] = "running"
  BY KeyType DEF Finish
<1>2. /\ Elements(deferred[s]) = Elements(next) \cup Elements(PopDeferred(s))
      /\ Elements(next) \cap Elements(PopDeferred(s)) = {}
      /\ NoRepeat(next) /\ NoRepeat(PopDeferred(s))
  BY <1>1, DeferredSplit
<1>3. /\ next \in Seq(Msg) /\ box[t] \in Seq(Msg) /\ back \in Seq(Msg)
      /\ inbound' = inbound \o back
  BY <1>1, BackType DEF Finish, QueueInv
<1>4. \A m \in Elements(next) : m \in Msg => place[m] = "deferred" /\ Key[m] = s
  BY <1>1, <1>2 DEF QueueInv, MessagesConserved, DeferredConserved
<1>5. \A m \in Elements(box[t]) : m \in Msg => place[m] = "boxed"
  BY DEF QueueInv, MessagesConserved, BoxesConserved
<1>. HIDE DEF next
<1>6. Elements(back) = Elements(box[t]) \cup Elements(next) /\ NoRepeat(back)
  <2>1. NoRepeat(box[t])
    BY DEF QueueInv, MessagesConserved, BoxesConserved
  <2>2. Elements(next) \subseteq Msg /\ Elements(box[t]) \subseteq Msg
    BY <1>3, ElementOfSeq DEF Elements
  <2>3. Elements(box[t]) \cap Elements(next) = {}
    BY <2>2, <1>4, <1>5
  <2>. QED  BY <1>2, <1>3, <2>1, <2>3, ElementsConcat
<1>7. /\ BusConserved'
      /\ \A m \in Msg : place'[m] = IF m = t THEN "done"
                                    ELSE IF m \in Elements(back) THEN "inbound"
                                    ELSE place[m]
      /\ t \notin Elements(back)
  <2>1. place' = [m \in Msg |-> CASE m = t -> "done"
                                  [] m \in Elements(back) -> "inbound"
                                  [] OTHER -> place[m]]
    BY DEF Finish, next
  <2>2. "done" \in Finished
    BY DEF Finished
  <2>3. \A m \in Elements(back) : m \in Msg => place[m] \in {"deferred", "boxed"}
    BY <1>4, <1>5, <1>6
  <2>. HIDE DEF back
  <2>. QED  BY <1>1, <1>3, <1>6, <2>1, <2>2, <2>3, Republished
<1>8. /\ \A r \in Session : deferred'[r] = IF r = s THEN PopDeferred(s) ELSE deferred[r]
      /\ \A u \in Msg : box'[u] = IF u = t THEN <<>> ELSE box[u]
      /\ reg' = [reg EXCEPT ![s] = IF @ = t THEN NoTask ELSE @]
  BY <1>1 DEF Finish, Withdraw, QueueInv, TypeOK
<1>9. Elements(<<>>) = {} /\ NoRepeat(<<>>)
  BY DEF Elements, NoRepeat
<1>. HIDE DEF back
<1>10. DeferredConserved'
  <2>1. \A r \in Session : NoRepeat(deferred'[r])
    BY <1>2, <1>8 DEF QueueInv, MessagesConserved, DeferredConserved
  <2>2. ASSUME NEW m \in Msg, NEW r \in Session
        PROVE  m \in Elements(deferred'[r]) <=> place'[m] = "deferred" /\ Key[m] = r
    BY <1>1, <1>2, <1>4, <1>5, <1>6, <1>7, <1>8
       DEF QueueInv, MessagesConserved, DeferredConserved
  <2>. QED  BY <2>1, <2>2 DEF DeferredConserved
<1>11. BoxesConserved'
  <2>1. \A u \in Msg : NoRepeat(box'[u])
    BY <1>8, <1>9 DEF QueueInv, MessagesConserved, BoxesConserved
  <2>2. ASSUME NEW m \in Msg, NEW u \in Msg, m \in Elements(box'[u])
        PROVE  /\ u # t /\ m \in Elements(box[u]) /\ m \notin Elements(back) /\ m # t
               /\ place'[m] = "boxed" /\ Key[m] = Key[u]
    <3>1. u # t /\ m \in Elements(box[u])
      BY <1>8, <1>9, <2>2
    <3>2. place[m] = "boxed" /\ Key[m] = Key[u] /\ m \notin Elements(box[t])
      BY <3>1 DEF QueueInv, MessagesConserved, BoxesConserved
    <3>3. m \notin Elements(back) /\ m # t
      BY <1>1, <1>4, <1>6, <3>2
    <3>. QED  BY <3>1, <3>2, <3>3, <1>7
  <2>3. ASSUME NEW m \in Msg, NEW u \in Msg, NEW v \in Msg,
               m \in Elements(box'[u]), m \in Elements(box'[v])
        PROVE  u = v
    BY <2>2, <2>3 DEF QueueInv, MessagesConserved, BoxesConserved
  <2>4. ASSUME NEW m \in Msg, place'[m] = "boxed"
        PROVE  \E u \in Msg : m \in Elements(box'[u])
    <3>1. place[m] = "boxed" /\ m \notin Elements(box[t])
      BY <1>6, <1>7, <2>4
    <3>2. PICK u \in Msg : m \in Elements(box[u])
      BY <3>1 DEF QueueInv, MessagesConserved, BoxesConserved
    <3>. QED  BY <1>8, <3>1, <3>2
  <2>. QED  BY <2>1, <2>2, <2>3, <2>4 DEF BoxesConserved
<1>12. QueueHasOwner'
  <2>1. ASSUME NEW m \in Msg, m # t, place[m] = "running" PROVE place'[m] = "running"
    BY <1>4, <1>5, <1>6, <1>7, <2>1
  <2>2. ASSUME NEW r \in Session, reg'[r] # NoTask
        PROVE  place'[reg'[r]] = "running" /\ Key[reg'[r]] = r
    <3>1. reg'[r] = reg[r] /\ (r = s => reg[r] # t)
      BY <1>1, <1>8, <2>2 DEF QueueInv, TypeOK
    <3>2. reg[r] \in Msg /\ place[reg[r]] = "running" /\ Key[reg[r]] = r
      BY <2>2, <3>1 DEF QueueInv, TypeOK, QueueHasOwner
    <3>3. reg[r] # t
      BY <3>1, <3>2
    <3>. QED  BY <2>1, <3>1, <3>2, <3>3
  <2>3. ASSUME NEW u \in Msg, box'[u] # <<>> PROVE place'[u] = "running"
    BY <1>8, <2>1, <2>3 DEF QueueInv, QueueHasOwner
  <2>. QED  BY <2>2, <2>3 DEF QueueHasOwner
<1>. QED  BY <1>7, <1>10, <1>11, <1>12 DEF MessagesConserved

LEMMA DrainKeeps ==
    ASSUME QueueInv, NEW t \in Msg, Drain(t)
    PROVE  MessagesConserved' /\ QueueHasOwner'
<1>. DEFINE n == Batch(t)
            read == SubSeq(box[t], 1, n)
            left == SubSeq(box[t], n + 1, Len(box[t]))
<1>1. /\ box[t] \in Seq(User \cup System)
      /\ n \in 0..Len(box[t])
      /\ NoRepeat(box[t])
  <2>1. box[t] \in Seq(User \cup System) /\ NoRepeat(box[t])
    BY DEF QueueInv, TypeOK, MessagesConserved, BoxesConserved
  <2>. QED  BY <2>1, LenProperties, DispatchAssumption DEF Batch
<1>2. /\ Elements(box[t]) = Elements(read) \cup Elements(left)
      /\ NoRepeat(left)
      /\ Elements(read) \cap Elements(left) = {}
  BY <1>1, ElementsSplit
<1>3. /\ place[t] = "running"
      /\ box' = [box EXCEPT ![t] = left]
      /\ \A m \in Msg : place'[m] = IF m \in Elements(read) THEN "injected" ELSE place[m]
      /\ UNCHANGED <<inbound, deferred, reg>>
  BY DEF Drain, Unread, Moved
<1>. HIDE DEF n, read, left
<1>4. \A u \in Msg : box'[u] = IF u = t THEN left ELSE box[u]
  BY <1>3 DEF QueueInv, TypeOK
<1>5. \A m \in Elements(read) : m \in Msg => place[m] = "boxed"
  BY <1>2 DEF QueueInv, MessagesConserved, BoxesConserved
<1>6. BusConserved'
  BY <1>3, <1>5 DEF QueueInv, MessagesConserved, BusConserved
<1>7. DeferredConserved'
  BY <1>3, <1>5 DEF QueueInv, MessagesConserved, DeferredConserved
<1>8. BoxesConserved'
  <2>1. \A u \in Msg : NoRepeat(box'[u])
    BY <1>2, <1>4 DEF QueueInv, MessagesConserved, BoxesConserved
  <2>2. ASSUME NEW m \in Msg, NEW u \in Msg, m \in Elements(box'[u])
        PROVE  m \in Elements(box[u]) /\ m \notin Elements(read)
    <3>1. m \in Elements(box[u])
      BY <1>2, <1>4, <2>2
    <3>2. CASE u = t
      BY <1>2, <1>4, <2>2, <3>2
    <3>3. CASE u # t
      BY <1>2, <3>1, <3>3 DEF QueueInv, MessagesConserved, BoxesConserved
    <3>. QED  BY <3>1, <3>2, <3>3
  <2>3. ASSUME NEW m \in Msg, NEW u \in Msg, m \in Elements(box'[u])
        PROVE  place'[m] = "boxed" /\ Key[m] = Key[u]
    BY <1>3, <2>2, <2>3 DEF QueueInv, MessagesConserved, BoxesConserved
  <2>4. ASSUME NEW m \in Msg, NEW u \in Msg, NEW v \in Msg,
               m \in Elements(box'[u]), m \in Elements(box'[v])
        PROVE  u = v
    BY <2>2, <2>4 DEF QueueInv, MessagesConserved, BoxesConserved
  <2>5. ASSUME NEW m \in Msg, place'[m] = "boxed"
        PROVE  \E u \in Msg : m \in Elements(box'[u])
    <3>1. place[m] = "boxed" /\ m \notin Elements(read)
      BY <1>3, <2>5
    <3>2. PICK u \in Msg : m \in Elements(box[u])
      BY <3>1 DEF QueueInv, MessagesConserved, BoxesConserved
    <3>. QED  BY <1>2, <1>4, <3>1, <3>2
  <2>. QED  BY <2>1, <2>3, <2>4, <2>5 DEF BoxesConserved
<1>9. QueueHasOwner'
  <2>1. \A m \in Msg : place[m] = "running" => place'[m] = "running"
    BY <1>3, <1>5
  <2>. QED  BY <1>3, <1>4, <2>1, OwnersKept
<1>. QED  BY <1>6, <1>7, <1>8, <1>9 DEF MessagesConserved

LEMMA InitQueues == Init => MessagesConserved /\ QueueHasOwner
<1>. SUFFICES ASSUME Init PROVE MessagesConserved /\ QueueHasOwner
  OBVIOUS
<1>1. Elements(<<>>) = {} /\ NoRepeat(<<>>)
  BY DEF Elements, NoRepeat
<1>. QED  BY <1>1 DEF Init, MessagesConserved, BusConserved, DeferredConserved,
             BoxesConserved, QueueHasOwner

LEMMA NextQueues == QueueInv /\ [Next]_vars => MessagesConserved' /\ QueueHasOwner'
<1>. DEFINE Goal == MessagesConserved' /\ QueueHasOwner'
<1>. SUFFICES ASSUME QueueInv, [Next]_vars PROVE Goal
  OBVIOUS
<1>1. ASSUME NEW m \in Msg, Send(m) PROVE Goal
  BY <1>1, Published DEF Send
<1>2. ASSUME NEW m \in Msg, Submit(m) PROVE Goal
  BY <1>2, Published DEF Submit
<1>3. ASSUME NEW m \in Msg, Announce(m) PROVE Goal
  BY <1>3, Published DEF Announce
<1>4. ASSUME NEW m \in Automation, Abandon(m) PROVE Goal
  BY <1>4 DEF Abandon, QueueInv, MessagesConserved, BusConserved, DeferredConserved,
              BoxesConserved, QueueHasOwner
<1>5. ASSUME NEW t \in Msg, NEW m \in Msg, Spawn(t, m) PROVE Goal
  BY <1>5, QueuesUntouched DEF Spawn, Place, Queued
<1>6. ASSUME NEW m \in Msg, StopCommand(m) PROVE Goal
  BY <1>6, TakenFromBus DEF StopCommand, Place, Queued
<1>7. ASSUME NEW m \in Msg, Defer(m) PROVE Goal
  BY <1>7, DeferKeeps
<1>8. ASSUME NEW m \in Msg, RouteToTurn(m) PROVE Goal
  BY <1>8, RouteKeeps
<1>9. ASSUME NEW m \in Msg, CreateTask(m) PROVE Goal
  BY <1>9, TakenFromBus DEF CreateTask, Place, Queued
<1>10. ASSUME NEW c \in Canceller, CancelSubagents(c) PROVE Goal
  BY <1>10, QueuesUntouched DEF CancelSubagents, Place, Queued
<1>11. ASSUME NEW c \in Canceller, DiscardQueue(c) PROVE Goal
  BY <1>11, DiscardKeeps
<1>12. ASSUME NEW s \in Session, TimerExpires(s) PROVE Goal
  BY <1>12 DEF TimerExpires, QueueInv, MessagesConserved, BusConserved,
               DeferredConserved, BoxesConserved, QueueHasOwner
<1>13. ASSUME NEW t \in Msg, TaskStart(t) PROVE Goal
  BY <1>13, QueuesUntouched DEF TaskStart, Place, Queued
<1>14. ASSUME NEW t \in Msg, TaskNeverStarts(t) PROVE Goal
  BY <1>14, QueuesUntouched DEF TaskNeverStarts, Place, Queued
<1>15. ASSUME NEW t \in Msg, TaskAborts(t) PROVE Goal
  BY <1>15, AbortsKeeps
<1>16. ASSUME NEW t \in Msg, TurnBegin(t) PROVE Goal
  BY <1>16, BeginKeeps
<1>17. ASSUME NEW t \in Msg, Drain(t) PROVE Goal
  BY <1>17, DrainKeeps
<1>18. ASSUME NEW t \in Msg, TurnEnds(t) PROVE Goal
  <2>1. \E outcome : Finish(t, outcome)
    BY <1>18 DEF TurnEnds, TurnReturns, TurnFails, TurnInterrupted
  <2>. QED  BY <2>1, FinishKeeps
<1>19. CASE UNCHANGED vars
  BY <1>19 DEF vars, QueueInv, MessagesConserved, BusConserved, DeferredConserved,
               BoxesConserved, QueueHasOwner
<1>. HIDE DEF Goal
<1>. QED  BY <1>1, <1>2, <1>3, <1>4, <1>5, <1>6, <1>7, <1>8, <1>9, <1>10, <1>11, <1>12,
             <1>13, <1>14, <1>15, <1>16, <1>17, <1>18, <1>19 DEF Next, Route

\* The three facts about the queues form an inductive invariant.
LEMMA QueueInvariant == Spec => []QueueInv
<1>1. Init => QueueInv
  BY InitType, InitQueues DEF QueueInv
<1>2. QueueInv /\ [Next]_vars => QueueInv'
  BY NextType, NextQueues DEF QueueInv
<1>. QED  BY <1>1, <1>2, PTL DEF Spec

\* No route, drain, republication or cancellation loses or duplicates a message.
THEOREM NothingLost == Spec => []MessagesConserved
<1>1. QueueInv => MessagesConserved
  BY DEF QueueInv
<1>. QED  BY <1>1, QueueInvariant, PTL

\* What the run loop puts in a published queue always has a turn to read or
\* republish it.
THEOREM QueuesOwned == Spec => []QueueHasOwner
<1>1. QueueInv => QueueHasOwner
  BY DEF QueueInv
<1>. QED  BY <1>1, QueueInvariant, PTL

-----------------------------------------------------------------------------
(* The life of a message.                                                  *)

\* The stages message m may reach from stage p in one step.
After(m, p) ==
    CASE p = "unsent"   -> IF m \in System THEN {"brewing"} ELSE {"inbound"}
      [] p = "brewing"  -> {"inbound", "dropped"}
      [] p = "inbound"  -> IF m \in Stop THEN {"done"}
                           ELSE IF m \in Automation THEN {"deferred", "created"}
                           ELSE {"boxed", "created"}
      [] p = "deferred" -> {"inbound"}
      [] p = "boxed"    -> {"inbound", "injected", "dropped"}
      [] p = "created"  -> {"waiting", "aborted"}
      [] p = "waiting"  -> {"running", "aborted"}
      [] p = "running"  -> {"done"}
      [] OTHER          -> {}

Steps == \A m \in Msg : place'[m] # place[m] => place'[m] \in After(m, place[m])

\* Only a subagent's result is ever in preparation.
Brews == \A m \in Msg : place[m] = "brewing" => m \in System

\* What a pending queue holds is at stage "boxed", and typed or announced.
LEMMA InBox ==
    ASSUME QueueInv, NEW t \in Msg, NEW m \in Elements(box[t])
    PROVE  m \in User \cup System /\ m \in Msg /\ place[m] = "boxed"
<1>1. box[t] \in Seq(User \cup System)
  BY DEF QueueInv, TypeOK
<1>2. m \in User \cup System
  BY <1>1, ElementOfSeq DEF Elements
<1>. QED  BY <1>2 DEF Msg, QueueInv, MessagesConserved, BoxesConserved

\* The next deferred message of a session is an automation at stage "deferred".
LEMMA InDeferred ==
    ASSUME QueueInv, NEW s \in Session, NEW m \in Elements(NextDeferred(s))
    PROVE  m \in Automation /\ m \in Msg /\ place[m] = "deferred"
<1>1. NextDeferred(s) \in Seq(Automation)
  BY NextDeferredType DEF QueueInv
<1>2. m \in Automation
  BY <1>1, ElementOfSeq DEF Elements
<1>3. m \in Elements(deferred[s])
  BY DeferredSplit
<1>. QED  BY <1>2, <1>3 DEF Msg, QueueInv, MessagesConserved, DeferredConserved

\* The message the run loop takes was on the bus.
LEMMA WasInbound ==
    ASSUME QueueInv, NEW m \in Msg, Consume(m)
    PROVE  place[m] = "inbound"
<1>1. m \in Elements(inbound)
  BY ElementsTail DEF Consume, QueueInv, TypeOK
<1>. QED  BY <1>1 DEF QueueInv, MessagesConserved, BusConserved

\* The messages a finished task puts on the bus.
LEMMA InBack ==
    ASSUME QueueInv, NEW t \in Msg, NEW m \in Elements(box[t] \o NextDeferred(Key[t]))
    PROVE  m \in Msg /\ place[m] \in {"boxed", "deferred"}
<1>1. Key[t] \in Session
  BY KeyType
<1>2. m \in Elements(box[t]) \cup Elements(NextDeferred(Key[t]))
  BY <1>1, BackType, ElementsConcat DEF QueueInv
<1>. QED  BY <1>1, <1>2, InBox, InDeferred

\* Every step moves every message along its life.
LEMMA LifeOfMessage == QueueInv /\ Brews /\ [Next]_vars => Steps
<1>. SUFFICES ASSUME QueueInv, Brews, [Next]_vars PROVE Steps
  OBVIOUS
<1>. USE DispatchAssumption DEF Msg
<1>1. ASSUME NEW m \in Msg, Send(m) PROVE Steps
  BY <1>1 DEF Send, Moved, Steps, After
<1>2. ASSUME NEW m \in Msg, Submit(m) PROVE Steps
  BY <1>2 DEF Submit, Moved, Steps, After
<1>3. ASSUME NEW m \in Msg, Announce(m) PROVE Steps
  BY <1>3 DEF Announce, Moved, Steps, After
<1>4. ASSUME NEW m \in Automation, Abandon(m) PROVE Steps
  BY <1>4 DEF Abandon, Steps
<1>5. ASSUME NEW t \in Msg, NEW m \in Msg, Spawn(t, m) PROVE Steps
  BY <1>5 DEF Spawn, Moved, Steps, After
<1>6. ASSUME NEW m \in Msg, StopCommand(m) PROVE Steps
  BY <1>6, WasInbound DEF StopCommand, Moved, Steps, After
<1>7. ASSUME NEW m \in Msg, Defer(m) PROVE Steps
  BY <1>7, WasInbound DEF Defer, Moved, Steps, After
<1>8. ASSUME NEW m \in Msg, RouteToTurn(m) PROVE Steps
  BY <1>8, WasInbound DEF RouteToTurn, Moved, Steps, After
<1>9. ASSUME NEW m \in Msg, CreateTask(m) PROVE Steps
  BY <1>9, WasInbound DEF CreateTask, Moved, Steps, After
<1>10. ASSUME NEW c \in Canceller, CancelSubagents(c) PROVE Steps
  BY <1>10 DEF CancelSubagents, Moved, Steps, After
<1>11. ASSUME NEW c \in Canceller, DiscardQueue(c) PROVE Steps
  <2>. DEFINE t == reg[canceller[c].key]
  <2>1. CASE t = NoTask
    BY <1>11, <2>1 DEF DiscardQueue, Steps
  <2>2. CASE t # NoTask
    <3>1. t \in Msg
      BY <2>2 DEF QueueInv, TypeOK, CancelJob
    <3>2. \A m \in Msg : place'[m] = IF m \in Elements(box[t]) THEN "dropped" ELSE place[m]
      BY <1>11, <2>2 DEF DiscardQueue, Moved
    <3>. HIDE DEF t
    <3>. QED  BY <3>1, <3>2, InBox DEF Steps, After
  <2>. QED  BY <2>1, <2>2
<1>12. ASSUME NEW s \in Session, TimerExpires(s) PROVE Steps
  BY <1>12 DEF TimerExpires, Steps
<1>13. ASSUME NEW t \in Msg, TaskStart(t) PROVE Steps
  BY <1>13 DEF TaskStart, Moved, Steps, After
<1>14. ASSUME NEW t \in Msg, TaskNeverStarts(t) PROVE Steps
  BY <1>14 DEF TaskNeverStarts, Moved, Steps, After
<1>15. ASSUME NEW t \in Msg, TaskAborts(t) PROVE Steps
  <2>1. place[t] = "waiting" /\ Key[t] \in Session
    BY <1>15, KeyType DEF TaskAborts
  <2>2. \A m \in Msg : \/ place'[m] = place[m]
                       \/ m = t /\ place'[m] = "aborted"
                       \/ m \in Elements(NextDeferred(Key[t])) /\ place'[m] = "inbound"
    BY <1>15 DEF TaskAborts
  <2>. QED  BY <2>1, <2>2, InDeferred DEF Steps, After
<1>16. ASSUME NEW t \in Msg, TurnBegin(t) PROVE Steps
  BY <1>16 DEF TurnBegin, Moved, Steps, After
<1>17. ASSUME NEW t \in Msg, Drain(t) PROVE Steps
  <2>. DEFINE n == Batch(t)
  <2>1. box[t] \in Seq(User \cup System) /\ n \in 0..Len(box[t])
    BY LenProperties, DispatchAssumption DEF Batch, QueueInv, TypeOK
  <2>2. Elements(SubSeq(box[t], 1, n)) \subseteq Elements(box[t])
    BY <2>1, ElementsSplit
  <2>3. \A m \in Msg : place'[m] = IF m \in Elements(SubSeq(box[t], 1, n))
                                   THEN "injected" ELSE place[m]
    BY <1>17 DEF Drain, Moved
  <2>. HIDE DEF n
  <2>. QED  BY <2>2, <2>3, InBox DEF Steps, After
<1>18. ASSUME NEW t \in Msg, TurnEnds(t) PROVE Steps
  <2>1. PICK outcome : Finish(t, outcome)
    BY <1>18 DEF TurnEnds, TurnReturns, TurnFails, TurnInterrupted
  <2>2. place[t] = "running"
    BY <2>1 DEF Finish
  <2>3. \A m \in Msg : \/ place'[m] = place[m]
                       \/ m = t /\ place'[m] = "done"
                       \/ m \in Elements(box[t] \o NextDeferred(Key[t])) /\ place'[m] = "inbound"
    BY <2>1 DEF Finish
  <2>. QED  BY <2>2, <2>3, InBack DEF Steps, After
<1>19. CASE UNCHANGED vars
  BY <1>19 DEF vars, Steps
<1>. QED  BY <1>1, <1>2, <1>3, <1>4, <1>5, <1>6, <1>7, <1>8, <1>9, <1>10, <1>11, <1>12,
             <1>13, <1>14, <1>15, <1>16, <1>17, <1>18, <1>19 DEF Next, Route

LEMMA LifeInvariant == Spec => [](QueueInv /\ Brews)
<1>1. Init => QueueInv /\ Brews
  BY InitType, InitQueues DEF QueueInv, Brews, Init
<1>2. QueueInv /\ Brews /\ [Next]_vars => QueueInv' /\ Brews'
  <2>1. QueueInv /\ [Next]_vars => QueueInv'
    BY NextType, NextQueues DEF QueueInv
  <2>2. ASSUME Brews, Steps PROVE Brews'
    BY <2>2 DEF Brews, Steps, After
  <2>. QED  BY <2>1, <2>2, LifeOfMessage
<1>. QED  BY <1>1, <1>2, PTL DEF Spec

\* A message read, run, aborted or thrown away never comes back.
THEOREM NoReplay == Spec => ConsumedOnce
<1>1. QueueInv /\ Brews /\ [Next]_vars =>
        [\A m \in Msg : place[m] \in Settled => place'[m] = place[m]]_vars
  <2>1. Steps => \A m \in Msg : place[m] \in Settled => place'[m] = place[m]
    BY DEF Steps, After, Settled
  <2>. QED  BY <2>1, LifeOfMessage
<1>. QED  BY <1>1, LifeInvariant, PTL DEF Spec, ConsumedOnce

-----------------------------------------------------------------------------
(* The session lock, the task lists and the waiters.                       *)

OnLock == {"waiting", "running"}

\* A live task is where /stop looks for it, under its own session.
TasksListed ==
    /\ StopFindsEveryTask
    /\ \A s \in Session : \A t \in active[s] : Key[t] = s

\* The inductive invariant of the module.
DispatchInv == QueueInv /\ Brews /\ LockIsFifo /\ TasksListed /\ WaiterHasTurn

\* A step after which only tasks that already queued for a lock are on one.
LEMMA LockKept ==
    ASSUME LockIsFifo, ahead' = ahead,
           \A m \in Msg : place'[m] \in OnLock => place[m] \in OnLock,
           \A m \in Msg : place'[m] # "waiting" => place[m] # "waiting" \/ ahead[m] = {}
    PROVE  LockIsFifo'
BY DEF LockIsFifo, OnLock

\* The same, when task t leaves the lock.
LEMMA LockReleased ==
    ASSUME LockIsFifo, TypeOK, NEW t \in Msg, Release(t), place'[t] \in Finished,
           \A m \in Msg \ {t} : place'[m] \in OnLock => place'[m] = place[m],
           \A m \in Msg \ {t} : place[m] = "waiting" => place'[m] = "waiting"
    PROVE  LockIsFifo'
<1>1. \A u \in Msg : ahead'[u] = IF u = t THEN {} ELSE ahead[u] \ {t}
  BY DEF Release
<1>2. place'[t] \notin OnLock
  BY DEF Finished, OnLock
<1>3. ASSUME NEW u \in Msg, NEW v \in Msg, u # v, Key[u] = Key[v],
             place'[u] \in OnLock, place'[v] \in OnLock
      PROVE  u \in ahead'[v] \/ v \in ahead'[u]
  <2>1. u # t /\ v # t
    BY <1>2, <1>3
  <2>2. u \in ahead[v] \/ v \in ahead[u]
    BY <1>3, <2>1 DEF LockIsFifo, OnLock
  <2>. QED  BY <1>1, <2>1, <2>2
<1>4. ASSUME NEW u \in Msg, place'[u] # "waiting" PROVE ahead'[u] = {}
  BY <1>1, <1>4 DEF LockIsFifo
<1>. QED  BY <1>3, <1>4 DEF LockIsFifo, OnLock

\* A task that ends is finished, and the others are where they were or back on
\* the bus.
LEMMA Ending ==
    ASSUME QueueInv, NEW t \in Msg, TaskAborts(t) \/ \E outcome : Finish(t, outcome)
    PROVE  /\ place'[t] \in Finished /\ Release(t) /\ UNCHANGED cancelled
           /\ \A m \in Msg \ {t} : place'[m] \in {place[m], "inbound"}
<1>1. CASE TaskAborts(t)
  <2>1. t \notin Elements(NextDeferred(Key[t]))
    BY <1>1, KeyType, InDeferred DEF TaskAborts
  <2>2. place'[t] \in Finished
    BY <1>1, <2>1 DEF TaskAborts, Finished
  <2>3. \A m \in Msg \ {t} : place'[m] \in {place[m], "inbound"}
    BY <1>1 DEF TaskAborts
  <2>4. Release(t) /\ UNCHANGED cancelled
    BY <1>1 DEF TaskAborts
  <2>. QED  BY <2>2, <2>3, <2>4
<1>2. ASSUME NEW outcome, Finish(t, outcome)
      PROVE  /\ place'[t] \in Finished /\ Release(t) /\ UNCHANGED cancelled
             /\ \A m \in Msg \ {t} : place'[m] \in {place[m], "inbound"}
  <2>1. t \notin Elements(box[t] \o NextDeferred(Key[t]))
    BY <1>2, InBack DEF Finish
  <2>2. place'[t] \in Finished
    BY <1>2, <2>1 DEF Finish, Finished
  <2>3. \A m \in Msg \ {t} : place'[m] \in {place[m], "inbound"}
    BY <1>2 DEF Finish
  <2>4. Release(t) /\ UNCHANGED cancelled
    BY <1>2 DEF Finish
  <2>. QED  BY <2>2, <2>3, <2>4
<1>. QED  BY <1>1, <1>2

LEMMA NextLock == QueueInv /\ Brews /\ LockIsFifo /\ [Next]_vars => LockIsFifo'
<1>. SUFFICES ASSUME QueueInv, Brews, LockIsFifo, [Next]_vars PROVE LockIsFifo'
  OBVIOUS
<1>0. Steps
  BY LifeOfMessage
<1>1. ASSUME ahead' = ahead,
             \A m \in Msg : place'[m] \in OnLock => place[m] \in OnLock,
             \A m \in Msg : place[m] = "waiting" => place'[m] = "waiting"
      PROVE  LockIsFifo'
  BY <1>1, LockKept
<1>2. ASSUME ahead' = ahead, NEW S, NEW to \in Place \ OnLock, place' = Moved(S, to),
             \A m \in S : m \in Msg => place[m] # "waiting"
      PROVE  LockIsFifo'
  BY <1>1, <1>2 DEF Moved
<1>. USE DEF OnLock, Place
<1>3. ASSUME NEW m \in Msg, Send(m) \/ Submit(m) \/ Announce(m) PROVE LockIsFifo'
  BY <1>2, <1>3 DEF Send, Submit, Announce
<1>4. ASSUME NEW m \in Automation, Abandon(m) PROVE LockIsFifo'
  BY <1>1, <1>4 DEF Abandon
<1>5. ASSUME NEW t \in Msg, NEW m \in Msg, Spawn(t, m) PROVE LockIsFifo'
  BY <1>2, <1>5 DEF Spawn
<1>6. ASSUME NEW m \in Msg, StopCommand(m) \/ Defer(m) \/ RouteToTurn(m) \/ CreateTask(m)
      PROVE  LockIsFifo'
  <2>1. place[m] = "inbound"
    BY <1>6, WasInbound DEF StopCommand, Defer, RouteToTurn, CreateTask
  <2>. QED  BY <1>2, <1>6, <2>1 DEF StopCommand, Defer, RouteToTurn, CreateTask
<1>7. ASSUME NEW c \in Canceller, CancelSubagents(c) PROVE LockIsFifo'
  BY <1>2, <1>7 DEF CancelSubagents
<1>8. ASSUME NEW c \in Canceller, DiscardQueue(c) PROVE LockIsFifo'
  <2>1. \A m \in Msg : place'[m] # place[m] => place'[m] = "dropped"
    BY <1>8 DEF DiscardQueue, Moved
  <2>2. \A m \in Msg : place'[m] # place[m] => place[m] # "waiting"
    BY <1>0, <2>1 DEF Steps, After
  <2>. QED  BY <1>1, <1>8, <2>1, <2>2 DEF DiscardQueue
<1>9. ASSUME NEW s \in Session, TimerExpires(s) PROVE LockIsFifo'
  BY <1>1, <1>9 DEF TimerExpires
<1>10. ASSUME NEW t \in Msg, TaskStart(t) PROVE LockIsFifo'
  <2>1. /\ place[t] = "created"
        /\ \A m \in Msg : place'[m] = IF m = t THEN "waiting" ELSE place[m]
        /\ \A m \in Msg : ahead'[m] = IF m = t THEN Holding(Key[t]) ELSE ahead[m]
    BY <1>10 DEF TaskStart, Moved, QueueInv, TypeOK
  <2>2. ASSUME NEW u \in Msg, NEW v \in Msg, u # v, Key[u] = Key[v],
               place'[u] \in OnLock, place'[v] \in OnLock
        PROVE  u \in ahead'[v] \/ v \in ahead'[u]
    <3>1. CASE u = t \/ v = t
      <4>1. \A w \in Msg : w # t /\ Key[w] = Key[t] /\ place'[w] \in OnLock => w \in ahead'[t]
        BY <2>1 DEF Holding
      <4>. QED  BY <2>2, <3>1, <4>1
    <3>2. CASE u # t /\ v # t
      <4>1. place[u] \in OnLock /\ place[v] \in OnLock
        BY <2>1, <2>2, <3>2
      <4>2. u \in ahead[v] \/ v \in ahead[u]
        BY <2>2, <4>1 DEF LockIsFifo
      <4>. QED  BY <2>1, <3>2, <4>2
    <3>. QED  BY <3>1, <3>2
  <2>3. ASSUME NEW u \in Msg, place'[u] # "waiting" PROVE ahead'[u] = {}
    BY <2>1, <2>3 DEF LockIsFifo
  <2>. QED  BY <2>2, <2>3 DEF LockIsFifo
<1>11. ASSUME NEW t \in Msg, TaskNeverStarts(t) PROVE LockIsFifo'
  BY <1>2, <1>11 DEF TaskNeverStarts
<1>12. ASSUME NEW t \in Msg, TaskAborts(t) \/ TurnEnds(t) PROVE LockIsFifo'
  <2>1. TaskAborts(t) \/ \E outcome : Finish(t, outcome)
    BY <1>12 DEF TurnEnds, TurnReturns, TurnFails, TurnInterrupted
  <2>2. /\ place'[t] \in Finished /\ Release(t)
        /\ \A m \in Msg \ {t} : place'[m] \in {place[m], "inbound"}
    BY <2>1, Ending
  <2>3. \A m \in Msg \ {t} : place[m] = "waiting" => place'[m] = "waiting"
    BY <1>0, <2>2 DEF Steps, After
  <2>. QED  BY <2>2, <2>3, LockReleased DEF QueueInv
<1>13. ASSUME NEW t \in Msg, TurnBegin(t) PROVE LockIsFifo'
  BY <1>13, LockKept DEF TurnBegin, Moved
<1>14. ASSUME NEW t \in Msg, Drain(t) PROVE LockIsFifo'
  <2>1. \A m \in Msg : place'[m] # place[m] => place'[m] = "injected"
    BY <1>14 DEF Drain, Moved
  <2>2. \A m \in Msg : place'[m] # place[m] => place[m] # "waiting"
    BY <1>0, <2>1 DEF Steps, After
  <2>. QED  BY <1>1, <1>14, <2>1, <2>2 DEF Drain
<1>15. CASE UNCHANGED vars
  BY <1>1, <1>15 DEF vars
<1>. QED  BY <1>3, <1>4, <1>5, <1>6, <1>7, <1>8, <1>9, <1>10, <1>11, <1>12,
             <1>13, <1>14, <1>15 DEF Next, Route

\* A step that creates no task and touches no list of tasks.
LEMMA ListedKept ==
    ASSUME TasksListed, Steps, UNCHANGED <<active, cancelled>>,
           \A m \in Msg : place'[m] = "created" => place[m] = "created"
    PROVE  TasksListed'
BY DEF TasksListed, StopFindsEveryTask, Steps, After

LEMMA ListedCancel ==
    ASSUME TypeOK, TasksListed, Steps, NEW c \in Canceller, NEW s \in Session,
           BeginCancel(c, s), \A m \in Msg : place'[m] = "created" => place[m] = "created"
    PROVE  TasksListed'
<1>1. /\ cancelled' = cancelled \cup active[s]
      /\ \A r \in Session : active'[r] = IF r = s THEN {} ELSE active[r]
  BY DEF BeginCancel, TypeOK
<1>2. StopFindsEveryTask'
  <2>. SUFFICES ASSUME NEW t \in Msg, place'[t] \in {"created", "waiting", "running"}
                PROVE  t \in active'[Key[t]] \/ t \in cancelled'
    BY DEF StopFindsEveryTask
  <2>1. t \in active[Key[t]] \/ t \in cancelled
    BY DEF TasksListed, StopFindsEveryTask, Steps, After
  <2>. QED  BY <1>1, <2>1, KeyType
<1>. QED  BY <1>1, <1>2 DEF TasksListed

LEMMA ListedRelease ==
    ASSUME TypeOK, TasksListed, Steps, NEW t \in Msg, Release(t), UNCHANGED cancelled,
           place'[t] \in Finished,
           \A m \in Msg : place'[m] = "created" => place[m] = "created"
    PROVE  TasksListed'
<1>1. \A r \in Session : active'[r] = IF r = Key[t] THEN active[r] \ {t} ELSE active[r]
  BY DEF Release, TypeOK
<1>2. StopFindsEveryTask'
  <2>. SUFFICES ASSUME NEW u \in Msg, place'[u] \in {"created", "waiting", "running"}
                PROVE  u \in active'[Key[u]] \/ u \in cancelled'
    BY DEF StopFindsEveryTask
  <2>1. u # t
    BY DEF Finished
  <2>2. u \in active[Key[u]] \/ u \in cancelled
    BY DEF TasksListed, StopFindsEveryTask, Steps, After
  <2>. QED  BY <1>1, <2>1, <2>2, KeyType
<1>. QED  BY <1>1, <1>2 DEF TasksListed

LEMMA NextListed == QueueInv /\ Brews /\ TasksListed /\ [Next]_vars => TasksListed'
<1>. SUFFICES ASSUME QueueInv, Brews, TasksListed, [Next]_vars PROVE TasksListed'
  OBVIOUS
<1>0. Steps /\ TypeOK
  BY LifeOfMessage DEF QueueInv
<1>1. ASSUME UNCHANGED <<active, cancelled>>, NEW S, NEW to \in Place \ {"created"},
             place' = Moved(S, to)
      PROVE  TasksListed'
  BY <1>0, <1>1, ListedKept DEF Moved
<1>2. ASSUME UNCHANGED <<active, cancelled, place>> PROVE TasksListed'
  BY <1>0, <1>2, ListedKept
<1>. USE DEF Place
<1>3. ASSUME NEW m \in Msg, Send(m) \/ Submit(m) \/ Announce(m) PROVE TasksListed'
  BY <1>1, <1>3 DEF Send, Submit, Announce
<1>4. ASSUME NEW m \in Automation, Abandon(m) PROVE TasksListed'
  BY <1>2, <1>4 DEF Abandon
<1>5. ASSUME NEW t \in Msg, NEW m \in Msg, Spawn(t, m) PROVE TasksListed'
  BY <1>1, <1>5 DEF Spawn
<1>6. ASSUME NEW m \in Msg, StopCommand(m) PROVE TasksListed'
  <2>1. Loop \in Canceller /\ Key[m] \in Session
    BY KeyType DEF Canceller
  <2>2. \A n \in Msg : place'[n] = "created" => place[n] = "created"
    BY <1>6 DEF StopCommand, Moved
  <2>3. BeginCancel(Loop, Key[m])
    BY <1>6 DEF StopCommand
  <2>. QED  BY <1>0, <2>1, <2>2, <2>3, ListedCancel
<1>7. ASSUME NEW m \in Msg, Defer(m) \/ RouteToTurn(m) PROVE TasksListed'
  BY <1>1, <1>7 DEF Defer, RouteToTurn
<1>8. ASSUME NEW m \in Msg, CreateTask(m) PROVE TasksListed'
  <2>1. /\ Key[m] \in Session
        /\ \A r \in Session : active'[r] = IF r = Key[m] THEN active[r] \cup {m} ELSE active[r]
        /\ \A n \in Msg : n # m => place'[n] = place[n]
        /\ cancelled' = cancelled
    BY <1>0, <1>8, KeyType DEF CreateTask, Moved, TypeOK
  <2>2. StopFindsEveryTask'
    <3>. SUFFICES ASSUME NEW t \in Msg, place'[t] \in {"created", "waiting", "running"}
                  PROVE  t \in active'[Key[t]] \/ t \in cancelled'
      BY DEF StopFindsEveryTask
    <3>1. CASE t = m
      BY <2>1, <3>1
    <3>2. CASE t # m
      <4>1. t \in active[Key[t]] \/ t \in cancelled
        BY <2>1, <3>2 DEF TasksListed, StopFindsEveryTask
      <4>. QED  BY <2>1, <4>1, KeyType
    <3>. QED  BY <3>1, <3>2
  <2>3. ASSUME NEW r \in Session, NEW t \in active'[r] PROVE Key[t] = r
    <3>1. (t = m /\ r = Key[m]) \/ t \in active[r]
      BY <2>1, <2>3
    <3>. QED  BY <3>1 DEF TasksListed
  <2>. QED  BY <2>2, <2>3 DEF TasksListed
<1>9. ASSUME NEW c \in Canceller, CancelSubagents(c) PROVE TasksListed'
  BY <1>1, <1>9 DEF CancelSubagents
<1>10. ASSUME NEW c \in Canceller, DiscardQueue(c) PROVE TasksListed'
  BY <1>1, <1>2, <1>10 DEF DiscardQueue
<1>11. ASSUME NEW s \in Session, TimerExpires(s) PROVE TasksListed'
  <2>1. s \in Canceller /\ place' = place /\ BeginCancel(s, s)
    BY <1>11 DEF Canceller, TimerExpires
  <2>. QED  BY <1>0, <2>1, ListedCancel
<1>12. ASSUME NEW t \in Msg, \/ TaskStart(t) \/ TaskNeverStarts(t)
                             \/ TurnBegin(t) \/ Drain(t)
       PROVE  TasksListed'
  BY <1>1, <1>12 DEF TaskStart, TaskNeverStarts, TurnBegin, Drain
<1>13. ASSUME NEW t \in Msg, TaskAborts(t) \/ TurnEnds(t) PROVE TasksListed'
  <2>1. TaskAborts(t) \/ \E outcome : Finish(t, outcome)
    BY <1>13 DEF TurnEnds, TurnReturns, TurnFails, TurnInterrupted
  <2>2. /\ place'[t] \in Finished /\ Release(t) /\ UNCHANGED cancelled
        /\ \A m \in Msg \ {t} : place'[m] \in {place[m], "inbound"}
    BY <2>1, Ending
  <2>3. \A m \in Msg : place'[m] = "created" => place[m] = "created"
    BY <2>2 DEF Finished
  <2>. QED  BY <1>0, <2>2, <2>3, ListedRelease
<1>14. CASE UNCHANGED vars
  BY <1>2, <1>14 DEF vars
<1>. QED  BY <1>3, <1>4, <1>5, <1>6, <1>7, <1>8, <1>9, <1>10, <1>11, <1>12, <1>13, <1>14
          DEF Next, Route

\* A step that answers waiters, or leaves them, and finishes no automation.
LEMMA WaiterKept ==
    ASSUME WaiterHasTurn, Steps,
           \A m \in Automation : waiter'[m] = "pending" =>
              waiter[m] = "pending" /\ place'[m] # "done"
    PROVE  WaiterHasTurn'
BY DispatchAssumption DEF WaiterHasTurn, Steps, After, Msg

LEMMA NextWaiter == QueueInv /\ Brews /\ WaiterHasTurn /\ [Next]_vars => WaiterHasTurn'
<1>. SUFFICES ASSUME QueueInv, Brews, WaiterHasTurn, [Next]_vars PROVE WaiterHasTurn'
  OBVIOUS
<1>0. Steps /\ TypeOK
  BY LifeOfMessage DEF QueueInv
<1>a. \A m \in Automation : waiter[m] = "pending" => place[m] # "done"
  BY DEF WaiterHasTurn
<1>1. ASSUME UNCHANGED waiter, NEW S, NEW to \in Place \ {"done"}, place' = Moved(S, to)
      PROVE  WaiterHasTurn'
  BY <1>0, <1>a, <1>1, WaiterKept DEF Moved, Msg
<1>2. ASSUME UNCHANGED <<place, waiter>> PROVE WaiterHasTurn'
  BY <1>2 DEF WaiterHasTurn
<1>. USE DEF Place
<1>3. ASSUME NEW m \in Msg, Send(m) \/ Announce(m) PROVE WaiterHasTurn'
  BY <1>1, <1>3 DEF Send, Announce
<1>4. ASSUME NEW m \in Msg, Submit(m) PROVE WaiterHasTurn'
  <2>1. \A n \in Automation : n \in Msg
    BY DEF Msg
  <2>2. \A n \in Automation : place'[n] = IF n = m THEN "inbound" ELSE place[n]
    BY <1>4, <2>1 DEF Submit, Moved
  <2>3. \A n \in Automation : n # m => waiter'[n] = waiter[n]
    BY <1>0, <1>4 DEF Submit, TypeOK
  <2>. QED  BY <2>2, <2>3 DEF WaiterHasTurn
<1>5. ASSUME NEW m \in Automation, Abandon(m) PROVE WaiterHasTurn'
  BY <1>0, <1>5 DEF Abandon, WaiterHasTurn, TypeOK
<1>6. ASSUME NEW t \in Msg, NEW m \in Msg, Spawn(t, m) PROVE WaiterHasTurn'
  BY <1>1, <1>6 DEF Spawn
<1>7. ASSUME NEW m \in Msg, StopCommand(m) PROVE WaiterHasTurn'
  <2>1. \A n \in Automation : n \in Msg /\ n # m
    BY <1>7, DispatchAssumption DEF StopCommand, Msg
  <2>2. \A n \in Automation : place'[n] = place[n] /\ waiter' = waiter
    BY <1>7, <2>1 DEF StopCommand, Moved
  <2>. QED  BY <2>2 DEF WaiterHasTurn
<1>8. ASSUME NEW m \in Msg, Defer(m) \/ RouteToTurn(m) \/ CreateTask(m) PROVE WaiterHasTurn'
  BY <1>1, <1>8 DEF Defer, RouteToTurn, CreateTask
<1>9. ASSUME NEW c \in Canceller, CancelSubagents(c) PROVE WaiterHasTurn'
  BY <1>1, <1>9 DEF CancelSubagents
<1>10. ASSUME NEW c \in Canceller, DiscardQueue(c) PROVE WaiterHasTurn'
  BY <1>1, <1>2, <1>10 DEF DiscardQueue
<1>11. ASSUME NEW s \in Session, TimerExpires(s) PROVE WaiterHasTurn'
  BY <1>2, <1>11 DEF TimerExpires
<1>12. ASSUME NEW t \in Msg, \/ TaskStart(t) \/ TaskNeverStarts(t)
                             \/ TurnBegin(t) \/ Drain(t)
       PROVE  WaiterHasTurn'
  BY <1>1, <1>12 DEF TaskStart, TaskNeverStarts, TurnBegin, Drain
<1>13. ASSUME NEW t \in Msg, TaskAborts(t) PROVE WaiterHasTurn'
  <2>1. \A m \in Msg \ {t} : place'[m] \in {place[m], "inbound"}
    BY <1>13, Ending
  <2>2. place'[t] \in {"aborted", "inbound"} /\ waiter' = waiter
    BY <1>13 DEF TaskAborts
  <2>3. \A m \in Automation : m \in Msg
    BY DEF Msg
  <2>. QED  BY <1>0, <1>a, <2>1, <2>2, <2>3, WaiterKept
<1>14. ASSUME NEW t \in Msg, TurnEnds(t) PROVE WaiterHasTurn'
  <2>1. PICK outcome \in {"ok", "error"} : Finish(t, outcome)
    BY <1>14 DEF TurnEnds, TurnReturns, TurnFails, TurnInterrupted
  <2>2. \A m \in Msg \ {t} : place'[m] \in {place[m], "inbound"}
    BY <2>1, Ending
  <2>3. \A m \in Automation : waiter'[m] = "pending" => m # t /\ waiter[m] = "pending"
    BY <2>1 DEF Finish, Answer
  <2>4. \A m \in Automation : m \in Msg
    BY DEF Msg
  <2>. QED  BY <1>0, <1>a, <2>2, <2>3, <2>4, WaiterKept
<1>15. CASE UNCHANGED vars
  BY <1>2, <1>15 DEF vars
<1>. QED  BY <1>3, <1>4, <1>5, <1>6, <1>7, <1>8, <1>9, <1>10, <1>11, <1>12, <1>13, <1>14,
             <1>15 DEF Next, Route

LEMMA DispatchInvariant == Spec => []DispatchInv
<1>1. Init => DispatchInv
  <2>1. Init => QueueInv
    BY InitType, InitQueues DEF QueueInv
  <2>2. Init => Brews /\ LockIsFifo /\ TasksListed /\ WaiterHasTurn
    BY DEF Init, Brews, LockIsFifo, TasksListed, StopFindsEveryTask, WaiterHasTurn
  <2>. QED  BY <2>1, <2>2 DEF DispatchInv
<1>2. DispatchInv /\ [Next]_vars => DispatchInv'
  <2>1. QueueInv /\ [Next]_vars => QueueInv'
    BY NextType, NextQueues DEF QueueInv
  <2>2. ASSUME Brews, Steps PROVE Brews'
    BY <2>2 DEF Brews, Steps, After
  <2>. QED  BY <2>1, <2>2, LifeOfMessage, NextLock, NextListed, NextWaiter DEF DispatchInv
<1>. QED  BY <1>1, <1>2, PTL DEF Spec

\* A session's lock is first come, first served, and only its head may run.
THEOREM LockOrder == Spec => []LockIsFifo
<1>1. DispatchInv => LockIsFifo
  BY DEF DispatchInv
<1>. QED  BY <1>1, DispatchInvariant, PTL

\* Two turns of one session never run at the same time.
THEOREM Serial == Spec => []OneTurnPerSession
<1>1. DispatchInv => OneTurnPerSession
  BY DEF DispatchInv, LockIsFifo, OneTurnPerSession
<1>. QED  BY <1>1, DispatchInvariant, PTL

\* /stop and the goal-wait timer reach every task of their session.
THEOREM StopIsComplete == Spec => []StopFindsEveryTask
<1>1. DispatchInv => StopFindsEveryTask
  BY DEF DispatchInv, TasksListed
<1>. QED  BY <1>1, DispatchInvariant, PTL

\* An unanswered submitter's message is on its way to a turn of its own, or was
\* cancelled before it got one: no drain swallows it.
THEOREM WaitersHaveTurns == Spec => []WaiterHasTurn
<1>1. DispatchInv => WaiterHasTurn
  BY DEF DispatchInv
<1>. QED  BY <1>1, DispatchInvariant, PTL

\* The task of one session is never cancelled for another.
THEOREM CancellationIsLocal == Spec => InterruptedByOwnSession
<1>1. DispatchInv /\ [Next]_vars =>
        [\A t \in Msg : t \in cancelled' \ cancelled =>
           \E c \in Canceller : canceller'[c].stage = "tasks" /\ canceller'[c].key = Key[t]]_vars
  <2>. SUFFICES ASSUME DispatchInv, Next, NEW t \in Msg, t \in cancelled' \ cancelled
                PROVE  \E c \in Canceller : canceller'[c].stage = "tasks" /\ canceller'[c].key = Key[t]
    OBVIOUS
  <2>1. \E c \in Canceller, s \in Session : BeginCancel(c, s)
    BY KeyType DEF Next, Route, Send, Submit, Announce, Abandon, Spawn, StopCommand, Defer,
         RouteToTurn, CreateTask, CancelSubagents, DiscardQueue, TimerExpires, TaskStart,
         TaskNeverStarts, TaskAborts, TurnBegin, Drain, TurnEnds, TurnReturns, TurnFails,
         TurnInterrupted, Finish, Canceller
  <2>2. PICK c \in Canceller, s \in Session : BeginCancel(c, s)
    BY <2>1
  <2>3. t \in active[s] /\ Key[t] = s
    BY <2>2 DEF BeginCancel, DispatchInv, TasksListed
  <2>4. canceller'[c] = [stage |-> "tasks", key |-> s, waits |-> active[s]]
    BY <2>2 DEF BeginCancel, DispatchInv, QueueInv, TypeOK
  <2>. QED  BY <2>3, <2>4
<1>. QED  BY <1>1, DispatchInvariant, PTL DEF Spec, InterruptedByOwnSession

=============================================================================
