------------------------- MODULE ConsolidationProofs -------------------------
(***************************************************************************)
(* Proofs about Consolidation, for every set of objects, every window,     *)
(* suffix and file cap, and every number of rounds, messages and crashes.  *)
(***************************************************************************)
EXTENDS Consolidation, SequenceTheorems, FiniteSetTheorems,
        WellFoundedInduction, TLAPS

-----------------------------------------------------------------------------
(* The inductive invariant.                                                *)

\* The messages the session may hold: accepted, and not before a /new.
Current == {i \in 1..sent : crossed \/ i > fence}

Crashed == crashes > 0

\* What must still be in the file: accepted, not accounted for, not taken.
Missing == (1..sent) \ (archived \cup cleared)

\* The messages after the cursor.
Behind(s) == Ids(Tail_(s))

\* Sessions whose messages and summary come from A; those an object may hold,
\* and those the file may hold, where a crash may have cut off the end.
Made(A) == {s \in Session : Ids(s.msgs) \subseteq A /\ s.sum \in A \cup {0}}
Alive(A, c) == {s \in Made(A) : c \/ s.lc <= Len(s.msgs)}
Filed(A, c, k) == {s \in Made(A) : c \/ k \/ s.lc <= Len(s.msgs)}

Worlds(A, c, k) ==
    [heap : [Obj -> Alive(A, c)], cached : Obj \cup {None}, disk : Filed(A, c, k)]

\* The messages the turn in progress will still add.
Reserved(pc) == IF pc = "build" THEN 2 ELSE IF pc = "run" THEN 1 ELSE 0

ControlTypes ==
    /\ turn \in [pc : {"idle", "build", "run"}, obj : Obj \cup {None},
                 direct : BOOLEAN, at : 0..sent, prompt : SUBSET (1..MaxMessages)]
    /\ job \in JobType
    /\ sent \in 0..MaxMessages /\ fence \in 0..sent
    /\ archived \subseteq 1..sent /\ cleared \subseteq 1..sent
    /\ snaps \subseteq SUBSET (1..sent)
    /\ crossed \in BOOLEAN /\ crashes \in 0..MaxCrashes

In(x, q) == \E i \in 1..Len(q) : q[i] = x

\* Nobody queues twice, and a turn has no background job of an earlier turn
\* behind it.
Ordered(q) ==
    /\ q \in Seq(Holder)
    /\ \A i, j \in 1..Len(q) : q[i] = q[j] => i = j
    /\ \A i, j \in 1..Len(q) : i < j => ~(q[i] = "turn" /\ q[j] = "background")

\* The lock: its queue in the order of Begin and End.
LockOrder ==
    /\ Ordered(queue)
    /\ Awaiting => queue # <<>> /\ (job.pc = "compact" <=> Head(queue) = "idle")
    /\ (turn.pc = "build") <=> In("turn", queue)
    /\ turn.pc = "run" => ~In("background", queue)

Steady ==
    /\ turn.pc = "idle" => turn = NoTurn
    /\ turn.pc # "idle" => turn.obj \in Obj
    /\ job.pc = "none" => job = NoJob
    /\ job.pc # "none" => job.obj \in Obj
    /\ sent + Reserved(turn.pc) <= MaxMessages

\* Everything held in memory or on disk is current.
Sound ==
    /\ store \in Worlds(Current, crossed, Crashed)
    /\ job.chunk \subseteq Current /\ job.all \subseteq Current
    /\ Ids(job.keep) \subseteq Current
    /\ job.sum \in Current \cup {0} /\ hot \in Current \cup {0}
    /\ job.pc = "compact" => job.chunk \subseteq job.all

\* What the awaited job will do to the messages after the cursor of s.
Fits(j, s) ==
    /\ j.pc \in {"overflow", "round"} =>
         /\ j.end <= Len(s.msgs)
         /\ Ids(SubSeq(s.msgs, s.lc + 1, j.end)) \subseteq j.chunk
    /\ j.pc = "compact" => Behind(s) \subseteq j.chunk \cup Ids(j.keep)

\* Unless a write crossed a job: nothing missing has left the file or an
\* object somebody may still save, and the job has the cached object.
Covered ==
    ~crossed =>
        /\ Missing \subseteq Behind(store.disk)
        /\ \A o \in Refs : Missing \subseteq Behind(store.heap[o])
        /\ Awaiting => job.obj = store.cached /\ Fits(job, store.heap[job.obj])

Inv == ControlTypes /\ LockOrder /\ Steady /\ Sound /\ Covered

-----------------------------------------------------------------------------
(* Sequences of messages.                                                  *)

LEMMA IdsInMessages ==
    ASSUME NEW s \in Seq(Message)
    PROVE  Ids(s) \subseteq 1..MaxMessages
<1>. SUFFICES ASSUME NEW i \in 1..Len(s) PROVE s[i].id \in 1..MaxMessages
  BY DEF Ids
<1>. s[i] \in Message
  BY ElementOfSeq
<1>. QED  BY DEF Message

LEMMA Part ==
    ASSUME NEW s \in Seq(Message), NEW m \in Nat, NEW n \in Nat, m >= 1, n <= Len(s)
    PROVE  /\ SubSeq(s, m, n) \in Seq(Message)
           /\ Len(SubSeq(s, m, n)) = IF m <= n THEN n - m + 1 ELSE 0
           /\ \A i \in 1..Len(SubSeq(s, m, n)) : SubSeq(s, m, n)[i] = s[m + i - 1]
           /\ Ids(SubSeq(s, m, n)) = {s[i].id : i \in m..n}
<1> DEFINE t == SubSeq(s, m, n)
<1>1. Len(s) \in Nat
  BY LenProperties
<1>2. \A i \in m..n : s[i] \in Message
  <2>. TAKE i \in m..n
  <2>. i \in 1..Len(s)
    BY <1>1
  <2>. QED  BY ElementOfSeq
<1>3. /\ t \in Seq(Message)
      /\ Len(t) = IF m <= n THEN n - m + 1 ELSE 0
      /\ \A i \in 1..(n - m + 1) : t[i] = s[m + i - 1]
  <2>. m \in Int /\ n \in Int
    OBVIOUS
  <2>. QED  BY <1>2, SubSeqProperties
<1> HIDE DEF t
<1>4. \A i \in 1..Len(t) : t[i] = s[m + i - 1]
  BY <1>3
<1>5. Ids(t) = {s[i].id : i \in m..n}
  <2>1. ASSUME NEW i \in 1..Len(t) PROVE t[i].id \in {s[j].id : j \in m..n}
    <3>1. t[i] = s[m + i - 1] /\ m + i - 1 \in m..n
      BY <1>3
    <3>. QED  BY <3>1
  <2>2. ASSUME NEW j \in m..n PROVE s[j].id \in {t[i].id : i \in 1..Len(t)}
    <3>1. j - m + 1 \in 1..Len(t) /\ m + (j - m + 1) - 1 = j
      BY <1>3
    <3>2. t[j - m + 1] = s[j]
      BY <1>4, <3>1
    <3>. QED  BY <3>1, <3>2
  <2>. QED  BY <2>1, <2>2 DEF Ids
<1>. QED  BY <1>3, <1>4, <1>5 DEF t

LEMMA IdsAppend ==
    ASSUME NEW s \in Seq(Message), NEW m \in Message
    PROVE  Ids(Append(s, m)) = Ids(s) \cup {m.id}
<1> DEFINE t == Append(s, m)
<1>1. /\ t \in Seq(Message) /\ Len(t) = Len(s) + 1 /\ Len(s) \in Nat
      /\ \A i \in 1..Len(s) : t[i] = s[i]
      /\ t[Len(s) + 1] = m
  BY AppendProperties, LenProperties
<1> HIDE DEF t
<1>2. ASSUME NEW i \in 1..Len(t) PROVE t[i].id \in Ids(s) \cup {m.id}
  <2>1. CASE i \in 1..Len(s)
    BY <1>1, <2>1 DEF Ids
  <2>2. CASE i = Len(s) + 1
    BY <1>1, <2>2
  <2>. QED  BY <1>1, <2>1, <2>2
<1>3. ASSUME NEW i \in 1..Len(s) PROVE s[i].id \in Ids(t)
  <2>1. i \in 1..Len(t) /\ t[i] = s[i]
    BY <1>1
  <2>. QED  BY <2>1 DEF Ids
<1>4. m.id \in Ids(t)
  <2>1. Len(s) + 1 \in 1..Len(t)
    BY <1>1
  <2>. QED  BY <1>1, <2>1 DEF Ids
<1>. QED  BY <1>2, <1>3, <1>4 DEF Ids, t

LEMMA SessionFields ==
    ASSUME NEW s \in Session
    PROVE  /\ s.msgs \in Seq(Message) /\ s.lc \in Nat /\ s.sum \in Nat
           /\ Len(s.msgs) \in Nat
           /\ \A i \in 1..Len(s.msgs) : s.msgs[i] \in Message
<1>1. s.msgs \in Seq(Message) /\ s.lc \in Nat /\ s.sum \in Nat
  BY DEF Session
<1>. QED  BY <1>1, LenProperties, ElementOfSeq

LEMMA BehindIds ==
    ASSUME NEW s \in Session
    PROVE  /\ Tail_(s) \in Seq(Message)
           /\ Len(Tail_(s)) = IF s.lc < Len(s.msgs) THEN Len(s.msgs) - s.lc ELSE 0
           /\ \A i \in 1..Len(Tail_(s)) : Tail_(s)[i] = s.msgs[s.lc + i]
           /\ Behind(s) = {s.msgs[i].id : i \in (s.lc + 1)..Len(s.msgs)}
           /\ Behind(s) \subseteq Ids(s.msgs)
<1>1. /\ s.msgs \in Seq(Message) /\ s.lc \in Nat /\ Len(s.msgs) \in Nat
  BY SessionFields
<1>2. s.lc + 1 \in Nat /\ s.lc + 1 >= 1
  BY <1>1
<1> DEFINE t == SubSeq(s.msgs, s.lc + 1, Len(s.msgs))
<1>7. /\ t \in Seq(Message)
      /\ Len(t) = IF s.lc + 1 <= Len(s.msgs) THEN Len(s.msgs) - (s.lc + 1) + 1 ELSE 0
      /\ \A i \in 1..Len(t) : t[i] = s.msgs[(s.lc + 1) + i - 1]
      /\ Ids(t) = {s.msgs[i].id : i \in (s.lc + 1)..Len(s.msgs)}
  <2> DEFINE q == s.msgs
             m == s.lc + 1
             n == Len(s.msgs)
  <2>1. q \in Seq(Message) /\ m \in Nat /\ n \in Nat /\ m >= 1 /\ n <= Len(q)
    BY <1>1
  <2> HIDE DEF q, m, n
  <2>2. /\ SubSeq(q, m, n) \in Seq(Message)
        /\ Len(SubSeq(q, m, n)) = IF m <= n THEN n - m + 1 ELSE 0
        /\ \A i \in 1..Len(SubSeq(q, m, n)) : SubSeq(q, m, n)[i] = q[m + i - 1]
        /\ Ids(SubSeq(q, m, n)) = {q[i].id : i \in m..n}
    BY <2>1, Part
  <2>. QED  BY <2>2 DEF q, m, n
<1> HIDE DEF t
<1>8. t = Tail_(s) /\ Behind(s) = Ids(t)
  BY DEF t, Tail_, Behind
<1>3. /\ Tail_(s) \in Seq(Message)
      /\ Len(Tail_(s)) = IF s.lc + 1 <= Len(s.msgs) THEN Len(s.msgs) - (s.lc + 1) + 1 ELSE 0
      /\ \A i \in 1..Len(Tail_(s)) : Tail_(s)[i] = s.msgs[(s.lc + 1) + i - 1]
      /\ Behind(s) = {s.msgs[i].id : i \in (s.lc + 1)..Len(s.msgs)}
  BY <1>7, <1>8
<1>4. Len(Tail_(s)) = IF s.lc < Len(s.msgs) THEN Len(s.msgs) - s.lc ELSE 0
  BY <1>1, <1>3
<1>5. ASSUME NEW i \in 1..Len(Tail_(s)) PROVE Tail_(s)[i] = s.msgs[s.lc + i]
  <2>1. (s.lc + 1) + i - 1 = s.lc + i
    BY <1>1
  <2>. QED  BY <1>3, <2>1
<1>6. Behind(s) \subseteq Ids(s.msgs)
  <2>1. (s.lc + 1)..Len(s.msgs) \subseteq 1..Len(s.msgs)
    BY <1>1
  <2>. QED  BY <1>3, <2>1 DEF Ids
<1>. QED  BY <1>3, <1>4, <1>5, <1>6

LEMMA PlusMade ==
    ASSUME NEW s \in Session, NEW k \in Kind, NEW n \in 1..MaxMessages
    PROVE  /\ Plus(s, k, n) \in Session
           /\ Len(Plus(s, k, n).msgs) = Len(s.msgs) + 1
           /\ Plus(s, k, n).lc = s.lc /\ Plus(s, k, n).sum = s.sum
           /\ Ids(Plus(s, k, n).msgs) \subseteq Ids(s.msgs) \cup {n}
           /\ \A i \in 1..Len(s.msgs) : Plus(s, k, n).msgs[i] = s.msgs[i]
           /\ s.lc <= Len(s.msgs) => Behind(s) \cup {n} \subseteq Behind(Plus(s, k, n))
<1> DEFINE m == New_(k, n)
           t == Plus(s, k, n)
<1>1. m \in Message /\ m.id = n
  BY DEF New_, Message
<1>2. /\ s.msgs \in Seq(Message) /\ s.lc \in Nat /\ s.sum \in Nat /\ Len(s.msgs) \in Nat
  BY SessionFields
<1>3. /\ Append(s.msgs, m) \in Seq(Message)
      /\ Len(Append(s.msgs, m)) = Len(s.msgs) + 1
      /\ \A i \in 1..Len(s.msgs) : Append(s.msgs, m)[i] = s.msgs[i]
      /\ Append(s.msgs, m)[Len(s.msgs) + 1] = m
  BY <1>1, <1>2, AppendProperties
<1>4. Ids(Append(s.msgs, m)) = Ids(s.msgs) \cup {n}
  BY <1>1, <1>2, IdsAppend
<1>5. t = [s EXCEPT !.msgs = Append(s.msgs, m)]
  BY DEF Plus
<1> HIDE DEF m
<1>6. /\ t \in Session /\ t.msgs = Append(s.msgs, m) /\ t.lc = s.lc /\ t.sum = s.sum
  BY <1>3, <1>5 DEF Session
<1> HIDE DEF t
<1>7. ASSUME s.lc <= Len(s.msgs) PROVE Behind(t) = Behind(s) \cup {n}
  <2>1. Behind(t) = {t.msgs[i].id : i \in (s.lc + 1)..(Len(s.msgs) + 1)}
    BY <1>3, <1>6, BehindIds
  <2>2. Behind(s) = {s.msgs[i].id : i \in (s.lc + 1)..Len(s.msgs)}
    BY BehindIds
  <2>3. ASSUME NEW i \in (s.lc + 1)..(Len(s.msgs) + 1) PROVE t.msgs[i].id \in Behind(s) \cup {n}
    <3>1. CASE i \in (s.lc + 1)..Len(s.msgs)
      <4>. i \in 1..Len(s.msgs)
        BY <1>2, <3>1
      <4>. QED  BY <1>3, <1>6, <2>2, <3>1
    <3>2. CASE i = Len(s.msgs) + 1
      BY <1>1, <1>3, <1>6, <3>2
    <3>. QED  BY <1>2, <3>1, <3>2
  <2>4. ASSUME NEW i \in (s.lc + 1)..Len(s.msgs) PROVE s.msgs[i].id \in Behind(t)
    <3>1. i \in 1..Len(s.msgs) /\ i \in (s.lc + 1)..(Len(s.msgs) + 1)
      BY <1>2
    <3>. QED  BY <1>3, <1>6, <2>1, <3>1
  <2>5. n \in Behind(t)
    <3>1. Len(s.msgs) + 1 \in (s.lc + 1)..(Len(s.msgs) + 1)
      BY <1>2, <1>7
    <3>. QED  BY <1>1, <1>3, <1>6, <2>1, <3>1
  <2>. QED  BY <2>1, <2>2, <2>3, <2>4, <2>5
<1>. QED  BY <1>3, <1>4, <1>6, <1>7 DEF t

LEMMA LoadedMade ==
    ASSUME NEW s \in Session
    PROVE  /\ Loaded(s) \in Session /\ Loaded(s).lc <= Len(s.msgs)
           /\ Loaded(s).msgs = s.msgs /\ Loaded(s).sum = s.sum
           /\ Behind(s) \subseteq Behind(Loaded(s))
<1>1. s.msgs \in Seq(Message) /\ s.lc \in Nat /\ s.sum \in Nat /\ Len(s.msgs) \in Nat
  BY SessionFields
<1>2. CASE s.lc > Len(s.msgs)
  <2>1. /\ Loaded(s) \in Session /\ Loaded(s).lc = 0
        /\ Loaded(s).msgs = s.msgs /\ Loaded(s).sum = s.sum
    BY <1>1, <1>2 DEF Loaded, Session
  <2>2. (s.lc + 1)..Len(s.msgs) = {}
    BY <1>1, <1>2
  <2>3. Behind(s) = {}
    BY <2>2, BehindIds
  <2>. QED  BY <1>1, <2>1, <2>3
<1>3. CASE ~(s.lc > Len(s.msgs))
  BY <1>1, <1>3 DEF Loaded
<1>. QED  BY <1>2, <1>3

-----------------------------------------------------------------------------
(* The queue of the lock.                                                  *)

LEMMA AppendOrdered ==
    ASSUME NEW q, Ordered(q), NEW x \in Holder, ~In(x, q),
           x = "background" => ~In("turn", q)
    PROVE  /\ Ordered(Append(q, x)) /\ Append(q, x) # <<>>
           /\ \A y : In(y, Append(q, x)) <=> In(y, q) \/ y = x
           /\ q # <<>> => Head(Append(q, x)) = Head(q)
<1> DEFINE t == Append(q, x)
<1>1. q \in Seq(Holder) /\ Len(q) \in Nat
  BY LenProperties DEF Ordered
<1>2. /\ t \in Seq(Holder) /\ t # <<>> /\ Len(t) = Len(q) + 1
      /\ \A i \in 1..Len(q) : t[i] = q[i]
      /\ t[Len(q) + 1] = x
  BY <1>1, AppendProperties
<1>3. q # <<>> => Head(t) = Head(q)
  BY <1>1, HeadTailAppend
<1> HIDE DEF t
<1>4. 1..Len(t) = 1..Len(q) \cup {Len(q) + 1} /\ Len(q) + 1 \notin 1..Len(q)
  BY <1>1, <1>2
<1>5. \A i \in 1..Len(q) : q[i] # x
  BY DEF In
<1>6. \A i, j \in 1..Len(t) : t[i] = t[j] => i = j
  BY <1>2, <1>4, <1>5 DEF Ordered
<1>7. ASSUME NEW i \in 1..Len(t), NEW j \in 1..Len(t), i < j, t[i] = "turn", t[j] = "background"
      PROVE  FALSE
  <2>1. i \in 1..Len(q)
    BY <1>1, <1>2, <1>7
  <2>2. q[i] = "turn"
    BY <1>2, <1>7, <2>1
  <2>3. CASE j \in 1..Len(q)
    BY <1>2, <1>7, <2>1, <2>2, <2>3 DEF Ordered
  <2>4. CASE j = Len(q) + 1
    BY <1>2, <1>7, <2>1, <2>2, <2>4 DEF In
  <2>. QED  BY <1>4, <2>3, <2>4
<1>8. Ordered(t)
  BY <1>2, <1>6, <1>7 DEF Ordered
<1>9. \A y : In(y, t) <=> In(y, q) \/ y = x
  BY <1>2, <1>4 DEF In
<1>. QED  BY <1>2, <1>3, <1>8, <1>9 DEF t

LEMMA TailOrdered ==
    ASSUME NEW q, Ordered(q), q # <<>>
    PROVE  /\ Ordered(Tail(q)) /\ In(Head(q), q) /\ Head(q) \in Holder
           /\ \A y : In(y, Tail(q)) <=> In(y, q) /\ y # Head(q)
           /\ Head(q) = "turn" => ~In("background", q)
<1> DEFINE t == Tail(q)
<1>1. /\ q \in Seq(Holder) /\ Len(q) \in Nat \ {0} /\ Head(q) \in Holder
      /\ t \in Seq(Holder) /\ Len(t) = Len(q) - 1
      /\ \A i \in 1..Len(t) : t[i] = q[i + 1]
  BY HeadTailProperties, EmptySeq DEF Ordered
<1>2. Head(q) = q[1]
  BY <1>1
<1> HIDE DEF t
<1>3. /\ \A i \in 1..Len(t) : i + 1 \in 1..Len(q) /\ i + 1 # 1
      /\ \A i \in 1..Len(q) : i # 1 => i - 1 \in 1..Len(t) /\ (i - 1) + 1 = i
      /\ 1 \in 1..Len(q)
  BY <1>1
<1>4. ASSUME NEW i \in 1..Len(t), NEW j \in 1..Len(t), t[i] = t[j] PROVE i = j
  <2>1. i + 1 \in 1..Len(q) /\ j + 1 \in 1..Len(q) /\ q[i + 1] = q[j + 1]
    BY <1>1, <1>3, <1>4
  <2>2. i + 1 = j + 1
    BY <2>1 DEF Ordered
  <2>. QED  BY <2>2
<1>5. ASSUME NEW i \in 1..Len(t), NEW j \in 1..Len(t), i < j, t[i] = "turn", t[j] = "background"
      PROVE  FALSE
  <2>1. /\ i + 1 \in 1..Len(q) /\ j + 1 \in 1..Len(q) /\ i + 1 < j + 1
        /\ q[i + 1] = "turn" /\ q[j + 1] = "background"
    BY <1>1, <1>3, <1>5
  <2>. QED  BY <2>1 DEF Ordered
<1>6. Ordered(t)
  BY <1>1, <1>4, <1>5 DEF Ordered
<1>7. In(Head(q), q)
  BY <1>2, <1>3 DEF In
<1>8. ASSUME NEW y PROVE In(y, t) <=> In(y, q) /\ y # Head(q)
  <2>1. ASSUME NEW i \in 1..Len(t), t[i] = y PROVE In(y, q) /\ y # Head(q)
    <3>1. i + 1 \in 1..Len(q) /\ i + 1 # 1 /\ q[i + 1] = y
      BY <1>1, <1>3, <2>1
    <3>2. q[i + 1] # q[1]
      BY <1>3, <3>1 DEF Ordered
    <3>. QED  BY <1>2, <3>1, <3>2 DEF In
  <2>2. ASSUME NEW i \in 1..Len(q), q[i] = y, y # Head(q) PROVE In(y, t)
    <3>1. i - 1 \in 1..Len(t) /\ (i - 1) + 1 = i
      BY <1>2, <1>3, <2>2
    <3>2. t[i - 1] = q[i]
      BY <1>1, <3>1
    <3>. QED  BY <2>2, <3>1, <3>2 DEF In
  <2>. QED  BY <2>1, <2>2 DEF In
<1>9. ASSUME Head(q) = "turn", NEW j \in 1..Len(q), q[j] = "background" PROVE FALSE
  <2>1. j # 1
    BY <1>2, <1>9
  <2>2. 1 < j
    BY <1>1, <2>1
  <2>. QED  BY <1>2, <1>3, <1>9, <2>2 DEF Ordered
<1>. QED  BY <1>1, <1>6, <1>7, <1>8, <1>9 DEF t, In

LEMMA WithoutOrdered ==
    ASSUME NEW q, Ordered(q), NEW x, In(x, q)
    PROVE  /\ Ordered(Without(q, x))
           /\ \A y : In(y, Without(q, x)) <=> In(y, q) /\ y # x
           /\ Head(q) # x => Without(q, x) # <<>> /\ Head(Without(q, x)) = Head(q)
<1>1. /\ q \in Seq(Holder) /\ Len(q) \in Nat
      /\ \A i \in 1..Len(q) : q[i] \in Holder
  BY LenProperties, ElementOfSeq DEF Ordered
<1> DEFINE k == CHOOSE i \in 1..Len(q) : q[i] = x
<1>2. k \in 1..Len(q) /\ q[k] = x
  BY DEF In
<1>3. Without(q, x) = SubSeq(q, 1, k - 1) \o SubSeq(q, k + 1, Len(q))
  BY DEF Without
<1> HIDE DEF k
<1> DEFINE a == SubSeq(q, 1, k - 1)
           b == SubSeq(q, k + 1, Len(q))
           t == a \o b
<1>4. /\ a \in Seq(Holder) /\ Len(a) = k - 1
      /\ \A i \in 1..(k - 1) : a[i] = q[i]
  <2>1. 1 \in Int /\ k - 1 \in Int /\ \A i \in 1..(k - 1) : q[i] \in Holder
    BY <1>1, <1>2
  <2>2. /\ a \in Seq(Holder) /\ Len(a) = IF 1 <= k - 1 THEN (k - 1) - 1 + 1 ELSE 0
        /\ \A i \in 1..((k - 1) - 1 + 1) : a[i] = q[1 + i - 1]
    BY <2>1, SubSeqProperties
  <2> HIDE DEF a
  <2>. QED  BY <1>2, <2>2
<1>5. /\ b \in Seq(Holder) /\ Len(b) = Len(q) - k
      /\ \A i \in 1..(Len(q) - k) : b[i] = q[k + i]
  <2>1. k + 1 \in Int /\ Len(q) \in Int /\ \A i \in (k + 1)..Len(q) : q[i] \in Holder
    BY <1>1, <1>2
  <2>2. /\ b \in Seq(Holder) /\ Len(b) = IF k + 1 <= Len(q) THEN Len(q) - (k + 1) + 1 ELSE 0
        /\ \A i \in 1..(Len(q) - (k + 1) + 1) : b[i] = q[(k + 1) + i - 1]
    BY <2>1, SubSeqProperties
  <2> HIDE DEF b
  <2>3. Len(b) = Len(q) - k
    BY <1>1, <1>2, <2>2
  <2>4. ASSUME NEW i \in 1..(Len(q) - k) PROVE b[i] = q[k + i]
    <3>1. (k + 1) + i - 1 = k + i /\ i \in 1..(Len(q) - (k + 1) + 1)
      BY <1>1, <1>2
    <3>. QED  BY <2>2, <3>1
  <2>. QED  BY <2>2, <2>3, <2>4
<1> HIDE DEF a, b
<1>6. /\ t \in Seq(Holder) /\ Len(t) = Len(a) + Len(b)
      /\ \A i \in 1..(Len(a) + Len(b)) : t[i] = IF i <= Len(a) THEN a[i] ELSE b[i - Len(a)]
  BY <1>4, <1>5, ConcatProperties
<1> HIDE DEF t
<1>7. Len(t) = Len(q) - 1
  BY <1>1, <1>2, <1>4, <1>5, <1>6
\* Where the entry at i was.
<1> DEFINE at(i) == IF i < k THEN i ELSE i + 1
<1>8. ASSUME NEW i \in 1..Len(t)
      PROVE  at(i) \in 1..Len(q) /\ at(i) # k /\ t[i] = q[at(i)]
  <2>1. CASE i < k
    <3>1. i <= Len(a) /\ i \in 1..(k - 1) /\ i \in 1..(Len(a) + Len(b)) /\ i \in 1..Len(q) /\ i # k
      BY <1>1, <1>2, <1>4, <1>5, <1>7, <2>1
    <3>2. t[i] = a[i] /\ a[i] = q[i]
      BY <1>4, <1>6, <3>1
    <3>. QED  BY <2>1, <3>1, <3>2
  <2>2. CASE ~(i < k)
    <3>1. /\ ~(i <= Len(a)) /\ i \in 1..(Len(a) + Len(b)) /\ i - Len(a) \in 1..(Len(q) - k)
          /\ k + (i - Len(a)) = i + 1 /\ i + 1 \in 1..Len(q) /\ i + 1 # k
      BY <1>1, <1>2, <1>4, <1>5, <1>7, <2>2
    <3>2. t[i] = b[i - Len(a)] /\ b[i - Len(a)] = q[k + (i - Len(a))]
      BY <1>5, <1>6, <3>1
    <3>. QED  BY <2>2, <3>1, <3>2
  <2>. QED  BY <2>1, <2>2
<1>9. /\ \A i, j \in 1..Len(t) : at(i) = at(j) => i = j
      /\ \A i, j \in 1..Len(t) : i < j => at(i) < at(j)
      /\ \A l \in 1..Len(q) : l # k => \E i \in 1..Len(t) : at(i) = l
  <2>1. \A i, j \in 1..Len(t) : at(i) = at(j) => i = j
    BY <1>2
  <2>2. \A i, j \in 1..Len(t) : i < j => at(i) < at(j)
    BY <1>2
  <2>3. ASSUME NEW l \in 1..Len(q), l # k PROVE \E i \in 1..Len(t) : at(i) = l
    <3>1. CASE l < k
      <4>. l \in 1..Len(t) /\ at(l) = l
        BY <1>1, <1>2, <1>7, <3>1
      <4>. QED  OBVIOUS
    <3>2. CASE l > k
      <4>. l - 1 \in 1..Len(t) /\ at(l - 1) = l
        BY <1>1, <1>2, <1>7, <3>2
      <4>. QED  OBVIOUS
    <3>. QED  BY <1>1, <1>2, <2>3, <3>1, <3>2
  <2>. QED  BY <2>1, <2>2, <2>3
<1> HIDE DEF at
<1>10. Ordered(t)
  <2>1. \A i, j \in 1..Len(t) : t[i] = t[j] => i = j
    BY <1>8, <1>9 DEF Ordered
  <2>2. \A i, j \in 1..Len(t) : i < j => ~(t[i] = "turn" /\ t[j] = "background")
    BY <1>8, <1>9 DEF Ordered
  <2>. QED  BY <1>6, <2>1, <2>2 DEF Ordered
<1>11. ASSUME NEW y PROVE In(y, t) <=> In(y, q) /\ y # x
  <2>1. ASSUME NEW i \in 1..Len(t), t[i] = y PROVE In(y, q) /\ y # x
    BY <1>2, <1>8, <2>1 DEF In, Ordered
  <2>2. ASSUME NEW l \in 1..Len(q), q[l] = y, y # x PROVE In(y, t)
    <3>1. l # k
      BY <1>2, <2>2
    <3>2. PICK i \in 1..Len(t) : at(i) = l
      BY <1>9, <3>1
    <3>. QED  BY <1>8, <2>2, <3>2 DEF In
  <2>. QED  BY <2>1, <2>2 DEF In
<1>12. ASSUME Head(q) # x PROVE t # <<>> /\ Head(t) = Head(q)
  <2>1. Head(q) = q[1]
    BY <1>1
  <2>2. 1 < k /\ 1 \in 1..Len(t)
    BY <1>1, <1>2, <1>7, <1>12, <2>1
  <2>3. at(1) = 1
    BY <2>2 DEF at
  <2>4. t[1] = q[1]
    BY <1>8, <2>2, <2>3
  <2>5. t # <<>>
    BY <2>2, EmptySeq
  <2>6. Head(t) = t[1]
    BY <1>6
  <2>. QED  BY <2>1, <2>4, <2>5, <2>6
<1>. QED  BY <1>3, <1>10, <1>11, <1>12 DEF t, a, b

-----------------------------------------------------------------------------
(* Windows and cuts.                                                       *)

LEMMA LeastIs ==
    ASSUME NEW S \in SUBSET Nat, S # {}
    PROVE  Least(S) \in S /\ \A l \in S : Least(S) <= l
<1>1. PICK k \in S : \A l \in S : ~(<<l, k>> \in OpToRel(<, Nat))
  BY NatLessThanWellFounded, WFMin
<1>2. ASSUME NEW l \in S PROVE k <= l
  <2>1. ~(l < k)
    BY <1>1 DEF OpToRel
  <2>. QED  BY <2>1
<1>. QED  BY <1>2 DEF Least

LEMMA GreatestIs ==
    ASSUME NEW n \in Nat, NEW S \in SUBSET (0..n), S # {}
    PROVE  \E k \in S : \A l \in S : l <= k
<1> DEFINE T == {n - k : k \in S}
<1>1. T \in SUBSET Nat /\ T # {}
  <2>1. \A k \in S : n - k \in Nat
    OBVIOUS
  <2>. QED  BY <2>1
<1>2. Least(T) \in T /\ \A u \in T : Least(T) <= u
  BY <1>1, LeastIs
<1>3. PICK k \in S : Least(T) = n - k
  BY <1>2
<1>4. ASSUME NEW l \in S PROVE l <= k
  <2>1. n - k <= n - l
    BY <1>2, <1>3
  <2>. QED  BY <2>1
<1>. QED  BY <1>4

LEMMA MostIs ==
    ASSUME NEW n \in Nat, NEW S \in SUBSET (0..n), S # {}
    PROVE  Most(S) \in S /\ \A l \in S : l <= Most(S)
<1>1. \E k \in S : \A l \in S : l <= k
  BY GreatestIs
<1>. QED  BY <1>1 DEF Most

LEMMA TopIs ==
    ASSUME NEW n \in Nat, NEW S \in SUBSET (0..n)
    PROVE  Top(S) \in S \cup {0}
<1>1. CASE S = {}
  BY <1>1 DEF Top
<1>2. CASE S # {}
  <2>1. \E k \in S : \A l \in S : l <= k
    BY <1>2, GreatestIs
  <2>. QED  BY <1>2, <2>1 DEF Top
<1>. QED  BY <1>1, <1>2

LEMMA UsersAre ==
    ASSUME NEW s \in Session, NEW n \in Nat
    PROVE  /\ Users(s, n) \in SUBSET Nat
           /\ \A i \in Users(s, n) : i >= n /\ i < Len(s.msgs)
           /\ Users(s, n) \in SUBSET (0..Len(s.msgs))
<1>1. Len(s.msgs) \in Nat
  BY SessionFields
<1>2. \A i \in Users(s, n) : i \in n..(Len(s.msgs) - 1)
  BY DEF Users
<1>. QED  BY <1>1, <1>2

LEMMA WindowInSession ==
    ASSUME NEW s \in Session, NEW n \in Nat \ {0}, NEW extend \in BOOLEAN,
           s.lc < Len(s.msgs)
    PROVE  LET start == WindowStart(s, n, extend)
           IN  start \in Nat /\ s.lc <= start /\ start < Len(s.msgs)
<1> DEFINE len == Len(s.msgs)
           low == IF len - s.lc <= n THEN s.lc ELSE len - n
           inside == Users(s, low)
           before == {i \in Users(s, s.lc) : i < low}
<1>1. s.lc \in Nat /\ len \in Nat
  BY SessionFields
<1>2. low \in Nat /\ s.lc <= low /\ low < len
  BY <1>1
<1>3. WindowStart(s, n, extend) =
        IF inside # {} THEN WithDelivery(s, Least(inside), low)
        ELSE IF extend /\ before # {} THEN WithDelivery(s, Most(before), s.lc)
        ELSE low
  BY DEF WindowStart
<1>4. ASSUME NEW u \in Nat, NEW l \in Nat, s.lc <= l, l <= u, u < len
      PROVE  LET d == WithDelivery(s, u, l) IN d \in Nat /\ s.lc <= d /\ d < len
  BY <1>1, <1>4 DEF WithDelivery
<1>5. /\ inside \in SUBSET Nat
      /\ \A i \in inside : i >= low /\ i < len
  <2> HIDE DEF low
  <2>. QED  BY <1>2, UsersAre
<1>6. /\ before \in SUBSET (0..len)
      /\ \A i \in before : i >= s.lc /\ i < len /\ i \in Nat
  <2> HIDE DEF low
  <2>. QED  BY <1>1, <1>2, UsersAre
<1> HIDE DEF low, inside, before
<1>7. CASE inside # {}
  <2>1. Least(inside) \in inside
    BY <1>5, <1>7, LeastIs
  <2> DEFINE d == WithDelivery(s, Least(inside), low)
  <2>2. d \in Nat /\ s.lc <= d /\ d < len
    BY <1>2, <1>4, <1>5, <2>1
  <2>3. WindowStart(s, n, extend) = d
    BY <1>3, <1>7
  <2> HIDE DEF d
  <2>. QED  BY <2>2, <2>3
<1>8. CASE inside = {} /\ extend /\ before # {}
  <2>1. Most(before) \in before
    BY <1>1, <1>6, <1>8, MostIs
  <2>2. s.lc <= s.lc
    BY <1>1
  <2> DEFINE d == WithDelivery(s, Most(before), s.lc)
  <2>3. d \in Nat /\ s.lc <= d /\ d < len
    BY <1>1, <1>4, <1>6, <2>1, <2>2
  <2>4. WindowStart(s, n, extend) = d
    BY <1>3, <1>8
  <2> HIDE DEF d
  <2>. QED  BY <2>3, <2>4
<1>9. CASE inside = {} /\ ~(extend /\ before # {})
  BY <1>1, <1>2, <1>3, <1>9
<1>. QED  BY <1>7, <1>8, <1>9

LEMMA ReplayedIds ==
    ASSUME NEW s \in Session
    PROVE  Ids(Replayed(s)) \subseteq 1..MaxMessages
<1>1. s.msgs \in Seq(Message) /\ s.lc \in Nat /\ Len(s.msgs) \in Nat
  BY SessionFields
<1>2. CASE s.lc >= Len(s.msgs)
  <2>1. Replayed(s) = <<>>
    BY <1>2 DEF Replayed
  <2>2. <<>> \in Seq(Message)
    BY EmptySeq
  <2>. QED  BY <2>1, <2>2, IdsInMessages
<1>3. CASE s.lc < Len(s.msgs)
  <2> DEFINE m == WindowStart(s, Window, FALSE) + 1
             q == s.msgs
             n == Len(s.msgs)
  <2>1. m \in Nat /\ m >= 1 /\ q \in Seq(Message) /\ n \in Nat /\ n <= Len(q)
    <3> DEFINE start == WindowStart(s, Window, FALSE)
    <3>1. start \in Nat
      BY <1>3, WindowInSession, ConsolidationAssumption
    <3> HIDE DEF start
    <3>2. start + 1 \in Nat /\ start + 1 >= 1
      BY <3>1
    <3>3. m \in Nat /\ m >= 1
      BY <3>2 DEF start
    <3>4. q \in Seq(Message) /\ n \in Nat /\ n <= Len(q)
      BY <1>1
    <3>. QED  BY <3>3, <3>4
  <2>2. Replayed(s) = SubSeq(q, m, n)
    <3>1. ~(s.lc >= Len(s.msgs))
      BY <1>1, <1>3
    <3>. QED  BY <3>1 DEF Replayed
  <2> HIDE DEF q, m, n
  <2>3. SubSeq(q, m, n) \in Seq(Message)
    BY <2>1, Part
  <2>. QED  BY <2>2, <2>3, IdsInMessages
<1>. QED  BY <1>1, <1>2, <1>3

LEMMA OverflowInSession ==
    ASSUME NEW s \in Session
    PROVE  /\ OverflowEnd(s) \in Nat
           /\ OverflowEnd(s) > s.lc => OverflowEnd(s) <= Len(s.msgs)
<1>1. s.lc \in Nat /\ Len(s.msgs) \in Nat /\ Window \in Nat \ {0}
  BY SessionFields, ConsolidationAssumption
<1>2. CASE s.lc + Window >= Len(s.msgs)
  BY <1>1, <1>2 DEF OverflowEnd
<1>3. CASE ~(s.lc + Window >= Len(s.msgs))
  <2>1. OverflowEnd(s) = WindowStart(s, Window, TRUE)
    BY <1>3 DEF OverflowEnd
  <2>2. s.lc < Len(s.msgs)
    BY <1>1, <1>3
  <2> DEFINE start == WindowStart(s, Window, TRUE)
  <2>3. start \in Nat /\ s.lc <= start /\ start < Len(s.msgs)
    BY <1>1, <2>2, WindowInSession
  <2> HIDE DEF start
  <2>4. OverflowEnd(s) = start
    BY <2>1 DEF start
  <2>. QED  BY <1>1, <2>3, <2>4
<1>. QED  BY <1>2, <1>3

\* What the retained messages are: a stretch of the session.
LEMMA KeptIsStretch ==
    ASSUME NEW s \in Session, NEW n \in Nat \ {0}, NEW extend \in BOOLEAN,
           Len(s.msgs) > n
    PROVE  \E lo, hi \in Nat : /\ lo <= hi /\ hi < Len(s.msgs)
                               /\ Kept(s, n, extend) = lo..hi
<1> DEFINE len == Len(s.msgs)
           low == len - n
           before == {i \in Users(s, 0) : i <= low}
           start == IF extend /\ before # {} THEN Most(before) ELSE low
           inside == Users(s, start)
           last == Most(Users(s, 0))
<1>1. len \in Nat /\ low \in Nat /\ low < len
  BY SessionFields
<1>2. Kept(s, n, extend) =
        IF inside # {} THEN Least(inside)..(len - 1)
        ELSE IF ~extend /\ Users(s, 0) # {} THEN {i \in last..(last + n - 1) : i < len}
        ELSE start..(len - 1)
  <2>1. ~(len <= n)
    BY <1>1
  <2>. QED  BY <2>1 DEF Kept
<1>3. /\ Users(s, 0) \in SUBSET (0..len) /\ \A i \in Users(s, 0) : i \in Nat /\ i < len
  BY UsersAre
<1>4. start \in Nat /\ start < len
  <2> HIDE DEF low
  <2>1. before \in SUBSET (0..len) /\ \A i \in before : i \in Nat /\ i < len
    BY <1>3
  <2> HIDE DEF before
  <2>2. CASE extend /\ before # {}
    <3>1. Most(before) \in before
      BY <1>1, <2>1, <2>2, MostIs
    <3>. QED  BY <2>1, <2>2, <3>1
  <2>3. CASE ~(extend /\ before # {})
    BY <1>1, <2>3
  <2>. QED  BY <2>2, <2>3
<1> HIDE DEF start
<1>5. inside \in SUBSET Nat /\ \A i \in inside : i \in Nat /\ i < len
  BY <1>4, UsersAre
<1> HIDE DEF low, before, inside
<1>6. CASE inside # {}
  <2>1. Least(inside) \in inside
    BY <1>5, <1>6, LeastIs
  <2> DEFINE u == Least(inside)
  <2>2. u \in Nat /\ u < len
    BY <1>5, <2>1
  <2>3. Kept(s, n, extend) = u..(len - 1)
    BY <1>2, <1>6
  <2> HIDE DEF u
  <2>4. len - 1 \in Nat /\ u <= len - 1 /\ len - 1 < len
    BY <1>1, <2>2
  <2>. QED  BY <2>2, <2>3, <2>4
<1>7. CASE inside = {} /\ ~extend /\ Users(s, 0) # {}
  <2>1. last \in Nat /\ last < len
    <3>1. last \in Users(s, 0)
      BY <1>1, <1>3, <1>7, MostIs
    <3>. QED  BY <1>3, <3>1
  <2> HIDE DEF last
  <2> DEFINE hi == IF last + n - 1 < len THEN last + n - 1 ELSE len - 1
  <2>2. hi \in Nat /\ last <= hi /\ hi < len
    BY <1>1, <2>1
  <2>3. {i \in last..(last + n - 1) : i < len} = last..hi
    BY <1>1, <2>1
  <2> HIDE DEF hi
  <2>. QED  BY <1>2, <1>7, <2>1, <2>2, <2>3
<1>8. CASE inside = {} /\ ~(~extend /\ Users(s, 0) # {})
  <2>1. start \in Nat /\ len - 1 \in Nat /\ start <= len - 1 /\ len - 1 < len
    BY <1>1, <1>4
  <2>2. Kept(s, n, extend) = start..(len - 1)
    BY <1>2, <1>8
  <2>. QED  BY <2>1, <2>2
<1>. QED  BY <1>6, <1>7, <1>8

\* What retain_recent_legal_suffix leaves, and what it drops.
LEMMA RetainedMade ==
    ASSUME NEW s \in Session, NEW n \in Nat \ {0}, NEW extend \in BOOLEAN
    PROVE  LET r == Retained(s, n, extend)
               d == Dropped(s, n, extend)
           IN  /\ r \in Session /\ r.sum = s.sum
               /\ Ids(r.msgs) \subseteq Ids(s.msgs)
               /\ s.lc <= Len(s.msgs) => r.lc <= Len(r.msgs)
               /\ d \subseteq Behind(s)
               /\ Behind(s) \subseteq d \cup Behind(r)
<1> DEFINE r == Retained(s, n, extend)
           d == Dropped(s, n, extend)
<1>1. s.msgs \in Seq(Message) /\ s.lc \in Nat /\ s.sum \in Nat /\ Len(s.msgs) \in Nat
  BY SessionFields
<1>2. Behind(s) = {s.msgs[i].id : i \in (s.lc + 1)..Len(s.msgs)}
  BY BehindIds
<1>3. d = {s.msgs[i + 1].id : i \in {j \in s.lc..(Len(s.msgs) - 1) : j \notin Kept(s, n, extend)}}
  BY DEF Dropped
<1>4. d \subseteq Behind(s)
  <2>. SUFFICES ASSUME NEW i \in s.lc..(Len(s.msgs) - 1) PROVE s.msgs[i + 1].id \in Behind(s)
    BY <1>3
  <2>1. i + 1 \in (s.lc + 1)..Len(s.msgs)
    BY <1>1
  <2>. QED  BY <1>2, <2>1
<1>5. CASE Len(s.msgs) <= n
  <2>1. r = s
    BY <1>5 DEF Retained
  <2>. QED  BY <1>4, <2>1
<1>6. CASE Len(s.msgs) > n
  <2>1. PICK lo, hi \in Nat : /\ lo <= hi /\ hi < Len(s.msgs)
                              /\ Kept(s, n, extend) = lo..hi
    BY <1>6, KeptIsStretch
  <2> DEFINE q == SubSeq(s.msgs, lo + 1, hi + 1)
             c == IF s.lc <= lo THEN 0 ELSE IF s.lc <= hi THEN s.lc - lo ELSE hi - lo + 1
  <2>2. Least(lo..hi) = lo /\ Most(lo..hi) = hi
    <3>1. lo..hi \in SUBSET Nat /\ lo..hi \in SUBSET (0..hi) /\ lo \in lo..hi /\ hi \in lo..hi
      BY <2>1
    <3>2. Least(lo..hi) \in lo..hi /\ Least(lo..hi) <= lo
      BY <3>1, LeastIs
    <3>3. Most(lo..hi) \in lo..hi /\ hi <= Most(lo..hi)
      BY <3>1, MostIs
    <3> DEFINE a == Least(lo..hi)
               b == Most(lo..hi)
    <3>4. a \in lo..hi /\ a <= lo /\ b \in lo..hi /\ hi <= b
      BY <3>2, <3>3
    <3> HIDE DEF a, b
    <3>5. a = lo /\ b = hi
      BY <2>1, <3>4
    <3>. QED  BY <3>5 DEF a, b
  <2>3. Cardinality({i \in lo..hi : i < s.lc}) = c
    <3>1. CASE s.lc <= lo
      <4>1. {i \in lo..hi : i < s.lc} = {}
        BY <1>1, <3>1
      <4>. QED  BY <3>1, <4>1, FS_EmptySet
    <3>2. CASE lo < s.lc /\ s.lc <= hi
      <4>1. {i \in lo..hi : i < s.lc} = lo..(s.lc - 1)
        BY <1>1, <3>2
      <4>2. Cardinality(lo..(s.lc - 1)) = IF lo > s.lc - 1 THEN 0 ELSE (s.lc - 1) - lo + 1
        <5>. lo \in Int /\ s.lc - 1 \in Int
          BY <1>1
        <5>. QED  BY FS_Interval
      <4>3. ~(lo > s.lc - 1) /\ (s.lc - 1) - lo + 1 = s.lc - lo /\ ~(s.lc <= lo)
        BY <1>1, <3>2
      <4>4. c = s.lc - lo
        BY <3>2, <4>3
      <4> HIDE DEF c
      <4>. QED  BY <4>1, <4>2, <4>3, <4>4
    <3>3. CASE hi < s.lc
      <4>1. {i \in lo..hi : i < s.lc} = lo..hi
        BY <1>1, <3>3
      <4>2. Cardinality(lo..hi) = IF lo > hi THEN 0 ELSE hi - lo + 1
        <5>. lo \in Int /\ hi \in Int
          OBVIOUS
        <5>. QED  BY FS_Interval
      <4>3. ~(lo > hi) /\ ~(s.lc <= lo) /\ ~(s.lc <= hi)
        BY <1>1, <2>1, <3>3
      <4>4. c = hi - lo + 1
        BY <4>3
      <4> HIDE DEF c
      <4>. QED  BY <4>1, <4>2, <4>3, <4>4
    <3>. QED  BY <1>1, <3>1, <3>2, <3>3
  <2>4. r = [s EXCEPT !.msgs = q, !.lc = c]
    <3>1. ~(Len(s.msgs) <= n)
      BY <1>1, <1>6
    <3>2. r = [s EXCEPT !.msgs = SubSeq(s.msgs, Least(lo..hi) + 1, Most(lo..hi) + 1),
                        !.lc = Cardinality({i \in lo..hi : i < s.lc})]
      BY <2>1, <3>1 DEF Retained
    <3>. QED  BY <2>2, <2>3, <3>2
  <2>5. /\ q \in Seq(Message) /\ Len(q) = hi - lo + 1
        /\ \A i \in 1..Len(q) : q[i] = s.msgs[lo + i]
        /\ Ids(q) = {s.msgs[i].id : i \in (lo + 1)..(hi + 1)}
    <3> DEFINE t == s.msgs
               a == lo + 1
               b == hi + 1
    <3>1. t \in Seq(Message) /\ a \in Nat /\ b \in Nat /\ a >= 1 /\ b <= Len(t)
      BY <1>1, <2>1
    <3> HIDE DEF t, a, b
    <3>2. /\ SubSeq(t, a, b) \in Seq(Message)
          /\ Len(SubSeq(t, a, b)) = IF a <= b THEN b - a + 1 ELSE 0
          /\ \A i \in 1..Len(SubSeq(t, a, b)) : SubSeq(t, a, b)[i] = t[a + i - 1]
          /\ Ids(SubSeq(t, a, b)) = {t[i].id : i \in a..b}
      BY <3>1, Part
    <3>3. q = SubSeq(t, a, b)
      BY DEF t, a, b
    <3>4. Len(q) = hi - lo + 1
      BY <2>1, <3>2, <3>3 DEF a, b
    <3> HIDE DEF q
    <3>5. ASSUME NEW i \in 1..Len(q) PROVE q[i] = s.msgs[lo + i]
      <4>1. a + i - 1 = lo + i
        BY <3>4 DEF a
      <4>2. q[i] = t[a + i - 1]
        BY <3>2, <3>3
      <4>. QED  BY <4>1, <4>2 DEF t
    <3>6. Ids(q) = {s.msgs[i].id : i \in (lo + 1)..(hi + 1)}
      BY <3>2, <3>3 DEF t, a, b
    <3>. QED  BY <3>2, <3>3, <3>4, <3>5, <3>6
  <2>6. c \in Nat /\ c <= hi - lo + 1
    BY <1>1, <2>1
  <2> HIDE DEF q, r
  <2>7. r \in Session /\ r.msgs = q /\ r.lc = c /\ r.sum = s.sum
    <3> HIDE DEF c
    <3>. QED  BY <1>1, <2>4, <2>5, <2>6 DEF Session
  <2>8. Ids(r.msgs) \subseteq Ids(s.msgs)
    <3>1. (lo + 1)..(hi + 1) \subseteq 1..Len(s.msgs)
      BY <1>1, <2>1
    <3>2. Ids(s.msgs) = {s.msgs[i].id : i \in 1..Len(s.msgs)}
      BY DEF Ids
    <3>3. Ids(r.msgs) = {s.msgs[i].id : i \in (lo + 1)..(hi + 1)}
      BY <2>5, <2>7
    <3>. QED  BY <3>1, <3>2, <3>3
  <2>9. Behind(s) \subseteq d \cup Behind(r)
    <3>. SUFFICES ASSUME NEW i \in (s.lc + 1)..Len(s.msgs) PROVE s.msgs[i].id \in d \cup Behind(r)
      BY <1>2
    <3>0. i \in Nat /\ i > s.lc /\ i <= Len(s.msgs) /\ i - 1 \in Nat /\ (i - 1) + 1 = i
      BY <1>1
    <3>1. CASE i - 1 \notin lo..hi
      <4>1. i - 1 \in s.lc..(Len(s.msgs) - 1)
        BY <1>1, <3>0
      <4>2. s.msgs[(i - 1) + 1].id \in d
        BY <1>3, <2>1, <3>1, <4>1
      <4>. QED  BY <3>0, <4>2
    <3>2. CASE i - 1 \in lo..hi
      <4>1. Behind(r) = {r.msgs[j].id : j \in (r.lc + 1)..Len(r.msgs)}
        BY <2>7, BehindIds
      <4>2. i - lo \in (c + 1)..(hi - lo + 1) /\ lo + (i - lo) = i /\ i - lo \in 1..(hi - lo + 1)
        BY <1>1, <2>1, <3>0, <3>2
      <4>3. q[i - lo] = s.msgs[lo + (i - lo)]
        BY <2>5, <4>2
      <4>4. i - lo \in (r.lc + 1)..Len(r.msgs)
        BY <2>5, <2>7, <4>2
      <4>5. r.msgs[i - lo].id = s.msgs[i].id
        BY <2>7, <4>2, <4>3
      <4>. QED  BY <4>1, <4>4, <4>5
    <3>. QED  BY <3>1, <3>2
  <2>10. r.lc <= Len(r.msgs)
    BY <2>5, <2>6, <2>7
  <2>. QED  BY <1>4, <2>7, <2>8, <2>9, <2>10 DEF r
<1>. QED  BY <1>1, <1>5, <1>6

-----------------------------------------------------------------------------
(* Sessions and worlds of a given set of messages.                         *)

LEMMA AliveIs ==
    ASSUME NEW A, NEW c \in BOOLEAN, NEW s
    PROVE  s \in Alive(A, c) <=> /\ s \in Session /\ Ids(s.msgs) \subseteq A
                                 /\ s.sum \in A \cup {0}
                                 /\ c \/ s.lc <= Len(s.msgs)
BY DEF Alive, Made

LEMMA FiledIs ==
    ASSUME NEW A, NEW c \in BOOLEAN, NEW k \in BOOLEAN, NEW s
    PROVE  s \in Filed(A, c, k) <=> /\ s \in Session /\ Ids(s.msgs) \subseteq A
                                    /\ s.sum \in A \cup {0}
                                    /\ c \/ k \/ s.lc <= Len(s.msgs)
BY DEF Filed, Made

LEMMA BlankAlive ==
    ASSUME NEW A, NEW c \in BOOLEAN, NEW k \in BOOLEAN
    PROVE  Blank \in Alive(A, c) /\ Blank \in Filed(A, c, k) /\ Blank \in Session
<1>1. <<>> \in Seq(Message) /\ Len(<<>>) = 0
  BY EmptySeq
<1>2. Blank \in Session /\ Blank.msgs = <<>> /\ Blank.lc = 0 /\ Blank.sum = 0
  BY <1>1 DEF Blank, Session
<1>3. Ids(Blank.msgs) = {}
  BY <1>1, <1>2 DEF Ids
<1>4. Blank.lc <= Len(Blank.msgs)
  BY <1>1, <1>2
<1>. QED  BY <1>2, <1>3, <1>4, AliveIs, FiledIs

LEMMA LoadedAlive ==
    ASSUME NEW A, NEW c \in BOOLEAN, NEW k \in BOOLEAN, NEW s \in Filed(A, c, k)
    PROVE  Loaded(s) \in Alive(A, c)
<1>1. s \in Session /\ Ids(s.msgs) \subseteq A /\ s.sum \in A \cup {0}
  BY FiledIs
<1>2. /\ Loaded(s) \in Session /\ Loaded(s).lc <= Len(s.msgs)
      /\ Loaded(s).msgs = s.msgs /\ Loaded(s).sum = s.sum
  BY <1>1, LoadedMade
<1>. QED  BY <1>1, <1>2, AliveIs

LEMMA PlusAlive ==
    ASSUME NEW A, NEW c \in BOOLEAN, NEW s \in Alive(A, c), NEW kind \in Kind,
           NEW n \in 1..MaxMessages, n \in A
    PROVE  Plus(s, kind, n) \in Alive(A, c)
<1> DEFINE p == Plus(s, kind, n)
<1>1. s \in Session /\ Ids(s.msgs) \subseteq A /\ s.sum \in A \cup {0} /\ (c \/ s.lc <= Len(s.msgs))
  BY AliveIs
<1>5. s \in Session
  BY <1>1
<1>2. /\ p \in Session /\ Len(p.msgs) = Len(s.msgs) + 1 /\ p.lc = s.lc /\ p.sum = s.sum
      /\ Ids(p.msgs) \subseteq Ids(s.msgs) \cup {n}
  BY <1>5, PlusMade
<1> HIDE DEF p
<1>3. c \/ p.lc <= Len(p.msgs)
  <2>1. s.lc \in Nat /\ Len(s.msgs) \in Nat
    BY <1>1, SessionFields
  <2>. QED  BY <1>1, <1>2, <2>1
<1>4. p \in Alive(A, c)
  BY <1>1, <1>2, <1>3, AliveIs
<1>. QED  BY <1>4 DEF p

LEMMA RetainedAlive ==
    ASSUME NEW A, NEW c \in BOOLEAN, NEW s \in Alive(A, c), NEW n \in Nat \ {0},
           NEW extend \in BOOLEAN
    PROVE  Retained(s, n, extend) \in Alive(A, c)
<1> DEFINE r == Retained(s, n, extend)
<1>1. s \in Session /\ Ids(s.msgs) \subseteq A /\ s.sum \in A \cup {0} /\ (c \/ s.lc <= Len(s.msgs))
  BY AliveIs
<1>2. /\ r \in Session /\ r.sum = s.sum /\ Ids(r.msgs) \subseteq Ids(s.msgs)
      /\ s.lc <= Len(s.msgs) => r.lc <= Len(r.msgs)
  BY <1>1, RetainedMade
<1> HIDE DEF r
<1>3. r \in Alive(A, c)
  BY <1>1, <1>2, AliveIs
<1>. QED  BY <1>3 DEF r

LEMMA AliveGrows ==
    ASSUME NEW A, NEW B, A \subseteq B, NEW c \in BOOLEAN, NEW d \in BOOLEAN, c => d,
           NEW k \in BOOLEAN, NEW l \in BOOLEAN, k => l
    PROVE  /\ Alive(A, c) \subseteq Alive(B, d)
           /\ Filed(A, c, k) \subseteq Filed(B, d, l)
           /\ Alive(A, c) \subseteq Filed(B, d, l)
BY DEF Alive, Filed, Made

LEMMA WorldIs ==
    ASSUME NEW A, NEW c, NEW k, NEW w \in Worlds(A, c, k)
    PROVE  /\ w.heap \in [Obj -> Alive(A, c)] /\ w.cached \in Obj \cup {None}
           /\ w.disk \in Filed(A, c, k)
           /\ w = [heap |-> w.heap, cached |-> w.cached, disk |-> w.disk]
           /\ \A o \in Obj : w.heap[o] \in Alive(A, c)
BY DEF Worlds

LEMMA WorldSessions ==
    ASSUME NEW A, NEW c \in BOOLEAN, NEW k \in BOOLEAN, NEW w \in Worlds(A, c, k)
    PROVE  /\ w.disk \in Session /\ \A o \in Obj : w.heap[o] \in Session
BY WorldIs, AliveIs, FiledIs

LEMMA WorldsGrow ==
    ASSUME NEW A, NEW B, A \subseteq B, NEW c \in BOOLEAN, NEW d \in BOOLEAN, c => d,
           NEW k \in BOOLEAN, NEW l \in BOOLEAN, k => l,
           NEW w \in Worlds(A, c, k)
    PROVE  w \in Worlds(B, d, l)
<1>1. /\ w.heap \in [Obj -> Alive(A, c)] /\ w.cached \in Obj \cup {None}
      /\ w.disk \in Filed(A, c, k)
      /\ w = [heap |-> w.heap, cached |-> w.cached, disk |-> w.disk]
  BY WorldIs
<1>2. Alive(A, c) \subseteq Alive(B, d) /\ Filed(A, c, k) \subseteq Filed(B, d, l)
  BY AliveGrows
<1>3. w.heap \in [Obj -> Alive(B, d)] /\ w.disk \in Filed(B, d, l)
  BY <1>1, <1>2
<1>. QED  BY <1>1, <1>3 DEF Worlds

\* A free object is needed where none is cached.
LEMMA FetchMade ==
    ASSUME NEW A, NEW c \in BOOLEAN, NEW k \in BOOLEAN, NEW w \in Worlds(A, c, k),
           w.cached = None => \E o \in Obj : o \notin Refs
    PROVE  LET v == Fetch(w)
           IN  /\ v \in Worlds(A, c, k) /\ v.cached \in Obj /\ v.disk = w.disk
               /\ w.cached # None => v = w
               /\ w.cached = None =>
                    /\ v.cached \notin Refs /\ v.heap[v.cached] = Loaded(w.disk)
                    /\ \A o \in Obj : o # v.cached => v.heap[o] = w.heap[o]
<1>1. /\ w.heap \in [Obj -> Alive(A, c)] /\ w.cached \in Obj \cup {None}
      /\ w.disk \in Filed(A, c, k)
      /\ w = [heap |-> w.heap, cached |-> w.cached, disk |-> w.disk]
  BY WorldIs
<1>2. CASE w.cached # None
  BY <1>1, <1>2 DEF Fetch
<1>3. CASE w.cached = None
  <2> DEFINE o == CHOOSE o \in Obj : o \notin Refs
             s == Loaded(w.disk)
             u == [w EXCEPT !.heap[o] = s]
             v == [u EXCEPT !.cached = o]
  <2>1. o \in Obj /\ o \notin Refs
    BY <1>3
  <2>2. s \in Alive(A, c)
    BY <1>1, LoadedAlive
  <2>3. Fetch(w) = v
    BY <1>3 DEF Fetch
  <2> HIDE DEF o, s
  <2>8. u = [heap |-> [w.heap EXCEPT ![o] = s], cached |-> w.cached, disk |-> w.disk]
    BY <1>1
  <2> HIDE DEF u
  <2>4. v = [heap |-> [w.heap EXCEPT ![o] = s], cached |-> o, disk |-> w.disk]
    BY <2>8
  <2> HIDE DEF v
  <2>5. [w.heap EXCEPT ![o] = s] \in [Obj -> Alive(A, c)]
    BY <1>1, <2>2
  <2>6. v \in Worlds(A, c, k)
    BY <1>1, <2>1, <2>4, <2>5 DEF Worlds
  <2>7. /\ v.cached = o /\ v.disk = w.disk /\ v.heap[o] = s
        /\ \A x \in Obj : x # o => v.heap[x] = w.heap[x]
    BY <1>1, <2>1, <2>4
  <2>. QED  BY <1>3, <2>1, <2>3, <2>6, <2>7 DEF s
<1>. QED  BY <1>2, <1>3

LEMMA WriteMade ==
    ASSUME NEW A, NEW c \in BOOLEAN, NEW k \in BOOLEAN, NEW w \in Worlds(A, c, k),
           NEW o \in Obj, NEW s \in Alive(A, c)
    PROVE  LET v == Write(w, o, s)
           IN  /\ v \in Worlds(A, c, k) /\ v.cached = o /\ v.disk = s /\ v.heap[o] = s
               /\ \A x \in Obj : x # o => v.heap[x] = w.heap[x]
<1>1. /\ w.heap \in [Obj -> Alive(A, c)] /\ w.cached \in Obj \cup {None}
      /\ w.disk \in Filed(A, c, k)
      /\ w = [heap |-> w.heap, cached |-> w.cached, disk |-> w.disk]
  BY WorldIs
<1> DEFINE u == [w EXCEPT !.heap[o] = s]
<1>2. u = [heap |-> [w.heap EXCEPT ![o] = s], cached |-> w.cached, disk |-> w.disk]
  BY <1>1
<1>3. Write(w, o, s) = [u EXCEPT !.disk = u.heap[o], !.cached = o]
  BY DEF Write, Save
<1> HIDE DEF u
<1>4. u.heap[o] = s
  BY <1>1, <1>2
<1>5. Write(w, o, s) = [heap |-> [w.heap EXCEPT ![o] = s], cached |-> o, disk |-> s]
  BY <1>2, <1>3, <1>4
<1>6. s \in Filed(A, c, k)
  <2>1. Alive(A, c) \subseteq Filed(A, c, k)
    BY AliveGrows
  <2>. QED  BY <2>1
<1>7. [w.heap EXCEPT ![o] = s] \in [Obj -> Alive(A, c)]
  BY <1>1
<1> DEFINE v == Write(w, o, s)
<1>8. v = [heap |-> [w.heap EXCEPT ![o] = s], cached |-> o, disk |-> s]
  BY <1>5
<1> HIDE DEF v
<1>9. v \in Worlds(A, c, k)
  BY <1>6, <1>7, <1>8 DEF Worlds
<1>10. /\ v.cached = o /\ v.disk = s /\ v.heap[o] = s
       /\ \A x \in Obj : x # o => v.heap[x] = w.heap[x]
  BY <1>1, <1>8
<1>. QED  BY <1>9, <1>10 DEF v

LEMMA InvalidateMade ==
    ASSUME NEW A, NEW c \in BOOLEAN, NEW k \in BOOLEAN, NEW w \in Worlds(A, c, k)
    PROVE  LET v == Invalidate(w)
           IN  /\ v \in Worlds(A, c, k) /\ v.cached = None
               /\ v.disk = w.disk /\ v.heap = w.heap
<1>1. /\ w.heap \in [Obj -> Alive(A, c)] /\ w.cached \in Obj \cup {None}
      /\ w.disk \in Filed(A, c, k)
      /\ w = [heap |-> w.heap, cached |-> w.cached, disk |-> w.disk]
  BY WorldIs
<1> DEFINE v == Invalidate(w)
<1>2. v = [heap |-> w.heap, cached |-> None, disk |-> w.disk]
  BY <1>1 DEF Invalidate
<1> HIDE DEF v
<1>3. v \in Worlds(A, c, k) /\ v.cached = None /\ v.disk = w.disk /\ v.heap = w.heap
  BY <1>1, <1>2 DEF Worlds
<1>. QED  BY <1>3 DEF v

\* What a step leaves of world w: the objects still referred to.
LEMMA SettleMade ==
    ASSUME NEW A, NEW c \in BOOLEAN, NEW k \in BOOLEAN, NEW w \in Worlds(A, c, k),
           Settle(w)
    PROVE  /\ store' \in Worlds(A, c, k)
           /\ store'.cached = w.cached /\ store'.disk = w.disk
           /\ \A o \in Obj : o \in {w.cached, turn'.obj, job'.obj} =>
                                store'.heap[o] = w.heap[o]
<1>1. /\ w.heap \in [Obj -> Alive(A, c)] /\ w.cached \in Obj \cup {None}
      /\ w.disk \in Filed(A, c, k)
      /\ w = [heap |-> w.heap, cached |-> w.cached, disk |-> w.disk]
      /\ \A o \in Obj : w.heap[o] \in Alive(A, c)
  BY WorldIs
<1> DEFINE live == {w.cached, turn'.obj, job'.obj} \ {None}
           h == [o \in Obj |-> IF o \in live THEN w.heap[o] ELSE Blank]
<1>2. store' = [heap |-> h, cached |-> w.cached, disk |-> w.disk]
  BY <1>1 DEF Settle
<1>3. h \in [Obj -> Alive(A, c)]
  BY <1>1, BlankAlive
<1>4. \A o \in Obj : o \in {w.cached, turn'.obj, job'.obj} => h[o] = w.heap[o]
  BY ConsolidationAssumption
<1> HIDE DEF h
<1>. QED  BY <1>1, <1>2, <1>3, <1>4 DEF Worlds

-----------------------------------------------------------------------------
(* Parts of steps.                                                         *)

LEMMA FetchSound ==
    ASSUME Inv
    PROVE  LET v == Fetch(store)
           IN  /\ v \in Worlds(Current, crossed, Crashed)
               /\ v.cached \in Obj /\ v.disk = store.disk
               /\ store.cached # None => v = store
               /\ ~crossed =>
                    /\ Missing \subseteq Behind(v.disk)
                    /\ Missing \subseteq Behind(v.heap[v.cached])
                    /\ turn.obj # None => Missing \subseteq Behind(v.heap[turn.obj])
                    /\ Awaiting => job.obj = v.cached /\ Fits(job, v.heap[v.cached])
<1> DEFINE v == Fetch(store)
<1>1. /\ store \in Worlds(Current, crossed, Crashed)
      /\ crossed \in BOOLEAN /\ Crashed \in BOOLEAN
      /\ turn.obj \in Obj \cup {None} /\ job.obj \in Obj \cup {None}
  BY DEF Inv, Sound, ControlTypes, JobType, Crashed
<1>2. store.cached = None => \E o \in Obj : o \notin Refs
  <2>1. ASSUME store.cached = None PROVE \E o \in Obj : o # turn.obj /\ o # job.obj
    BY <1>1, ConsolidationAssumption
  <2>. QED  BY <2>1, ConsolidationAssumption DEF Refs
<1>3. /\ v \in Worlds(Current, crossed, Crashed) /\ v.cached \in Obj /\ v.disk = store.disk
      /\ store.cached # None => v = store
      /\ store.cached = None =>
           /\ v.cached \notin Refs /\ v.heap[v.cached] = Loaded(store.disk)
           /\ \A o \in Obj : o # v.cached => v.heap[o] = store.heap[o]
  <2> DEFINE A == Current
             c == crossed
             k == Crashed
             w == store
  <2>1. w \in Worlds(A, c, k) /\ c \in BOOLEAN /\ k \in BOOLEAN
    BY <1>1
  <2>2. w.cached = None => \E o \in Obj : o \notin Refs
    BY <1>2
  <2> HIDE DEF A, c, k, w
  <2> DEFINE u == Fetch(w)
  <2>3. /\ u \in Worlds(A, c, k) /\ u.cached \in Obj /\ u.disk = w.disk
        /\ w.cached # None => u = w
        /\ w.cached = None =>
             /\ u.cached \notin Refs /\ u.heap[u.cached] = Loaded(w.disk)
             /\ \A o \in Obj : o # u.cached => u.heap[o] = w.heap[o]
    BY <2>1, <2>2, FetchMade
  <2>. QED  BY <2>3 DEF A, c, k, w
<1> HIDE DEF v
<1>4. ASSUME ~crossed
      PROVE  /\ Missing \subseteq Behind(v.disk)
             /\ Missing \subseteq Behind(v.heap[v.cached])
             /\ turn.obj # None => Missing \subseteq Behind(v.heap[turn.obj])
             /\ Awaiting => job.obj = v.cached /\ Fits(job, v.heap[v.cached])
  <2>1. /\ Missing \subseteq Behind(store.disk)
        /\ \A o \in Refs : Missing \subseteq Behind(store.heap[o])
        /\ Awaiting => job.obj = store.cached /\ Fits(job, store.heap[job.obj])
    BY <1>4 DEF Inv, Covered
  <2>2. CASE store.cached # None
    <3>1. store.cached \in Refs /\ (turn.obj # None => turn.obj \in Refs)
      BY <2>2 DEF Refs
    <3>. QED  BY <1>3, <2>1, <2>2, <3>1
  <2>3. CASE store.cached = None
    <3>1. ~Awaiting
      <4>1. Awaiting => job.obj \in Obj
        BY DEF Inv, Steady, Awaiting
      <4>2. Awaiting => job.obj = None
        BY <2>1, <2>3
      <4>. QED  BY <4>1, <4>2, ConsolidationAssumption
    <3>2. store.disk \in Session
      BY <1>1, WorldSessions
    <3>3. Behind(store.disk) \subseteq Behind(Loaded(store.disk))
      BY <3>2, LoadedMade
    <3>4. turn.obj # None => turn.obj \in Refs /\ turn.obj \in Obj
      BY <1>1 DEF Refs
    <3>5. turn.obj # None => v.heap[turn.obj] = store.heap[turn.obj]
      BY <1>3, <2>3, <3>4
    <3>6. Missing \subseteq Behind(v.heap[v.cached])
      BY <1>3, <2>1, <2>3, <3>3
    <3>. QED  BY <1>3, <2>1, <3>1, <3>4, <3>5, <3>6
  <2>. QED  BY <2>2, <2>3
<1>. QED  BY <1>3, <1>4 DEF v

LEMMA CurrentGrows ==
    ASSUME Inv, sent' \in sent..MaxMessages, fence' = fence, crossed' \in BOOLEAN,
           crossed => crossed'
    PROVE  /\ Current \subseteq Current'
           /\ \A i \in (sent + 1)..sent' : i \in Current' /\ i \in 1..MaxMessages
           /\ Current \cup {0} \subseteq Current' \cup {0}
<1>1. sent \in Nat /\ fence \in 0..sent /\ MaxMessages \in Nat
  BY ConsolidationAssumption DEF Inv, ControlTypes
<1>2. Current \subseteq Current'
  BY <1>1 DEF Current
<1>3. \A i \in (sent + 1)..sent' : i \in Current' /\ i \in 1..MaxMessages
  BY <1>1 DEF Current
<1>. QED  BY <1>2, <1>3

\* The rest of Sound, when the job and the summary stay.
LEMMA JobStays ==
    ASSUME Inv, Current \subseteq Current', job' = job, hot' \in {hot, 0}
    PROVE  /\ job'.chunk \subseteq Current' /\ job'.all \subseteq Current'
           /\ Ids(job'.keep) \subseteq Current'
           /\ job'.sum \in Current' \cup {0} /\ hot' \in Current' \cup {0}
           /\ job'.pc = "compact" => job'.chunk \subseteq job'.all
BY DEF Inv, Sound

\* Where no job is left.
LEMMA NoJobLeft ==
    ASSUME job' = NoJob, hot' \in Current' \cup {0}
    PROVE  /\ job'.chunk \subseteq Current' /\ job'.all \subseteq Current'
           /\ Ids(job'.keep) \subseteq Current'
           /\ job'.sum \in Current' \cup {0} /\ hot' \in Current' \cup {0}
           /\ job'.pc = "compact" => job'.chunk \subseteq job'.all
<1>1. /\ job'.chunk = {} /\ job'.all = {} /\ job'.keep = <<>> /\ job'.sum = 0
      /\ job'.pc = "none"
  BY DEF NoJob
<1>2. Ids(<<>>) = {}
  BY EmptySeq DEF Ids
<1>. QED  BY <1>1, <1>2

\* The end of a step that leaves world w.
LEMMA StepSettles ==
    ASSUME NEW w \in Worlds(Current', crossed', Crashed'), Settle(w),
           crossed' \in BOOLEAN, Crashed' \in BOOLEAN,
           turn'.obj \in Obj \cup {None}, job'.obj \in Obj \cup {None},
           ~crossed' =>
              /\ Missing' \subseteq Behind(w.disk)
              /\ w.cached # None => Missing' \subseteq Behind(w.heap[w.cached])
              /\ turn'.obj # None => Missing' \subseteq Behind(w.heap[turn'.obj])
              /\ job'.pc = "none" => job'.obj = None
              /\ job'.pc # "none" => job'.obj \in Obj /\ job'.obj = w.cached /\ Fits(job', w.heap[w.cached])
    PROVE  store' \in Worlds(Current', crossed', Crashed') /\ Covered'
<1>1. /\ store' \in Worlds(Current', crossed', Crashed')
      /\ store'.cached = w.cached /\ store'.disk = w.disk
      /\ \A o \in Obj : o \in {w.cached, turn'.obj, job'.obj} => store'.heap[o] = w.heap[o]
  <2> DEFINE A == Current'
             c == crossed'
             k == Crashed'
  <2>1. w \in Worlds(A, c, k) /\ c \in BOOLEAN /\ k \in BOOLEAN
    OBVIOUS
  <2> HIDE DEF A, c, k
  <2>2. /\ store' \in Worlds(A, c, k)
        /\ store'.cached = w.cached /\ store'.disk = w.disk
        /\ \A o \in Obj : o \in {w.cached, turn'.obj, job'.obj} => store'.heap[o] = w.heap[o]
    BY <2>1, SettleMade
  <2>. QED  BY <2>2 DEF A, c, k
<1>2. w.cached \in Obj \cup {None}
  BY WorldIs
<1>3. ASSUME ~crossed' PROVE Missing' \subseteq Behind(store'.disk)
  BY <1>1, <1>3
<1>4. ASSUME ~crossed', NEW o \in Refs' PROVE Missing' \subseteq Behind(store'.heap[o])
  <2>1. o \in {w.cached, turn'.obj, job'.obj} /\ o # None /\ o \in Obj
    BY <1>1, <1>2, <1>4 DEF Refs
  <2>2. store'.heap[o] = w.heap[o]
    BY <1>1, <2>1
  <2>3. Missing' \subseteq Behind(w.heap[o])
    <3>1. CASE o = w.cached
      BY <1>4, <2>1, <3>1
    <3>2. CASE o = turn'.obj
      BY <1>4, <2>1, <3>2
    <3>3. CASE o = job'.obj /\ o # w.cached
      BY <1>4, <2>1, <3>3
    <3>. QED  BY <2>1, <3>1, <3>2, <3>3
  <2>. QED  BY <2>2, <2>3
<1>5. ASSUME ~crossed', job'.pc # "none"
      PROVE  job'.obj = store'.cached /\ Fits(job', store'.heap[job'.obj])
  <2>1. job'.obj \in Obj /\ job'.obj = w.cached /\ Fits(job', w.heap[w.cached])
    BY <1>5
  <2>2. store'.heap[job'.obj] = w.heap[w.cached]
    BY <1>1, <2>1
  <2>. QED  BY <1>1, <2>1, <2>2
<1>6. Covered'
  BY <1>3, <1>4, <1>5 DEF Covered, Awaiting
<1>. QED  BY <1>1, <1>6

\* Messages added at the end do not disturb an awaited archive.
LEMMA FitsPlus ==
    ASSUME NEW j \in JobType, NEW s \in Session, NEW k \in Kind, NEW n \in 1..MaxMessages,
           j.pc # "compact", Fits(j, s)
    PROVE  Fits(j, Plus(s, k, n))
<1> DEFINE p == Plus(s, k, n)
<1>1. /\ s.msgs \in Seq(Message) /\ s.lc \in Nat /\ Len(s.msgs) \in Nat /\ j.end \in Nat
  BY SessionFields DEF JobType
<1>2. /\ p \in Session /\ Len(p.msgs) = Len(s.msgs) + 1 /\ p.lc = s.lc
      /\ \A i \in 1..Len(s.msgs) : p.msgs[i] = s.msgs[i]
  BY PlusMade
<1> HIDE DEF p
<1>3. p.msgs \in Seq(Message)
  BY <1>2, SessionFields
<1>4. ASSUME j.pc \in {"overflow", "round"}
      PROVE  /\ j.end <= Len(p.msgs)
             /\ Ids(SubSeq(p.msgs, p.lc + 1, j.end)) \subseteq j.chunk
  <2>1. j.end <= Len(s.msgs) /\ Ids(SubSeq(s.msgs, s.lc + 1, j.end)) \subseteq j.chunk
    BY <1>4 DEF Fits
  <2> DEFINE a == s.lc + 1
             q == s.msgs
             t == p.msgs
             e == j.end
  <2>2. /\ a \in Nat /\ a >= 1 /\ e \in Nat /\ e <= Len(q) /\ e <= Len(t)
        /\ q \in Seq(Message) /\ t \in Seq(Message)
        /\ \A i \in a..e : t[i] = q[i]
    <3>1. a \in Nat /\ a >= 1 /\ e \in Nat /\ e <= Len(q) /\ e <= Len(t)
      BY <1>1, <1>2, <2>1
    <3>2. ASSUME NEW i \in a..e PROVE t[i] = q[i]
      <4>1. i \in 1..Len(s.msgs)
        BY <1>1, <2>1
      <4>. QED  BY <1>2, <4>1
    <3>. QED  BY <1>1, <1>3, <3>1, <3>2
  <2>3. p.lc + 1 = a
    BY <1>2
  <2> HIDE DEF a, q, t, e
  <2>4. Ids(SubSeq(q, a, e)) = {q[i].id : i \in a..e}
    BY <2>2, Part
  <2>5. Ids(SubSeq(t, a, e)) = {t[i].id : i \in a..e}
    BY <2>2, Part
  <2>6. Ids(SubSeq(t, a, e)) \subseteq Ids(SubSeq(q, a, e))
    BY <2>2, <2>4, <2>5
  <2>7. Ids(SubSeq(t, a, e)) \subseteq j.chunk
    BY <2>1, <2>6 DEF q, a, e
  <2>8. j.end <= Len(p.msgs)
    BY <2>2 DEF e, t
  <2>9. SubSeq(p.msgs, p.lc + 1, j.end) = SubSeq(t, a, e)
    BY <2>3 DEF t, e
  <2>. QED  BY <2>7, <2>8, <2>9
<1>5. Fits(j, p)
  BY <1>4 DEF Fits
<1>. QED  BY <1>5 DEF p

LEMMA WriteSettles ==
    ASSUME NEW v \in Worlds(Current', crossed', Crashed'), NEW o \in Obj,
           NEW p \in Alive(Current', crossed'), Settle(Write(v, o, p)),
           crossed' \in BOOLEAN, Crashed' \in BOOLEAN,
           turn'.obj \in Obj \cup {None}, job'.obj \in Obj \cup {None},
           ~crossed' =>
              /\ Missing' \subseteq Behind(p)
              /\ turn'.obj # None => turn'.obj = o
              /\ job'.pc = "none" => job'.obj = None
              /\ job'.pc # "none" => job'.obj = o /\ Fits(job', p)
    PROVE  store' \in Worlds(Current', crossed', Crashed') /\ Covered'
<1> DEFINE w == Write(v, o, p)
<1>1. /\ w \in Worlds(Current', crossed', Crashed') /\ w.cached = o /\ w.disk = p
      /\ w.heap[o] = p
  <2> DEFINE A == Current'
             c == crossed'
             k == Crashed'
  <2>1. v \in Worlds(A, c, k) /\ p \in Alive(A, c) /\ c \in BOOLEAN /\ k \in BOOLEAN
    OBVIOUS
  <2> HIDE DEF A, c, k
  <2>2. w \in Worlds(A, c, k) /\ w.cached = o /\ w.disk = p /\ w.heap[o] = p
    BY <2>1, WriteMade
  <2> HIDE DEF w
  <2>. QED  BY <2>2 DEF A, c, k
<1>2. Settle(w)
  OBVIOUS
<1> HIDE DEF w
<1>3. ~crossed' =>
        /\ Missing' \subseteq Behind(w.disk)
        /\ w.cached # None => Missing' \subseteq Behind(w.heap[w.cached])
        /\ turn'.obj # None => Missing' \subseteq Behind(w.heap[turn'.obj])
        /\ job'.pc = "none" => job'.obj = None
        /\ job'.pc # "none" => job'.obj \in Obj /\ job'.obj = w.cached /\ Fits(job', w.heap[w.cached])
  BY <1>1
<1>. QED  BY <1>1, <1>2, <1>3, StepSettles

LEMMA PlusCovers ==
    ASSUME NEW s \in Session, s.lc <= Len(s.msgs), NEW k \in Kind, NEW n \in 1..MaxMessages,
           NEW M, M \subseteq Behind(s) \cup {n}
    PROVE  M \subseteq Behind(Plus(s, k, n))
BY PlusMade

\* A fetched object after the step, and what it gets.
LEMMA FetchedGrows ==
    ASSUME Inv, Current \subseteq Current', crossed => crossed', crossed' \in BOOLEAN,
           crashes' = crashes
    PROVE  /\ Crashed' \in BOOLEAN
           /\ Fetch(store) \in Worlds(Current', crossed', Crashed')
           /\ store \in Worlds(Current', crossed', Crashed')
<1> DEFINE v == Fetch(store)
<1>1. v \in Worlds(Current, crossed, Crashed) /\ store \in Worlds(Current, crossed, Crashed)
  BY FetchSound DEF Inv, Sound
<1> HIDE DEF v
<1>2. crossed \in BOOLEAN /\ Crashed \in BOOLEAN /\ Crashed' = Crashed
  BY DEF Inv, ControlTypes, Crashed
<1>3. v \in Worlds(Current', crossed', Crashed)
  BY <1>1, <1>2, WorldsGrow
<1>4. store \in Worlds(Current', crossed', Crashed)
  BY <1>1, <1>2, WorldsGrow
<1>5. Crashed' \in BOOLEAN
  BY <1>2
<1>6. v \in Worlds(Current', crossed', Crashed') /\ store \in Worlds(Current', crossed', Crashed')
  BY <1>2, <1>3, <1>4
<1>. QED  BY <1>5, <1>6 DEF v

LEMMA LockStays ==
    ASSUME Inv, queue' = queue, job' = job, turn'.pc = turn.pc
    PROVE  LockOrder'
BY DEF Inv, LockOrder, Awaiting

LEMMA Numbers ==
    ASSUME Inv
    PROVE  /\ sent \in Nat /\ fence \in Nat /\ MaxMessages \in Nat /\ sent <= MaxMessages
           /\ fence <= sent /\ crossed \in BOOLEAN
           /\ turn.obj \in Obj \cup {None} /\ job.obj \in Obj \cup {None}
           /\ turn.pc \in {"idle", "build", "run"}
           /\ turn.pc = "idle" => turn = NoTurn /\ turn.obj = None
           /\ job.pc = "none" => job = NoJob /\ job.obj = None
           /\ job.pc # "none" => job.obj \in Obj
           /\ turn.pc # "idle" => turn.obj \in Obj
<1>1. ControlTypes /\ Steady /\ MaxMessages \in Nat
  BY ConsolidationAssumption DEF Inv
<1>2. NoTurn.obj = None /\ NoJob.obj = None
  BY DEF NoTurn, NoJob
<1>. QED  BY <1>1, <1>2 DEF ControlTypes, Steady, JobType

-----------------------------------------------------------------------------
(* The steps that write without the lock.                                  *)

LEMMA DeliverKeeps ==
    ASSUME Inv, Deliver
    PROVE  Inv'
<1> DEFINE v == Fetch(store)
           o == v.cached
           s == v.heap[o]
           p == Plus(s, "delivery", sent + 1)
<1>1. /\ Settle(Write(v, o, p))
      /\ crossed' = (crossed \/ job.pc = "compact" \/ (turn.pc # "idle" /\ turn.obj # o))
      /\ sent' = sent + 1
      /\ turn' = turn /\ queue' = queue /\ job' = job /\ hot' = hot /\ snaps' = snaps
      /\ archived' = archived /\ cleared' = cleared /\ fence' = fence /\ crashes' = crashes
      /\ Room(IF turn.pc = "build" THEN 3 ELSE IF turn.pc = "run" THEN 2 ELSE 1)
  BY DEF Deliver
<1>2. /\ v \in Worlds(Current, crossed, Crashed) /\ o \in Obj
      /\ ~crossed =>
           /\ Missing \subseteq Behind(s)
           /\ Awaiting => job.obj = o /\ Fits(job, s)
  BY FetchSound
<1> HIDE DEF v, o, s
<1>3. /\ sent \in Nat /\ MaxMessages \in Nat /\ sent + 1 \in 1..MaxMessages
      /\ sent' \in sent..MaxMessages /\ sent' \in 0..MaxMessages
      /\ sent' + Reserved(turn'.pc) <= MaxMessages
  BY <1>1, Numbers DEF Room, Reserved
<1>4. crossed' \in BOOLEAN /\ (crossed => crossed')
  BY <1>1, Numbers
<1>5. /\ Current \subseteq Current' /\ sent + 1 \in Current'
      /\ Current \cup {0} \subseteq Current' \cup {0}
  <2>1. sent + 1 \in (sent + 1)..sent'
    BY <1>1, <1>3
  <2>. QED  BY <1>1, <1>3, <1>4, <2>1, CurrentGrows
<1>6. v \in Worlds(Current', crossed', Crashed') /\ Crashed' \in BOOLEAN
  BY <1>1, <1>4, <1>5, FetchedGrows DEF v
<1>7. s \in Alive(Current', crossed')
  BY <1>2, <1>6, WorldIs DEF s
<1>8. p \in Alive(Current', crossed') /\ "delivery" \in Kind
  BY <1>3, <1>4, <1>5, <1>7, PlusAlive DEF Kind
<1>9. s \in Session /\ (~crossed' => s.lc <= Len(s.msgs))
  BY <1>4, <1>7, AliveIs
<1>10. ASSUME ~crossed'
       PROVE  /\ Missing' \subseteq Behind(p)
              /\ turn'.obj # None => turn'.obj = o
              /\ job'.pc = "none" => job'.obj = None
              /\ job'.pc # "none" => job'.obj = o /\ Fits(job', p)
  <2>1. ~crossed /\ job.pc # "compact" /\ (turn.pc # "idle" => turn.obj = o)
    BY <1>1, <1>10
  <2>2. Missing' \subseteq Behind(s) \cup {sent + 1}
    <3>1. Missing' \subseteq Missing \cup {sent + 1}
      BY <1>1, <1>3 DEF Missing
    <3>. QED  BY <1>2, <2>1, <3>1
  <2>3. Missing' \subseteq Behind(p)
    BY <1>3, <1>8, <1>9, <1>10, <2>2, PlusCovers
  <2>4. turn'.obj # None => turn'.obj = o
    BY <1>1, <2>1, Numbers
  <2>5. job'.pc # "none" => job'.obj = o /\ Fits(job', p)
    <3>. HAVE job'.pc # "none"
    <3>1. job.obj = o /\ Fits(job, s)
      BY <1>1, <1>2, <2>1 DEF Awaiting
    <3>2. job \in JobType
      BY DEF Inv, ControlTypes
    <3>3. Fits(job, p)
      BY <1>3, <1>8, <1>9, <2>1, <3>1, <3>2, FitsPlus
    <3>. QED  BY <1>1, <3>1, <3>3
  <2>. QED  BY <1>1, <2>3, <2>4, <2>5, Numbers
<1>11. turn'.obj \in Obj \cup {None} /\ job'.obj \in Obj \cup {None}
  BY <1>1, Numbers
<1> HIDE DEF p
<1>12. store' \in Worlds(Current', crossed', Crashed') /\ Covered'
  BY <1>1, <1>2, <1>4, <1>6, <1>8, <1>10, <1>11, WriteSettles
<1>13. Sound'
  <2>1. hot' \in {hot, 0}
    BY <1>1
  <2>. QED  BY <1>1, <1>5, <1>12, <2>1, JobStays DEF Sound
<1>14. LockOrder'
  BY <1>1, LockStays
<1>15. ControlTypes' /\ Steady'
  <2>1. ControlTypes /\ Steady
    BY DEF Inv
  <2>. QED  BY <1>1, <1>3, <1>4, <2>1 DEF ControlTypes, Steady
<1>. QED  BY <1>12, <1>13, <1>14, <1>15 DEF Inv

LEMMA StopRunKeeps ==
    ASSUME Inv, StopRun
    PROVE  Inv'
<1> DEFINE v == Fetch(store)
           o == v.cached
           s == v.heap[o]
           p == Plus(s, "reply", sent + 1)
<1>1. /\ turn.pc = "run" /\ turn' = NoTurn
      /\ Settle(Write(v, o, p))
      /\ crossed' = (crossed \/ job.pc = "compact")
      /\ sent' = sent + 1
      /\ queue' = queue /\ job' = job /\ hot' = hot /\ snaps' = snaps
      /\ archived' = archived /\ cleared' = cleared /\ fence' = fence /\ crashes' = crashes
  BY DEF StopRun
<1>2. /\ v \in Worlds(Current, crossed, Crashed) /\ o \in Obj
      /\ ~crossed =>
           /\ Missing \subseteq Behind(s)
           /\ Awaiting => job.obj = o /\ Fits(job, s)
  BY FetchSound
<1> HIDE DEF v, o, s
<1>16. turn'.obj = None /\ turn'.pc = "idle" /\ turn'.at = 0 /\ turn'.prompt = {} /\ turn'.direct = FALSE
  BY <1>1 DEF NoTurn
<1>3. /\ sent \in Nat /\ MaxMessages \in Nat /\ sent + 1 \in 1..MaxMessages
      /\ sent' \in sent..MaxMessages /\ sent' \in 0..MaxMessages
      /\ sent' + Reserved(turn'.pc) <= MaxMessages
  <2>1. sent + 1 <= MaxMessages
    BY <1>1, Numbers DEF Inv, Steady, Reserved
  <2>. QED  BY <1>1, <1>16, <2>1, Numbers DEF Reserved
<1>4. crossed' \in BOOLEAN /\ (crossed => crossed')
  BY <1>1, Numbers
<1>5. /\ Current \subseteq Current' /\ sent + 1 \in Current'
      /\ Current \cup {0} \subseteq Current' \cup {0}
  <2>1. sent + 1 \in (sent + 1)..sent'
    BY <1>1, <1>3
  <2>. QED  BY <1>1, <1>3, <1>4, <2>1, CurrentGrows
<1>6. v \in Worlds(Current', crossed', Crashed') /\ Crashed' \in BOOLEAN
  BY <1>1, <1>4, <1>5, FetchedGrows DEF v
<1>7. s \in Alive(Current', crossed')
  BY <1>2, <1>6, WorldIs DEF s
<1>8. p \in Alive(Current', crossed') /\ "reply" \in Kind
  BY <1>3, <1>4, <1>5, <1>7, PlusAlive DEF Kind
<1>9. s \in Session /\ (~crossed' => s.lc <= Len(s.msgs))
  BY <1>4, <1>7, AliveIs
<1>10. ASSUME ~crossed'
       PROVE  /\ Missing' \subseteq Behind(p)
              /\ turn'.obj # None => turn'.obj = o
              /\ job'.pc = "none" => job'.obj = None
              /\ job'.pc # "none" => job'.obj = o /\ Fits(job', p)
  <2>1. ~crossed /\ job.pc # "compact"
    BY <1>1, <1>10
  <2>2. Missing' \subseteq Behind(s) \cup {sent + 1}
    <3>1. Missing' \subseteq Missing \cup {sent + 1}
      BY <1>1, <1>3 DEF Missing
    <3>. QED  BY <1>2, <2>1, <3>1
  <2>3. Missing' \subseteq Behind(p)
    BY <1>3, <1>8, <1>9, <1>10, <2>2, PlusCovers
  <2>5. job'.pc # "none" => job'.obj = o /\ Fits(job', p)
    <3>. HAVE job'.pc # "none"
    <3>1. job.obj = o /\ Fits(job, s)
      BY <1>1, <1>2, <2>1 DEF Awaiting
    <3>2. job \in JobType
      BY DEF Inv, ControlTypes
    <3>3. Fits(job, p)
      BY <1>3, <1>8, <1>9, <2>1, <3>1, <3>2, FitsPlus
    <3>. QED  BY <1>1, <3>1, <3>3
  <2>. QED  BY <1>1, <1>16, <2>3, <2>5, Numbers
<1>11. turn'.obj \in Obj \cup {None} /\ job'.obj \in Obj \cup {None}
  BY <1>1, <1>16, Numbers
<1> HIDE DEF p
<1>12. store' \in Worlds(Current', crossed', Crashed') /\ Covered'
  BY <1>1, <1>2, <1>4, <1>6, <1>8, <1>10, <1>11, WriteSettles
<1>13. Sound'
  <2>1. hot' \in {hot, 0}
    BY <1>1
  <2>. QED  BY <1>1, <1>5, <1>12, <2>1, JobStays DEF Sound
<1>14. LockOrder'
  BY <1>1, <1>16 DEF Inv, LockOrder, Awaiting
<1>15. ControlTypes' /\ Steady'
  <2>1. ControlTypes /\ Steady
    BY DEF Inv
  <2>2. turn' \in [pc : {"idle", "build", "run"}, obj : Obj \cup {None},
                   direct : BOOLEAN, at : 0..sent', prompt : SUBSET (1..MaxMessages)]
    BY <1>1, <1>3 DEF NoTurn
  <2>. QED  BY <1>1, <1>3, <1>4, <1>16, <2>1, <2>2 DEF ControlTypes, Steady
<1>. QED  BY <1>12, <1>13, <1>14, <1>15 DEF Inv

LEMMA CommandKeeps ==
    ASSUME Inv, Command
    PROVE  Inv'
<1> DEFINE v == Fetch(store)
           o == v.cached
           s == v.heap[o]
           r == Plus(s, "command", sent + 1)
           p == Plus(r, "result", sent + 2)
<1>1. /\ turn.pc = "idle" /\ Room(2)
      /\ Settle(Write(v, o, p))
      /\ crossed' = (crossed \/ job.pc = "compact")
      /\ sent' = sent + 2 /\ hot' = 0
      /\ turn' = turn /\ queue' = queue /\ job' = job /\ snaps' = snaps
      /\ archived' = archived /\ cleared' = cleared /\ fence' = fence /\ crashes' = crashes
  BY DEF Command
<1>2. /\ v \in Worlds(Current, crossed, Crashed) /\ o \in Obj
      /\ ~crossed =>
           /\ Missing \subseteq Behind(s)
           /\ Awaiting => job.obj = o /\ Fits(job, s)
  BY FetchSound
<1> HIDE DEF v, o, s
<1>3. /\ sent \in Nat /\ MaxMessages \in Nat /\ sent + 1 \in 1..MaxMessages
      /\ sent + 2 \in 1..MaxMessages
      /\ sent' \in sent..MaxMessages /\ sent' \in 0..MaxMessages
      /\ sent' + Reserved(turn'.pc) <= MaxMessages
  BY <1>1, Numbers DEF Room, Reserved
<1>4. crossed' \in BOOLEAN /\ (crossed => crossed')
  BY <1>1, Numbers
<1>5. /\ Current \subseteq Current' /\ sent + 1 \in Current' /\ sent + 2 \in Current'
      /\ Current \cup {0} \subseteq Current' \cup {0}
  <2>1. sent + 1 \in (sent + 1)..sent' /\ sent + 2 \in (sent + 1)..sent'
    BY <1>1, <1>3
  <2>. QED  BY <1>1, <1>3, <1>4, <2>1, CurrentGrows
<1>6. v \in Worlds(Current', crossed', Crashed') /\ Crashed' \in BOOLEAN
  BY <1>1, <1>4, <1>5, FetchedGrows DEF v
<1>7. s \in Alive(Current', crossed')
  BY <1>2, <1>6, WorldIs DEF s
<1>16. r \in Alive(Current', crossed') /\ "command" \in Kind /\ "result" \in Kind
  BY <1>3, <1>4, <1>5, <1>7, PlusAlive DEF Kind
<1>9. s \in Session /\ (~crossed' => s.lc <= Len(s.msgs))
  BY <1>4, <1>7, AliveIs
<1>17. r \in Session /\ (~crossed' => r.lc <= Len(r.msgs))
  BY <1>4, <1>16, AliveIs
<1>18. ASSUME ~crossed, ~crossed' PROVE Behind(s) \cup {sent + 1} \subseteq Behind(r)
  BY <1>3, <1>9, <1>16, <1>18, PlusMade
<1>19. ASSUME job.pc # "compact", Fits(job, s) PROVE Fits(job, r)
  <2>1. job \in JobType
    BY DEF Inv, ControlTypes
  <2>. QED  BY <1>3, <1>9, <1>16, <1>19, <2>1, FitsPlus
<1> HIDE DEF r
<1>8. p \in Alive(Current', crossed')
  BY <1>3, <1>4, <1>5, <1>16, PlusAlive
<1>10. ASSUME ~crossed'
       PROVE  /\ Missing' \subseteq Behind(p)
              /\ turn'.obj # None => turn'.obj = o
              /\ job'.pc = "none" => job'.obj = None
              /\ job'.pc # "none" => job'.obj = o /\ Fits(job', p)
  <2>1. ~crossed /\ job.pc # "compact"
    BY <1>1, <1>10
  <2>2. Missing' \subseteq Behind(r) \cup {sent + 2}
    <3>1. Missing' \subseteq Missing \cup {sent + 1, sent + 2}
      BY <1>1, <1>3 DEF Missing
    <3>2. Behind(s) \cup {sent + 1} \subseteq Behind(r)
      BY <1>10, <1>18, <2>1
    <3>. QED  BY <1>2, <2>1, <3>1, <3>2
  <2>3. Missing' \subseteq Behind(p)
    BY <1>3, <1>16, <1>17, <1>10, <2>2, PlusCovers
  <2>5. job'.pc # "none" => job'.obj = o /\ Fits(job', p)
    <3>. HAVE job'.pc # "none"
    <3>1. job.obj = o /\ Fits(job, s)
      BY <1>1, <1>2, <2>1 DEF Awaiting
    <3>2. job \in JobType
      BY DEF Inv, ControlTypes
    <3>4. Fits(job, r)
      BY <1>19, <2>1, <3>1
    <3>3. Fits(job, p)
      BY <1>3, <1>16, <1>17, <2>1, <3>2, <3>4, FitsPlus
    <3>. QED  BY <1>1, <3>1, <3>3
  <2>. QED  BY <1>1, <2>3, <2>5, Numbers
<1>11. turn'.obj \in Obj \cup {None} /\ job'.obj \in Obj \cup {None}
  BY <1>1, Numbers
<1> HIDE DEF p
<1>12. store' \in Worlds(Current', crossed', Crashed') /\ Covered'
  BY <1>1, <1>2, <1>4, <1>6, <1>8, <1>10, <1>11, WriteSettles
<1>13. Sound'
  <2>1. hot' \in {hot, 0}
    BY <1>1
  <2>. QED  BY <1>1, <1>5, <1>12, <2>1, JobStays DEF Sound
<1>14. LockOrder'
  BY <1>1, LockStays
<1>15. ControlTypes' /\ Steady'
  <2>1. ControlTypes /\ Steady
    BY DEF Inv
  <2>. QED  BY <1>1, <1>3, <1>4, <2>1 DEF ControlTypes, Steady
<1>. QED  BY <1>12, <1>13, <1>14, <1>15 DEF Inv

LEMMA EndKeeps ==
    ASSUME Inv, End
    PROVE  Inv'
<1> DEFINE o == turn.obj
           h == store.heap[o]
           s == Plus(h, "reply", sent + 1)
           p == Retained(s, FileCap, FALSE)
           d == Dropped(s, FileCap, FALSE)
<1>1. /\ turn.pc = "run" /\ turn' = NoTurn
      /\ Settle(Write(store, o, p))
      /\ crossed' = (crossed \/ Awaiting)
      /\ sent' = sent + 1
      /\ queue' = Append(queue, "background") /\ job' = job /\ hot' = hot /\ snaps' = snaps
      /\ archived' = archived \cup d
      /\ cleared' = cleared /\ fence' = fence /\ crashes' = crashes
  BY DEF End
<1>2. /\ o \in Obj /\ o # None
      /\ ~crossed => Missing \subseteq Behind(h)
  <2>1. o \in Obj /\ o # None
    BY <1>1, Numbers, ConsolidationAssumption
  <2>2. o \in Refs
    BY <2>1 DEF Refs
  <2>. QED  BY <2>1, <2>2 DEF Inv, Covered
<1> HIDE DEF o, h
<1>16. turn'.obj = None /\ turn'.pc = "idle" /\ turn'.at = 0 /\ turn'.prompt = {} /\ turn'.direct = FALSE
  BY <1>1 DEF NoTurn
<1>3. /\ sent \in Nat /\ MaxMessages \in Nat /\ sent + 1 \in 1..MaxMessages
      /\ sent' \in sent..MaxMessages /\ sent' \in 0..MaxMessages
      /\ sent' + Reserved(turn'.pc) <= MaxMessages
  <2>1. sent + 1 <= MaxMessages
    BY <1>1, Numbers DEF Inv, Steady, Reserved
  <2>. QED  BY <1>1, <1>16, <2>1, Numbers DEF Reserved
<1>4. crossed' \in BOOLEAN /\ (crossed => crossed')
  BY <1>1, Numbers DEF Awaiting
<1>5. /\ Current \subseteq Current' /\ sent + 1 \in Current'
      /\ Current \cup {0} \subseteq Current' \cup {0}
  <2>1. sent + 1 \in (sent + 1)..sent'
    BY <1>1, <1>3
  <2>. QED  BY <1>1, <1>3, <1>4, <2>1, CurrentGrows
<1>6. store \in Worlds(Current', crossed', Crashed') /\ Crashed' \in BOOLEAN
  BY <1>1, <1>4, <1>5, FetchedGrows
<1>7. h \in Alive(Current', crossed')
  BY <1>2, <1>6, WorldIs DEF h
<1>8. s \in Alive(Current', crossed') /\ "reply" \in Kind
  BY <1>3, <1>4, <1>5, <1>7, PlusAlive DEF Kind
<1>9. h \in Session /\ (~crossed' => h.lc <= Len(h.msgs))
  BY <1>4, <1>7, AliveIs
<1>17. s \in Session /\ Ids(s.msgs) \subseteq Current'
  BY <1>4, <1>8, AliveIs
<1>18. ASSUME ~crossed' PROVE Missing' \subseteq Behind(s) \ d
  <2>1. ~crossed
    BY <1>1, <1>18
  <2>2. Missing' \subseteq (Missing \cup {sent + 1}) \ d
    <3>1. archived' = archived \cup d /\ cleared' = cleared /\ sent' = sent + 1
      BY <1>1
    <3> HIDE DEF d
    <3>2. ASSUME NEW i \in 1..sent', i # sent + 1 PROVE i \in 1..sent
      BY <1>3, <3>1, <3>2
    <3>. QED  BY <3>1, <3>2 DEF Missing
  <2>3. Behind(h) \cup {sent + 1} \subseteq Behind(s)
    BY <1>3, <1>8, <1>9, <1>18, PlusMade
  <2>. QED  BY <1>2, <2>1, <2>2, <2>3
<1> HIDE DEF s
<1>19. FileCap \in Nat \ {0} /\ FALSE \in BOOLEAN
  BY ConsolidationAssumption
<1>20. d \subseteq Behind(s) /\ Behind(s) \subseteq d \cup Behind(p)
  BY <1>17, <1>19, RetainedMade
<1>21. p \in Alive(Current', crossed')
  BY <1>4, <1>8, <1>19, RetainedAlive
<1>22. d \subseteq 1..sent'
  <2>1. Behind(s) \subseteq Ids(s.msgs)
    BY <1>17, BehindIds
  <2>2. Current' \subseteq 1..sent'
    BY DEF Current
  <2>. QED  BY <1>17, <1>20, <2>1, <2>2
<1> HIDE DEF p, d
<1>10. ASSUME ~crossed'
       PROVE  /\ Missing' \subseteq Behind(p)
              /\ turn'.obj # None => turn'.obj = o
              /\ job'.pc = "none" => job'.obj = None
              /\ job'.pc # "none" => job'.obj = o /\ Fits(job', p)
  <2>1. job'.pc = "none"
    BY <1>1, <1>10 DEF Awaiting
  <2>2. Missing' \subseteq Behind(p)
    BY <1>10, <1>18, <1>20
  <2>. QED  BY <1>1, <1>16, <2>1, <2>2, Numbers
<1>11. turn'.obj \in Obj \cup {None} /\ job'.obj \in Obj \cup {None}
  BY <1>1, <1>16, Numbers
<1>12. store' \in Worlds(Current', crossed', Crashed') /\ Covered'
  BY <1>1, <1>2, <1>4, <1>6, <1>21, <1>10, <1>11, WriteSettles
<1>13. Sound'
  <2>1. hot' \in {hot, 0}
    BY <1>1
  <2>. QED  BY <1>1, <1>5, <1>12, <2>1, JobStays DEF Sound
<1>14. LockOrder'
  <2>1. /\ Ordered(queue)
        /\ Awaiting => queue # <<>> /\ (job.pc = "compact" <=> Head(queue) = "idle")
        /\ ~In("turn", queue) /\ ~In("background", queue)
    BY <1>1 DEF Inv, LockOrder
  <2>2. "background" \in Holder
    BY DEF Holder
  <2>3. /\ Ordered(queue') /\ queue' # <<>>
        /\ \A y : In(y, queue') <=> In(y, queue) \/ y = "background"
        /\ queue # <<>> => Head(queue') = Head(queue)
    BY <1>1, <2>1, <2>2, AppendOrdered
  <2>4. ~In("turn", queue')
    BY <2>1, <2>3
  <2>. QED  BY <1>1, <1>16, <2>1, <2>3, <2>4 DEF LockOrder, Awaiting
<1>15. ControlTypes' /\ Steady'
  <2>1. ControlTypes /\ Steady
    BY DEF Inv
  <2>2. turn' \in [pc : {"idle", "build", "run"}, obj : Obj \cup {None},
                   direct : BOOLEAN, at : 0..sent', prompt : SUBSET (1..MaxMessages)]
    BY <1>1, <1>3 DEF NoTurn
  <2>3. archived' \subseteq 1..sent' /\ cleared' \subseteq 1..sent' /\ snaps' \subseteq SUBSET (1..sent')
    <3>1. 1..sent \subseteq 1..sent'
      BY <1>1, <1>3
    <3>. QED  BY <1>1, <1>22, <2>1, <3>1 DEF ControlTypes
  <2>4. fence' \in 0..sent' /\ crashes' \in 0..MaxCrashes
    BY <1>1, <1>3, <2>1 DEF ControlTypes
  <2>. QED  BY <1>1, <1>3, <1>4, <1>16, <2>1, <2>2, <2>3, <2>4 DEF ControlTypes, Steady
<1>. QED  BY <1>12, <1>13, <1>14, <1>15 DEF Inv

-----------------------------------------------------------------------------
(* The steps that take the session, or let it go.                          *)

LEMMA BeginKeeps ==
    ASSUME Inv, NEW direct \in BOOLEAN, Begin(direct)
    PROVE  Inv'
<1> DEFINE v == Fetch(store)
<1>1. /\ turn.pc = "idle" /\ Room(2)
      /\ turn' = [NoTurn EXCEPT !.pc = "build", !.obj = v.cached, !.direct = direct, !.at = sent]
      /\ Settle(v)
      /\ queue' = Append(queue, "turn") /\ job' = job /\ hot' = 0 /\ snaps' = snaps
      /\ archived' = archived /\ sent' = sent /\ cleared' = cleared /\ fence' = fence
      /\ crossed' = crossed /\ crashes' = crashes
  BY DEF Begin
<1>2. /\ v \in Worlds(Current, crossed, Crashed) /\ v.cached \in Obj
      /\ ~crossed =>
           /\ Missing \subseteq Behind(v.disk)
           /\ Missing \subseteq Behind(v.heap[v.cached])
           /\ Awaiting => job.obj = v.cached /\ Fits(job, v.heap[v.cached])
  BY FetchSound
<1> HIDE DEF v
<1>3. turn' = [pc |-> "build", obj |-> v.cached, direct |-> direct, at |-> sent, prompt |-> {}]
  BY <1>1 DEF NoTurn
<1>4. /\ turn'.pc = "build" /\ turn'.obj = v.cached /\ turn'.direct = direct
      /\ turn'.at = sent /\ turn'.prompt = {}
  BY <1>3
<1>5. /\ Current' = Current /\ Missing' = Missing /\ Crashed' = Crashed
      /\ crossed' \in BOOLEAN /\ Crashed' \in BOOLEAN
  BY <1>1, Numbers DEF Current, Missing, Crashed
<1>6. v \in Worlds(Current', crossed', Crashed')
  BY <1>1, <1>2, <1>5
<1>7. ~crossed' =>
        /\ Missing' \subseteq Behind(v.disk)
        /\ v.cached # None => Missing' \subseteq Behind(v.heap[v.cached])
        /\ turn'.obj # None => Missing' \subseteq Behind(v.heap[turn'.obj])
        /\ job'.pc = "none" => job'.obj = None
        /\ job'.pc # "none" => job'.obj \in Obj /\ job'.obj = v.cached /\ Fits(job', v.heap[v.cached])
  BY <1>1, <1>2, <1>4, <1>5, Numbers DEF Awaiting
<1>8. turn'.obj \in Obj \cup {None} /\ job'.obj \in Obj \cup {None}
  BY <1>1, <1>2, <1>4, Numbers
<1>9. store' \in Worlds(Current', crossed', Crashed') /\ Covered'
  BY <1>1, <1>5, <1>6, <1>7, <1>8, StepSettles
<1>10. Sound'
  <2>1. Current \subseteq Current' /\ hot' \in {hot, 0}
    BY <1>1, <1>5
  <2>. QED  BY <1>1, <1>9, <2>1, JobStays DEF Sound
<1>11. LockOrder'
  <2>1. /\ Ordered(queue)
        /\ Awaiting => queue # <<>> /\ (job.pc = "compact" <=> Head(queue) = "idle")
        /\ ~In("turn", queue)
    BY <1>1 DEF Inv, LockOrder
  <2>2. "turn" \in Holder
    BY DEF Holder
  <2>3. /\ Ordered(queue') /\ queue' # <<>>
        /\ \A y : In(y, queue') <=> In(y, queue) \/ y = "turn"
        /\ queue # <<>> => Head(queue') = Head(queue)
    BY <1>1, <2>1, <2>2, AppendOrdered
  <2>. QED  BY <1>1, <1>4, <2>1, <2>3 DEF LockOrder, Awaiting
<1>12. ControlTypes' /\ Steady'
  <2>1. ControlTypes /\ Steady
    BY DEF Inv
  <2>2. turn' \in [pc : {"idle", "build", "run"}, obj : Obj \cup {None},
                   direct : BOOLEAN, at : 0..sent', prompt : SUBSET (1..MaxMessages)]
    <3>1. sent \in 0..sent'
      BY <1>1, Numbers
    <3>. QED  BY <1>2, <1>3, <3>1
  <2>3. sent' + Reserved(turn'.pc) <= MaxMessages
    BY <1>1, <1>4 DEF Room, Reserved
  <2>. QED  BY <1>1, <1>2, <1>4, <2>1, <2>2, <2>3 DEF ControlTypes, Steady
<1>. QED  BY <1>9, <1>10, <1>11, <1>12 DEF Inv

LEMMA CheckExpiredKeeps ==
    ASSUME Inv, CheckExpired
    PROVE  Inv'
<1> DEFINE v == Fetch(store)
<1>1. /\ \A i \in 1..Len(queue) : queue[i] # "idle"
      /\ Settle(v)
      /\ turn' = turn
      /\ queue' = Append(queue, "idle") /\ job' = job /\ hot' = hot /\ snaps' = snaps
      /\ archived' = archived /\ sent' = sent /\ cleared' = cleared /\ fence' = fence
      /\ crossed' = crossed /\ crashes' = crashes
  BY DEF CheckExpired
<1>2. /\ v \in Worlds(Current, crossed, Crashed) /\ v.cached \in Obj
      /\ ~crossed =>
           /\ Missing \subseteq Behind(v.disk)
           /\ Missing \subseteq Behind(v.heap[v.cached])
           /\ turn.obj # None => Missing \subseteq Behind(v.heap[turn.obj])
           /\ Awaiting => job.obj = v.cached /\ Fits(job, v.heap[v.cached])
  BY FetchSound
<1> HIDE DEF v
<1>5. /\ Current' = Current /\ Missing' = Missing /\ Crashed' = Crashed
      /\ crossed' \in BOOLEAN /\ Crashed' \in BOOLEAN
  BY <1>1, Numbers DEF Current, Missing, Crashed
<1>6. v \in Worlds(Current', crossed', Crashed')
  BY <1>1, <1>2, <1>5
<1>7. ~crossed' =>
        /\ Missing' \subseteq Behind(v.disk)
        /\ v.cached # None => Missing' \subseteq Behind(v.heap[v.cached])
        /\ turn'.obj # None => Missing' \subseteq Behind(v.heap[turn'.obj])
        /\ job'.pc = "none" => job'.obj = None
        /\ job'.pc # "none" => job'.obj \in Obj /\ job'.obj = v.cached /\ Fits(job', v.heap[v.cached])
  BY <1>1, <1>2, <1>5, Numbers DEF Awaiting
<1>8. turn'.obj \in Obj \cup {None} /\ job'.obj \in Obj \cup {None}
  BY <1>1, Numbers
<1>9. store' \in Worlds(Current', crossed', Crashed') /\ Covered'
  BY <1>1, <1>5, <1>6, <1>7, <1>8, StepSettles
<1>10. Sound'
  <2>1. Current \subseteq Current' /\ hot' \in {hot, 0}
    BY <1>1, <1>5
  <2>. QED  BY <1>1, <1>9, <2>1, JobStays DEF Sound
<1>11. LockOrder'
  <2>1. /\ Ordered(queue)
        /\ Awaiting => queue # <<>> /\ (job.pc = "compact" <=> Head(queue) = "idle")
        /\ (turn.pc = "build") <=> In("turn", queue)
        /\ turn.pc = "run" => ~In("background", queue)
        /\ ~In("idle", queue)
    BY <1>1 DEF Inv, LockOrder, In
  <2>2. "idle" \in Holder
    BY DEF Holder
  <2>3. /\ Ordered(queue') /\ queue' # <<>>
        /\ \A y : In(y, queue') <=> In(y, queue) \/ y = "idle"
        /\ queue # <<>> => Head(queue') = Head(queue)
    BY <1>1, <2>1, <2>2, AppendOrdered
  <2>. QED  BY <1>1, <2>1, <2>3 DEF LockOrder, Awaiting
<1>12. ControlTypes' /\ Steady'
  <2>1. ControlTypes /\ Steady
    BY DEF Inv
  <2>. QED  BY <1>1, <2>1 DEF ControlTypes, Steady
<1>. QED  BY <1>9, <1>10, <1>11, <1>12 DEF Inv

LEMMA StopBuildKeeps ==
    ASSUME Inv, StopBuild
    PROVE  Inv'
<1>1. /\ turn.pc = "build" /\ turn' = NoTurn
      /\ queue' = Without(queue, "turn")
      /\ job' = IF Head(queue) = "turn" THEN NoJob ELSE job
      /\ Settle(store)
      /\ hot' = hot /\ snaps' = snaps
      /\ archived' = archived /\ sent' = sent /\ cleared' = cleared /\ fence' = fence
      /\ crossed' = crossed /\ crashes' = crashes
  BY DEF StopBuild
<1>2. turn'.obj = None /\ turn'.pc = "idle" /\ NoJob.pc = "none" /\ NoJob.obj = None
  BY <1>1 DEF NoTurn, NoJob
<1>3. /\ Current' = Current /\ Missing' = Missing /\ Crashed' = Crashed
      /\ crossed' \in BOOLEAN /\ Crashed' \in BOOLEAN
  BY <1>1, Numbers DEF Current, Missing, Crashed
<1>4. store \in Worlds(Current', crossed', Crashed') /\ store.cached \in Obj \cup {None}
  <2>1. store \in Worlds(Current, crossed, Crashed)
    BY DEF Inv, Sound
  <2>. QED  BY <1>1, <1>3, <2>1, WorldIs
<1>5. ASSUME ~crossed'
      PROVE  /\ Missing' \subseteq Behind(store.disk)
             /\ store.cached # None => Missing' \subseteq Behind(store.heap[store.cached])
             /\ turn'.obj # None => Missing' \subseteq Behind(store.heap[turn'.obj])
             /\ job'.pc = "none" => job'.obj = None
             /\ job'.pc # "none" => job'.obj \in Obj /\ job'.obj = store.cached
                                      /\ Fits(job', store.heap[store.cached])
  <2>1. /\ Missing \subseteq Behind(store.disk)
        /\ \A o \in Refs : Missing \subseteq Behind(store.heap[o])
        /\ Awaiting => job.obj = store.cached /\ Fits(job, store.heap[job.obj])
    BY <1>1, <1>5 DEF Inv, Covered
  <2>2. store.cached # None => store.cached \in Refs
    BY DEF Refs
  <2>3. job'.pc = "none" => job'.obj = None
    BY <1>1, <1>2, Numbers
  <2>4. job'.pc # "none" => job'.obj \in Obj /\ job'.obj = store.cached
                               /\ Fits(job', store.heap[store.cached])
    <3>. HAVE job'.pc # "none"
    <3>1. job' = job
      BY <1>1, <1>2
    <3>. QED  BY <2>1, <3>1, Numbers DEF Awaiting
  <2>. QED  BY <1>2, <1>3, <2>1, <2>2, <2>3, <2>4
<1>6. turn'.obj \in Obj \cup {None} /\ job'.obj \in Obj \cup {None}
  BY <1>1, <1>2, Numbers
<1>7. store' \in Worlds(Current', crossed', Crashed') /\ Covered'
  BY <1>1, <1>3, <1>4, <1>5, <1>6, StepSettles
<1>8. Sound'
  <2>1. Current \subseteq Current' /\ hot' \in {hot, 0} /\ hot' \in Current' \cup {0}
    BY <1>1, <1>3 DEF Inv, Sound
  <2>2. CASE job' = job
    BY <1>7, <2>1, <2>2, JobStays DEF Sound
  <2>3. CASE job' = NoJob
    BY <1>7, <2>1, <2>3, NoJobLeft DEF Sound
  <2>. QED  BY <1>1, <2>2, <2>3
<1>9. LockOrder'
  <2>1. /\ Ordered(queue)
        /\ Awaiting => queue # <<>> /\ (job.pc = "compact" <=> Head(queue) = "idle")
        /\ In("turn", queue)
    BY <1>1 DEF Inv, LockOrder
  <2>2. /\ Ordered(queue')
        /\ \A y : In(y, queue') <=> In(y, queue) /\ y # "turn"
        /\ Head(queue) # "turn" => queue' # <<>> /\ Head(queue') = Head(queue)
    BY <1>1, <2>1, WithoutOrdered
  <2>3. job'.pc # "none" => job' = job /\ Head(queue) # "turn"
    BY <1>1, <1>2
  <2>. QED  BY <1>2, <2>1, <2>2, <2>3 DEF LockOrder, Awaiting
<1>10. ControlTypes' /\ Steady'
  <2>1. ControlTypes /\ Steady /\ sent \in Nat
    BY Numbers DEF Inv
  <2>2. turn' \in [pc : {"idle", "build", "run"}, obj : Obj \cup {None},
                   direct : BOOLEAN, at : 0..sent', prompt : SUBSET (1..MaxMessages)]
    BY <1>1, <2>1 DEF NoTurn
  <2>3. NoJob \in JobType
    BY EmptySeq, ConsolidationAssumption DEF NoJob, JobType
  <2>4. job' \in JobType
    BY <1>1, <2>1, <2>3 DEF ControlTypes
  <2>5. sent' + Reserved(turn'.pc) <= MaxMessages
    BY <1>1, <1>2, <2>1, Numbers DEF Reserved
  <2>6. job'.pc = "none" => job' = NoJob
    BY <1>1, Numbers
  <2>7. job'.pc # "none" => job'.obj \in Obj
    BY <1>1, <1>2, Numbers
  <2>. QED  BY <1>1, <1>2, <2>1, <2>2, <2>4, <2>5, <2>6, <2>7 DEF ControlTypes, Steady
<1>. QED  BY <1>7, <1>8, <1>9, <1>10 DEF Inv

LEMMA SnapshotKeeps ==
    ASSUME Inv, SnapshotArchived
    PROVE  Inv'
<1>1. PICK s \in snaps : archived' = archived \cup s /\ snaps' = snaps \ {s}
  BY DEF SnapshotArchived
<1>2. /\ store' = store /\ turn' = turn /\ queue' = queue /\ job' = job /\ hot' = hot
      /\ sent' = sent /\ cleared' = cleared /\ fence' = fence
      /\ crossed' = crossed /\ crashes' = crashes
  BY DEF SnapshotArchived
<1>3. Missing' \subseteq Missing
  BY <1>1, <1>2 DEF Missing
<1>4. ControlTypes'
  BY <1>1, <1>2 DEF Inv, ControlTypes
<1>5. LockOrder' /\ Steady'
  BY <1>2 DEF Inv, LockOrder, Steady, Awaiting
<1>6. Sound'
  BY <1>2 DEF Inv, Sound, Current, Crashed
<1>7. Covered'
  <2>1. /\ crossed' = crossed /\ Refs' = Refs /\ Awaiting' = Awaiting /\ store' = store /\ job' = job
    BY <1>2 DEF Refs, Awaiting
  <2>. QED  BY <1>3, <2>1 DEF Inv, Covered
<1>. QED  BY <1>4, <1>5, <1>6, <1>7 DEF Inv

LEMMA NewKeeps ==
    ASSUME Inv, New
    PROVE  Inv'
<1> DEFINE v == Fetch(store)
           o == v.cached
           u == Write(v, o, Blank)
           w == Invalidate(u)
           gone == Ids(Tail_(v.heap[o]))
<1>1. /\ turn.pc = "idle"
      /\ snaps' = IF gone = {} THEN snaps ELSE snaps \cup {gone}
      /\ Settle(w)
      /\ turn' = turn /\ queue' = queue /\ job' = job /\ hot' = 0
      /\ cleared' = 1..sent /\ fence' = sent /\ crossed' = (crossed \/ Awaiting)
      /\ archived' = archived /\ sent' = sent /\ crashes' = crashes
  BY DEF New
<1>2. v \in Worlds(Current, crossed, Crashed) /\ o \in Obj
  BY FetchSound
<1>3. crossed \in BOOLEAN /\ Crashed \in BOOLEAN
  BY Numbers DEF Crashed
<1>4. v.heap[o] \in Session /\ Ids(v.heap[o].msgs) \subseteq Current
  BY <1>2, <1>3, WorldIs, AliveIs
<1>5. gone \subseteq 1..sent
  <2>1. Behind(v.heap[o]) \subseteq Ids(v.heap[o].msgs)
    BY <1>4, BehindIds
  <2>2. Current \subseteq 1..sent
    BY DEF Current
  <2>. QED  BY <1>4, <2>1, <2>2 DEF Behind
<1> HIDE DEF v, o, gone
<1>6. u \in Worlds(Current, crossed, Crashed) /\ u.disk = Blank
  BY <1>2, <1>3, BlankAlive, WriteMade
<1> HIDE DEF u
<1>7. /\ w \in Worlds(Current, crossed, Crashed) /\ w.cached = None /\ w.disk = Blank
  BY <1>3, <1>6, InvalidateMade
<1> HIDE DEF w
<1>8. Missing' = {}
  BY <1>1 DEF Missing
<1>9. /\ crossed' \in BOOLEAN /\ Crashed' = Crashed
  BY <1>1, <1>3 DEF Crashed, Awaiting
<1>10. turn'.obj = None
  BY <1>1, Numbers
<1>11. ASSUME crossed' PROVE Sound' /\ Covered'
  <2>1. Current \subseteq Current'
    BY <1>1, <1>11 DEF Current
  <2>2. w \in Worlds(Current', crossed', Crashed')
    <3>1. w \in Worlds(Current', crossed', Crashed)
      BY <1>3, <1>7, <1>9, <1>11, <2>1, WorldsGrow
    <3>. QED  BY <1>9, <3>1
  <2>3. store' \in Worlds(Current', crossed', Crashed') /\ Covered'
    <3>1. turn'.obj \in Obj \cup {None} /\ job'.obj \in Obj \cup {None} /\ Crashed' \in BOOLEAN
      BY <1>1, <1>3, <1>9, Numbers
    <3>. QED  BY <1>1, <1>9, <1>11, <2>2, <3>1, StepSettles
  <2>4. hot' \in {hot, 0}
    BY <1>1
  <2>. QED  BY <1>1, <2>1, <2>3, <2>4, JobStays DEF Sound
<1>12. ASSUME ~crossed' PROVE Sound' /\ Covered'
  <2>1. ~crossed /\ job' = NoJob /\ job'.obj = None /\ job'.pc = "none"
    BY <1>1, <1>12, Numbers DEF Awaiting, NoJob
  <2>2. Refs' = {}
    <3>1. store'.cached = None
      BY <1>1, <1>3, <1>7, SettleMade
    <3>. QED  BY <1>10, <2>1, <3>1 DEF Refs
  <2>3. store' = [heap |-> [x \in Obj |-> Blank], cached |-> None, disk |-> Blank]
    <3>1. w = [heap |-> w.heap, cached |-> None, disk |-> Blank]
      BY <1>7, WorldIs
    <3>2. \A x \in Obj : x \notin ({w.cached, turn'.obj, job'.obj} \ {None})
      BY <1>7, <1>10, <2>1
    <3>3. store' = [w EXCEPT !.heap = [x \in Obj |-> Blank]]
      BY <1>1, <3>2 DEF Settle
    <3>. QED  BY <3>1, <3>3
  <2>4. store' \in Worlds(Current', crossed', Crashed')
    <3> DEFINE A == Current'
               c == crossed'
               k == Crashed'
    <3>1. c \in BOOLEAN /\ k \in BOOLEAN
      BY <1>3, <1>9
    <3> HIDE DEF A, c, k
    <3>2. Blank \in Alive(A, c) /\ Blank \in Filed(A, c, k)
      BY <3>1, BlankAlive
    <3>3. store' \in Worlds(A, c, k)
      BY <2>3, <3>2 DEF Worlds
    <3>. QED  BY <3>3 DEF A, c, k
  <2>5. Covered'
    <3>1. Missing' \subseteq Behind(store'.disk)
      BY <1>8
    <3>2. ~(job'.pc # "none")
      BY <2>1
    <3>. QED  BY <2>2, <3>1, <3>2 DEF Covered, Awaiting
  <2>6. hot' \in Current' \cup {0}
    BY <1>1
  <2>. QED  BY <2>1, <2>4, <2>5, <2>6, NoJobLeft DEF Sound
<1>13. LockOrder'
  BY <1>1, LockStays
<1>14. ControlTypes' /\ Steady'
  <2>1. ControlTypes /\ Steady
    BY DEF Inv
  <2>2. snaps' \subseteq SUBSET (1..sent')
    BY <1>1, <1>5, <2>1 DEF ControlTypes
  <2>3. fence' \in 0..sent'
    BY <1>1, Numbers
  <2>. QED  BY <1>1, <1>9, <2>1, <2>2, <2>3 DEF ControlTypes, Steady
<1>. QED  BY <1>9, <1>11, <1>12, <1>13, <1>14 DEF Inv

\* What the process remembers is gone; the file is left.
LEMMA ForgetKeeps ==
    ASSUME Inv, NEW disk, Forget(disk), sent' = sent, archived' = archived, fence' = fence,
           crossed' = crossed, cleared \subseteq cleared', cleared' \subseteq 1..sent,
           snaps' \subseteq snaps, crashes' \in crashes..MaxCrashes,
           disk \in Filed(Current', crossed', Crashed'),
           ~crossed => Missing' \subseteq Behind(disk)
    PROVE  Inv'
<1>1. /\ turn' = NoTurn /\ queue' = <<>> /\ job' = NoJob /\ hot' = 0
      /\ Settle([store EXCEPT !.cached = None, !.disk = disk])
  BY DEF Forget
<1>2. /\ turn'.obj = None /\ turn'.pc = "idle" /\ job'.pc = "none" /\ job'.obj = None
  BY <1>1 DEF NoTurn, NoJob
<1>3. /\ Current' = Current /\ crossed \in BOOLEAN /\ Crashed \in BOOLEAN /\ Crashed' \in BOOLEAN
      /\ Crashed => Crashed'
  <2>1. crashes \in Nat /\ crashes' >= crashes /\ crashes' \in Nat
    BY ConsolidationAssumption DEF Inv, ControlTypes
  <2>. QED  BY <2>1, Numbers DEF Current, Crashed
<1> DEFINE w == [store EXCEPT !.cached = None, !.disk = disk]
<1>4. w \in Worlds(Current', crossed', Crashed') /\ w.cached = None /\ w.disk = disk
  <2>1. store \in Worlds(Current, crossed, Crashed)
    BY DEF Inv, Sound
  <2>2. store \in Worlds(Current', crossed', Crashed')
    <3>1. store \in Worlds(Current, crossed, Crashed')
      BY <1>3, <2>1, WorldsGrow
    <3>. QED  BY <1>3, <3>1
  <2> DEFINE A == Current'
             c == crossed'
             k == Crashed'
  <2>3. store \in Worlds(A, c, k) /\ disk \in Filed(A, c, k)
    BY <2>2
  <2> HIDE DEF A, c, k
  <2>6. w \in Worlds(A, c, k) /\ w.cached = None /\ w.disk = disk
    BY <2>3 DEF Worlds
  <2>. QED  BY <2>6 DEF A, c, k
<1>5. Settle(w)
  BY <1>1
<1> HIDE DEF w
<1>6. store' \in Worlds(Current', crossed', Crashed') /\ Covered'
  <2>1. turn'.obj \in Obj \cup {None} /\ job'.obj \in Obj \cup {None} /\ crossed' \in BOOLEAN
    BY <1>2, <1>3
  <2>. QED  BY <1>2, <1>3, <1>4, <1>5, <2>1, StepSettles
<1>7. Sound'
  <2>1. hot' \in Current' \cup {0}
    BY <1>1
  <2>. QED  BY <1>1, <1>6, <2>1, NoJobLeft DEF Sound
<1>8. LockOrder'
  <2>1. Len(queue') = 0 /\ queue' \in Seq(Holder)
    BY <1>1, EmptySeq
  <2>2. \A i : i \notin 1..Len(queue')
    BY <2>1
  <2>. QED  BY <1>2, <2>1, <2>2 DEF LockOrder, Ordered, In, Awaiting
<1>9. ControlTypes' /\ Steady'
  <2>1. ControlTypes /\ Steady /\ sent \in Nat
    BY Numbers DEF Inv
  <2>2. turn' \in [pc : {"idle", "build", "run"}, obj : Obj \cup {None},
                   direct : BOOLEAN, at : 0..sent', prompt : SUBSET (1..MaxMessages)]
    BY <1>1, <2>1 DEF NoTurn
  <2>3. job' \in JobType
    BY <1>1, EmptySeq, ConsolidationAssumption DEF NoJob, JobType
  <2>4. crashes' \in 0..MaxCrashes
    BY <2>1, ConsolidationAssumption DEF ControlTypes
  <2>5. sent' + Reserved(turn'.pc) <= MaxMessages
    BY <1>2, <2>1, Numbers DEF Reserved
  <2>. QED  BY <1>1, <1>2, <2>1, <2>2, <2>3, <2>4, <2>5 DEF ControlTypes, Steady
<1>. QED  BY <1>6, <1>7, <1>8, <1>9 DEF Inv

LEMMA CrashKeeps ==
    ASSUME Inv, Crash
    PROVE  Inv'
<1> DEFINE all == store.disk.msgs
           lost(n) == Ids(SubSeq(all, n + 1, Len(all)))
<1>1. PICK n \in 0..Len(all) :
        /\ cleared' = cleared \cup lost(n) \cup UNION snaps
        /\ Forget([store.disk EXCEPT !.msgs = SubSeq(@, 1, n)])
  BY DEF Crash
<1>2. /\ crashes < MaxCrashes /\ crashes' = crashes + 1 /\ snaps' = {}
      /\ archived' = archived /\ sent' = sent /\ fence' = fence /\ crossed' = crossed
  BY DEF Crash
<1>3. /\ store.disk \in Filed(Current, crossed, Crashed) /\ crossed \in BOOLEAN /\ Crashed \in BOOLEAN
  <2>1. store \in Worlds(Current, crossed, Crashed)
    BY DEF Inv, Sound
  <2>. QED  BY <2>1, WorldIs, Numbers DEF Crashed
<1>4. /\ store.disk \in Session /\ Ids(all) \subseteq Current /\ store.disk.sum \in Current \cup {0}
  BY <1>3, FiledIs
<1>5. all \in Seq(Message) /\ store.disk.lc \in Nat /\ store.disk.sum \in Nat /\ Len(all) \in Nat
  BY <1>4, SessionFields
<1>6. n \in Nat /\ n <= Len(all)
  BY <1>5
<1> DEFINE q == SubSeq(all, 1, n)
           disk == [store.disk EXCEPT !.msgs = q]
<1>7. /\ q \in Seq(Message) /\ Len(q) = n
      /\ \A i \in 1..n : q[i] = all[i]
      /\ Ids(q) = {all[i].id : i \in 1..n}
  <2> HIDE DEF all
  <2> DEFINE m == 1
  <2>1. m \in Nat /\ m >= 1
    OBVIOUS
  <2> HIDE DEF m
  <2> DEFINE t == SubSeq(all, m, n)
  <2>2. /\ t \in Seq(Message)
        /\ Len(t) = IF m <= n THEN n - m + 1 ELSE 0
        /\ \A i \in 1..Len(t) : t[i] = all[m + i - 1]
        /\ Ids(t) = {all[i].id : i \in m..n}
    BY <1>5, <1>6, <2>1, Part
  <2>3. t = q
    BY DEF m
  <2> HIDE DEF t, q
  <2>4. Len(t) = n
    BY <1>6, <2>2 DEF m
  <2>5. \A i \in 1..n : t[i] = all[i]
    BY <1>6, <2>2, <2>4 DEF m
  <2>. QED  BY <2>2, <2>3, <2>4, <2>5 DEF m
<1>8. lost(n) = {all[i].id : i \in (n + 1)..Len(all)}
  <2> DEFINE m == n + 1
             e == Len(all)
  <2>1. m \in Nat /\ m >= 1 /\ e \in Nat /\ e <= Len(all)
    BY <1>5, <1>6
  <2> HIDE DEF all, m, e
  <2>2. Ids(SubSeq(all, m, e)) = {all[i].id : i \in m..e}
    BY <1>5, <2>1, Part
  <2>. QED  BY <2>2 DEF m, e
<1>9. Forget(disk)
  BY <1>1
<1> HIDE DEF q
<1>10. disk \in Session /\ disk.msgs = q /\ disk.lc = store.disk.lc /\ disk.sum = store.disk.sum
  BY <1>4, <1>5, <1>7 DEF Session
<1>11. lost(n) \subseteq 1..sent /\ Ids(q) \subseteq Current
  <2>1. (n + 1)..Len(all) \subseteq 1..Len(all) /\ 1..n \subseteq 1..Len(all)
    BY <1>5, <1>6
  <2>2. Ids(all) = {all[i].id : i \in 1..Len(all)}
    BY DEF Ids
  <2>3. Current \subseteq 1..sent
    BY DEF Current
  <2>. QED  BY <1>4, <1>7, <1>8, <2>1, <2>2, <2>3
<1>12. /\ Current' = Current /\ Crashed' = TRUE /\ crashes' \in crashes..MaxCrashes
  <2>1. crashes \in 0..MaxCrashes /\ MaxCrashes \in Nat
    BY ConsolidationAssumption DEF Inv, ControlTypes
  <2>. QED  BY <1>2, <2>1 DEF Current, Crashed
<1>13. disk \in Filed(Current', crossed', Crashed')
  <2> HIDE DEF disk
  <2>1. disk \in Filed(Current, crossed, TRUE)
    BY <1>3, <1>4, <1>10, <1>11, FiledIs
  <2>. QED  BY <1>2, <1>12, <2>1
<1>14. ASSUME ~crossed PROVE Missing' \subseteq Behind(disk)
  <2>1. Missing \subseteq Behind(store.disk)
    BY <1>14 DEF Inv, Covered
  <2>2. Missing' \subseteq Missing \ lost(n)
    <3> HIDE DEF lost
    <3>. QED  BY <1>1, <1>2 DEF Missing
  <2>3. Behind(store.disk) = {all[i].id : i \in (store.disk.lc + 1)..Len(all)}
    BY <1>4, BehindIds
  <2>4. Behind(disk) = {q[i].id : i \in (store.disk.lc + 1)..n}
    <3> HIDE DEF disk
    <3>1. Behind(disk) = {disk.msgs[i].id : i \in (disk.lc + 1)..Len(disk.msgs)}
      BY <1>10, BehindIds
    <3>2. disk.msgs = q /\ Len(disk.msgs) = n /\ disk.lc = store.disk.lc
      BY <1>7, <1>10
    <3>. QED  BY <3>1, <3>2
  <2>5. ASSUME NEW i \in (store.disk.lc + 1)..Len(all), all[i].id \notin lost(n)
        PROVE  all[i].id \in Behind(disk)
    <3>1. i \notin (n + 1)..Len(all)
      BY <1>8, <2>5
    <3>2. i \in (store.disk.lc + 1)..n /\ i \in 1..n
      BY <1>5, <1>6, <3>1
    <3>3. q[i].id = all[i].id
      BY <1>7, <3>2
    <3>. QED  BY <2>4, <3>2, <3>3
  <2>. QED  BY <2>1, <2>2, <2>3, <2>5
<1>15. cleared \subseteq cleared' /\ cleared' \subseteq 1..sent
  <2>1. cleared \subseteq 1..sent /\ UNION snaps \subseteq 1..sent
    BY DEF Inv, ControlTypes
  <2> HIDE DEF lost
  <2>. QED  BY <1>1, <1>11, <2>1
<1>16. snaps' \subseteq snaps
  BY <1>2
<1> HIDE DEF disk, lost
<1>. QED  BY <1>2, <1>9, <1>12, <1>13, <1>14, <1>15, <1>16, ForgetKeeps

LEMMA ShutdownKeeps ==
    ASSUME Inv, Shutdown
    PROVE  Inv'
<1> DEFINE disk == store.heap[store.cached]
<1>1. /\ store.cached # None /\ Forget(disk)
      /\ snaps' = snaps /\ archived' = archived /\ sent' = sent /\ cleared' = cleared
      /\ fence' = fence /\ crossed' = crossed /\ crashes' = crashes
  BY DEF Shutdown
<1>2. store \in Worlds(Current, crossed, Crashed)
  BY DEF Inv, Sound
<1>3. store.cached \in Obj /\ store.cached \in Refs /\ crossed \in BOOLEAN /\ Crashed \in BOOLEAN
  BY <1>1, <1>2, WorldIs, Numbers DEF Refs, Crashed
<1>4. disk \in Filed(Current, crossed, Crashed)
  BY <1>2, <1>3, WorldIs, AliveGrows
<1>5. ~crossed => Missing \subseteq Behind(disk)
  BY <1>3 DEF Inv, Covered
<1> HIDE DEF disk
<1>6. Current' = Current /\ Crashed' = Crashed /\ Missing' = Missing
  BY <1>1 DEF Current, Crashed, Missing
<1>7. crashes' \in crashes..MaxCrashes /\ cleared' \subseteq 1..sent
  BY <1>1, ConsolidationAssumption DEF Inv, ControlTypes
<1>. QED  BY <1>1, <1>4, <1>5, <1>6, <1>7, ForgetKeeps

-----------------------------------------------------------------------------
(* The steps of the consolidator.                                          *)

Summed(s, n) == [s EXCEPT !.sum = n]

\* _persist_last_summary changes the summary of the object and nothing else.
LEMMA SummaryKept ==
    ASSUME Inv, NEW w \in Worlds(Current, crossed, Crashed), NEW o \in Obj,
           NEW n \in Current \cup {0}
    PROVE  LET v == Write(w, o, Summed(w.heap[o], n))
           IN  /\ v \in Worlds(Current, crossed, Crashed) /\ v.cached = o
               /\ \A x \in Obj : Behind(w.heap[x]) \subseteq Behind(v.heap[x])
               /\ Behind(w.heap[o]) \subseteq Behind(v.disk)
<1> DEFINE A == Current
           c == crossed
           k == Crashed
           s == w.heap[o]
           p == Summed(s, n)
           u == Write(w, o, p)
<1>1. /\ w \in Worlds(A, c, k) /\ c \in BOOLEAN /\ k \in BOOLEAN
      /\ n \in A \cup {0} /\ n \in Nat
  BY Numbers DEF Current, Crashed
<1> HIDE DEF A, c, k
<1>2. s \in Alive(A, c)
  BY <1>1, WorldIs
<1>3. /\ s \in Session /\ Ids(s.msgs) \subseteq A /\ (c \/ s.lc <= Len(s.msgs))
  BY <1>1, <1>2, AliveIs
<1>4. p \in Session /\ p.msgs = s.msgs /\ p.lc = s.lc /\ p.sum = n
  BY <1>1, <1>3 DEF Session, Summed
<1>5. Behind(p) = Behind(s)
  BY <1>4 DEF Behind, Tail_
<1> HIDE DEF p
<1>6. p \in Alive(A, c)
  BY <1>1, <1>3, <1>4, AliveIs
<1>7. /\ u \in Worlds(A, c, k) /\ u.cached = o /\ u.disk = p /\ u.heap[o] = p
      /\ \A x \in Obj : x # o => u.heap[x] = w.heap[x]
  BY <1>1, <1>6, WriteMade
<1> HIDE DEF u
<1>8. /\ u \in Worlds(A, c, k) /\ u.cached = o
      /\ \A x \in Obj : Behind(w.heap[x]) \subseteq Behind(u.heap[x])
      /\ Behind(w.heap[o]) \subseteq Behind(u.disk)
  BY <1>5, <1>7
<1>. QED  BY <1>8 DEF A, c, k, u, p

\* What the holder of the lock awaits next.
Awaits(k, s, o) ==
    /\ k \in JobType
    /\ k.sum \in Current \cup {0}
    /\ k.pc # "none" =>
         /\ k.pc \in {"overflow", "round"} /\ k.obj = o
         /\ k.chunk \subseteq Current /\ k.all = {} /\ k.keep = <<>>
         /\ Fits(k, s)

LEMMA ContinueKeeps ==
    ASSUME Inv, NEW w \in Worlds(Current, crossed, Crashed), NEW o \in Obj, w.cached = o,
           NEW k, Awaits(k, w.heap[o], o), Continue(w, o, k),
           queue # <<>>, Head(queue) \in {"turn", "background"},
           UNCHANGED <<hot, snaps, cleared, fence, crossed, crashes>>,
           archived' \subseteq 1..sent,
           NEW left, left = (1..sent) \ (archived' \cup cleared),
           ~crossed => /\ left \subseteq Behind(w.disk)
                       /\ left \subseteq Behind(w.heap[o])
                       /\ turn.obj # None => left \subseteq Behind(w.heap[turn.obj])
    PROVE  Inv'
<1> DEFINE v == IF k.sum > 0 THEN Write(w, o, [w.heap[o] EXCEPT !.sum = k.sum]) ELSE w
<1>1. /\ hot' = hot /\ snaps' = snaps /\ cleared' = cleared /\ fence' = fence
      /\ crossed' = crossed /\ crashes' = crashes
  OBVIOUS
<1>2. Current \subseteq Nat /\ crossed \in BOOLEAN /\ Crashed \in BOOLEAN /\ Crashed' = Crashed
  BY <1>1, Numbers DEF Current, Crashed
<1>3. /\ v \in Worlds(Current, crossed, Crashed) /\ v.cached = o
      /\ \A x \in Obj : Behind(w.heap[x]) \subseteq Behind(v.heap[x])
      /\ Behind(w.disk) \cap Behind(w.heap[o]) \subseteq Behind(v.disk)
  <2>1. k.sum \in Current \cup {0}
    BY DEF Awaits
  <2>2. CASE k.sum > 0
    <3> DEFINE n == k.sum
               u == Write(w, o, Summed(w.heap[o], n))
    <3>1. n \in Current \cup {0}
      BY <2>1
    <3>2. v = u
      BY <2>2 DEF Summed
    <3> HIDE DEF n, v
    <3>3. /\ u \in Worlds(Current, crossed, Crashed) /\ u.cached = o
          /\ \A x \in Obj : Behind(w.heap[x]) \subseteq Behind(u.heap[x])
          /\ Behind(w.heap[o]) \subseteq Behind(u.disk)
      BY <3>1, SummaryKept
    <3> HIDE DEF u
    <3>. QED  BY <3>2, <3>3
  <2>3. CASE ~(k.sum > 0)
    <3>1. v = w
      BY <2>3
    <3> HIDE DEF v
    <3>. QED  BY <3>1
  <2>. QED  BY <2>2, <2>3
<1>4. /\ ~crossed => /\ left \subseteq Behind(v.disk)
                     /\ left \subseteq Behind(v.heap[o])
                     /\ turn.obj # None => left \subseteq Behind(v.heap[turn.obj])
  <2> HIDE DEF v
  <2>. QED  BY <1>3, Numbers
<1>5. /\ Ordered(queue) /\ Ordered(Tail(queue))
      /\ \A y : In(y, Tail(queue)) <=> In(y, queue) /\ y # Head(queue)
      /\ In(Head(queue), queue)
      /\ Head(queue) = "turn" => ~In("background", queue)
      /\ (turn.pc = "build") <=> In("turn", queue)
      /\ turn.pc = "run" => ~In("background", queue)
  <2>1. LockOrder
    BY DEF Inv
  <2>2. Ordered(queue)
    BY <2>1 DEF LockOrder
  <2>. QED  BY <2>1, <2>2, TailOrdered DEF LockOrder
<1>6. ControlTypes /\ Steady /\ sent \in Nat /\ MaxMessages \in Nat
  BY Numbers DEF Inv
<1>7. snaps' \subseteq SUBSET (1..sent) /\ cleared' \subseteq 1..sent
  BY <1>1, <1>6 DEF ControlTypes
<1>8. /\ job' = IF k.pc = "none" THEN NoJob ELSE k
      /\ queue' = IF k.pc = "none" THEN Tail(queue) ELSE queue
      /\ ~(k.pc = "none" /\ Head(queue) = "turn") => turn' = turn /\ sent' = sent
  BY DEF Continue
<1>9. NoJob \in JobType /\ NoJob.pc = "none" /\ NoJob.obj = None
  BY EmptySeq, ConsolidationAssumption DEF NoJob, JobType
<1>10. turn.obj \in Obj \cup {None} /\ hot \in Current \cup {0}
  BY Numbers DEF Inv, Sound
<1>11. CASE k.pc # "none"
  <2>1. /\ job' = k /\ queue' = queue /\ turn' = turn /\ sent' = sent /\ Settle(w)
    BY <1>11 DEF Continue
  <2>2. /\ k.pc \in {"overflow", "round"} /\ k.obj = o /\ k \in JobType
        /\ k.chunk \subseteq Current /\ k.all = {} /\ k.keep = <<>> /\ k.sum \in Current \cup {0}
        /\ Fits(k, w.heap[o])
    BY <1>11 DEF Awaits
  <2>3. Current' = Current /\ Missing' = left
    BY <1>1, <2>1 DEF Current, Missing
  <2>4. store' \in Worlds(Current', crossed', Crashed') /\ Covered'
    <3>1. w \in Worlds(Current', crossed', Crashed') /\ crossed' \in BOOLEAN /\ Crashed' \in BOOLEAN
      BY <1>1, <1>2, <2>3
    <3>2. turn'.obj \in Obj \cup {None} /\ job'.obj \in Obj \cup {None}
      BY <1>10, <2>1, <2>2
    <3>3. ~crossed' =>
            /\ Missing' \subseteq Behind(w.disk)
            /\ w.cached # None => Missing' \subseteq Behind(w.heap[w.cached])
            /\ turn'.obj # None => Missing' \subseteq Behind(w.heap[turn'.obj])
            /\ job'.pc = "none" => job'.obj = None
            /\ job'.pc # "none" => job'.obj \in Obj /\ job'.obj = w.cached /\ Fits(job', w.heap[w.cached])
      BY <1>1, <2>1, <2>2, <2>3
    <3>. QED  BY <2>1, <3>1, <3>2, <3>3, StepSettles
  <2>5. Sound'
    <3>1. Ids(<<>>) = {}
      BY EmptySeq DEF Ids
    <3>. QED  BY <1>1, <1>10, <2>1, <2>2, <2>3, <2>4, <3>1 DEF Sound
  <2>6. LockOrder'
    <3>1. LockOrder
      BY DEF Inv
    <3>. QED  BY <2>1, <2>2, <3>1 DEF LockOrder, Awaiting
  <2>7. ControlTypes' /\ Steady'
    BY <1>1, <1>6, <1>7, <2>1, <2>2 DEF ControlTypes, Steady
  <2>. QED  BY <2>4, <2>5, <2>6, <2>7 DEF Inv
<1>12. CASE k.pc = "none" /\ Head(queue) # "turn"
  <2>1. /\ job' = NoJob /\ queue' = Tail(queue) /\ turn' = turn /\ sent' = sent
        /\ Head(queue) = "background"
    BY <1>8, <1>12
  <2>2. Settle(v)
    BY <1>12 DEF Continue
  <2>3. Current' = Current /\ Missing' = left
    BY <1>1, <2>1 DEF Current, Missing
  <2> HIDE DEF v
  <2>4. store' \in Worlds(Current', crossed', Crashed') /\ Covered'
    <3>1. v \in Worlds(Current', crossed', Crashed') /\ crossed' \in BOOLEAN /\ Crashed' \in BOOLEAN
      BY <1>1, <1>2, <1>3, <2>3
    <3>2. turn'.obj \in Obj \cup {None} /\ job'.obj = None /\ job'.pc = "none"
      BY <1>9, <1>10, <2>1
    <3>3. ~crossed' =>
            /\ Missing' \subseteq Behind(v.disk)
            /\ v.cached # None => Missing' \subseteq Behind(v.heap[v.cached])
            /\ turn'.obj # None => Missing' \subseteq Behind(v.heap[turn'.obj])
      BY <1>1, <1>3, <1>4, <2>1, <2>3
    <3>. QED  BY <2>2, <3>1, <3>2, <3>3, StepSettles
  <2>5. Sound'
    <3>1. hot' \in Current' \cup {0}
      BY <1>1, <1>10, <2>3
    <3>. QED  BY <2>1, <2>4, <3>1, NoJobLeft DEF Sound
  <2>6. LockOrder'
    <3>1. turn'.pc = turn.pc /\ ~Awaiting'
      BY <1>9, <2>1 DEF Awaiting
    <3>2. /\ (turn'.pc = "build") <=> In("turn", queue')
          /\ turn'.pc = "run" => ~In("background", queue')
      BY <1>5, <2>1
    <3>3. Ordered(queue')
      BY <1>5, <2>1
    <3>. QED  BY <3>1, <3>2, <3>3 DEF LockOrder
  <2>7. ControlTypes' /\ Steady'
    BY <1>1, <1>6, <1>7, <1>9, <2>1 DEF ControlTypes, Steady
  <2>. QED  BY <2>4, <2>5, <2>6, <2>7 DEF Inv
<1>13. CASE k.pc = "none" /\ Head(queue) = "turn"
  <2> DEFINE prompt == Ids(Replayed(v.heap[turn.obj]))
             t == turn.obj
             s == v.heap[t]
             p == Plus(s, "user", sent + 1)
  <2>1. /\ job' = NoJob /\ queue' = Tail(queue) /\ sent' = sent + 1
        /\ turn' = [turn EXCEPT !.pc = "run", !.prompt = prompt]
        /\ Settle(Write(v, t, p))
    BY <1>13 DEF Continue, BuildRest
  <2>2. turn.pc = "build" /\ t \in Obj
    BY <1>5, <1>13, Numbers
  <2> HIDE DEF v
  <2>3. s \in Alive(Current, crossed) /\ s \in Session
    BY <1>2, <1>3, <2>2, WorldIs, WorldSessions
  <2>4. prompt \subseteq 1..MaxMessages
    <3> HIDE DEF s
    <3>1. Ids(Replayed(s)) \subseteq 1..MaxMessages
      BY <2>3, ReplayedIds
    <3>. QED  BY <3>1 DEF s
  <2> HIDE DEF prompt
  <2>5. /\ sent + 1 \in 1..MaxMessages /\ sent' \in sent..MaxMessages
        /\ sent' \in 0..MaxMessages /\ sent' + 1 <= MaxMessages
    <3>1. sent + 2 <= MaxMessages
      BY <1>6, <2>2 DEF Steady, Reserved
    <3>. QED  BY <1>6, <2>1, <3>1
  <2>6. /\ turn \in [pc : {"idle", "build", "run"}, obj : Obj \cup {None},
                     direct : BOOLEAN, at : 0..sent, prompt : SUBSET (1..MaxMessages)]
    BY <1>6 DEF ControlTypes
  <2>7. /\ turn'.pc = "run" /\ turn'.obj = t /\ turn'.prompt = prompt
        /\ turn'.direct = turn.direct /\ turn'.at = turn.at
        /\ turn' \in [pc : {"idle", "build", "run"}, obj : Obj \cup {None},
                      direct : BOOLEAN, at : 0..sent', prompt : SUBSET (1..MaxMessages)]
    <3>1. turn.at \in 0..sent'
      BY <1>6, <2>1, <2>6
    <3>. QED  BY <2>1, <2>4, <2>6, <3>1
  <2>8. /\ Current \subseteq Current' /\ sent + 1 \in Current'
        /\ Current \cup {0} \subseteq Current' \cup {0}
    <3>1. sent + 1 \in (sent + 1)..sent'
      BY <1>6, <2>1
    <3>. QED  BY <1>1, <1>2, <2>5, <3>1, CurrentGrows
  <2>9. v \in Worlds(Current', crossed', Crashed') /\ crossed' \in BOOLEAN /\ Crashed' \in BOOLEAN
    <3>1. v \in Worlds(Current', crossed, Crashed)
      BY <1>2, <1>3, <2>8, WorldsGrow
    <3>. QED  BY <1>1, <1>2, <3>1
  <2>10. p \in Alive(Current', crossed') /\ "user" \in Kind
    <3>1. s \in Alive(Current', crossed')
      BY <2>2, <2>9, WorldIs
    <3> HIDE DEF s
    <3>. QED  BY <2>5, <2>8, <2>9, <3>1, PlusAlive DEF Kind
  <2>11. ASSUME ~crossed' PROVE Missing' \subseteq Behind(p)
    <3>1. left \subseteq Behind(s)
      <4>1. turn.obj # None /\ ~crossed
        <5>1. turn.obj \in Obj
          BY <2>2
        <5>2. turn.obj # None
          BY <5>1, ConsolidationAssumption
        <5>3. ~crossed
          BY <1>1, <2>11
        <5>. QED  BY <5>2, <5>3
      <4>2. left \subseteq Behind(v.heap[turn.obj])
        BY <1>4, <4>1
      <4>. QED  BY <4>2
    <3>2. Missing' \subseteq left \cup {sent + 1}
      BY <1>1, <1>6, <2>1 DEF Missing
    <3>3. s.lc <= Len(s.msgs)
      BY <1>1, <1>2, <2>3, <2>11, AliveIs
    <3>4. Missing' \subseteq Behind(s) \cup {sent + 1}
      BY <3>1, <3>2
    <3> HIDE DEF s
    <3>. QED  BY <2>3, <2>5, <2>10, <3>3, <3>4, PlusCovers
  <2> HIDE DEF p, s
  <2>12. store' \in Worlds(Current', crossed', Crashed') /\ Covered'
    <3>1. turn'.obj \in Obj \cup {None} /\ job'.obj \in Obj \cup {None}
      BY <1>9, <2>1, <2>2, <2>7
    <3>2. job'.pc = "none" /\ job'.obj = None
      BY <1>9, <2>1
    <3> HIDE DEF t
    <3>. QED  BY <2>1, <2>2, <2>7, <2>9, <2>10, <2>11, <3>1, <3>2, WriteSettles
  <2>13. Sound'
    <3>1. hot' \in Current' \cup {0}
      BY <1>1, <1>10, <2>8
    <3>. QED  BY <2>1, <2>12, <3>1, NoJobLeft DEF Sound
  <2>14. LockOrder'
    <3>1. ~Awaiting'
      BY <1>9, <2>1 DEF Awaiting
    <3>2. ~In("turn", queue') /\ ~In("background", queue')
      BY <1>5, <1>13, <2>1
    <3>3. Ordered(queue')
      BY <1>5, <2>1
    <3>. QED  BY <2>7, <3>1, <3>2, <3>3 DEF LockOrder
  <2>15. ControlTypes' /\ Steady'
    <3>1. snaps' \subseteq SUBSET (1..sent') /\ cleared' \subseteq 1..sent' /\ archived' \subseteq 1..sent'
      BY <1>6, <1>7, <2>1
    <3>2. fence' \in 0..sent'
      BY <1>1, <1>6, <2>1 DEF ControlTypes
    <3>3. crossed' \in BOOLEAN /\ crashes' \in 0..MaxCrashes /\ job' \in JobType
      BY <1>1, <1>6, <1>9, <2>1 DEF ControlTypes
    <3>4. job' = NoJob /\ turn'.obj \in Obj /\ sent' + Reserved(turn'.pc) <= MaxMessages
      BY <2>1, <2>2, <2>5, <2>7 DEF Reserved
    <3>. QED  BY <1>9, <2>5, <2>7, <3>1, <3>2, <3>3, <3>4 DEF ControlTypes, Steady
  <2>. QED  BY <2>12, <2>13, <2>14, <2>15 DEF Inv
<1>. QED  BY <1>11, <1>12, <1>13

LEMMA ArchiveAwaits ==
    ASSUME Inv, NEW s \in Session, Ids(s.msgs) \subseteq Current, NEW o \in Obj,
           NEW e \in Nat, e <= Len(s.msgs), NEW pc \in {"overflow", "round"},
           NEW r \in 0..MaxRounds, NEW last \in Current \cup {0}
    PROVE  Awaits(Archiving(pc, s, o, e, r, last), s, o)
<1> DEFINE k == Archiving(pc, s, o, e, r, last)
           q == s.msgs
           m == s.lc + 1
           chunk == Ids(SubSeq(q, m, e))
<1>1. q \in Seq(Message) /\ m \in Nat /\ m >= 1 /\ Len(q) \in Nat /\ e <= Len(q)
  BY SessionFields
<1>2. Current \subseteq 1..MaxMessages /\ Current \cup {0} \subseteq Nat
  BY Numbers DEF Current
<1>3. chunk \subseteq Current
  <2>1. Ids(q) \subseteq Current
    OBVIOUS
  <2> HIDE DEF q, m
  <2>2. chunk = {q[i].id : i \in m..e}
    BY <1>1, Part
  <2>3. m..e \subseteq 1..Len(q)
    BY <1>1
  <2>. QED  BY <2>1, <2>2, <2>3 DEF Ids
<1>5. k = [pc |-> pc, obj |-> o, end |-> e, chunk |-> chunk,
           all |-> {}, keep |-> <<>>, sum |-> last, round |-> r]
  BY DEF Archiving
<1> HIDE DEF k
<1>4. /\ k.pc = pc /\ k.obj = o /\ k.end = e /\ k.chunk = chunk /\ k.all = {}
      /\ k.keep = <<>> /\ k.sum = last
  BY <1>5
<1>6. Fits(k, s)
  BY <1>4 DEF Fits
<1> HIDE DEF chunk
<1>7. k \in JobType
  <2> DEFINE keep == <<>>
             all == {}
  <2>1. /\ last \in Nat /\ chunk \in SUBSET (1..MaxMessages) /\ keep \in Seq(Message)
        /\ all \in SUBSET (1..MaxMessages) /\ o \in Obj \cup {None}
        /\ pc \in {"none", "overflow", "round", "compact"}
    BY <1>2, <1>3, EmptySeq
  <2>2. k = [pc |-> pc, obj |-> o, end |-> e, chunk |-> chunk,
             all |-> all, keep |-> keep, sum |-> last, round |-> r]
    BY <1>5
  <2> HIDE DEF keep, all
  <2>. QED  BY <2>1, <2>2 DEF JobType
<1>8. Awaits(k, s, o)
  BY <1>3, <1>4, <1>6, <1>7 DEF Awaits
<1>. QED  BY <1>8 DEF k

LEMMA DoneAwaits ==
    ASSUME Inv, NEW s, NEW o, NEW last \in Current \cup {0}
    PROVE  Awaits([NoJob EXCEPT !.sum = last], s, o)
<1>1. last \in Nat
  BY Numbers DEF Current
<1> DEFINE k == [NoJob EXCEPT !.sum = last]
<1>2. NoJob.pc = "none" /\ NoJob \in JobType
  BY EmptySeq, ConsolidationAssumption DEF NoJob, JobType
<1>3. k \in JobType /\ k.sum = last /\ k.pc = "none"
  BY <1>1, <1>2 DEF JobType
<1> HIDE DEF k
<1>4. Awaits(k, s, o)
  BY <1>3 DEF Awaits
<1>. QED  BY <1>4 DEF k

LEMMA RoundAwaits ==
    ASSUME Inv, NEW s \in Session, Ids(s.msgs) \subseteq Current, NEW o \in Obj,
           NEW r \in 0..MaxRounds, NEW last \in Current \cup {0},
           NEW k \in NextRounds(s, o, r, last)
    PROVE  Awaits(k, s, o)
<1>1. CASE k = [NoJob EXCEPT !.sum = last]
  BY <1>1, DoneAwaits
<1>2. CASE k # [NoJob EXCEPT !.sum = last]
  <2>1. PICK e \in Boundaries(s) : r < MaxRounds /\ k = Archiving("round", s, o, e, r + 1, last)
    BY <1>2 DEF NextRounds
  <2>2. e \in Nat /\ e <= Len(s.msgs)
    <3>1. s.lc \in Nat /\ Len(s.msgs) \in Nat
      BY SessionFields
    <3>2. e \in Users(s, s.lc)
      BY DEF Boundaries
    <3>3. e \in Nat /\ e < Len(s.msgs)
      BY <3>1, <3>2, UsersAre
    <3>. QED  BY <3>1, <3>3
  <2> DEFINE n == r + 1
             pc == "round"
  <2>3. n \in 0..MaxRounds /\ pc \in {"overflow", "round"}
    <3>1. MaxRounds \in Nat
      BY ConsolidationAssumption
    <3>. QED  BY <2>1, <3>1
  <2>4. k = Archiving(pc, s, o, e, n, last)
    BY <2>1
  <2> HIDE DEF n, pc
  <2>5. Awaits(Archiving(pc, s, o, e, n, last), s, o)
    BY <2>2, <2>3, ArchiveAwaits
  <2>. QED  BY <2>4, <2>5
<1>. QED  BY <1>1, <1>2

LEMMA FirstAwaits ==
    ASSUME Inv, NEW s \in Session, Ids(s.msgs) \subseteq Current, NEW o \in Obj,
           NEW k \in FirstJobs(s, o)
    PROVE  Awaits(k, s, o)
<1>1. 0 \in 0..MaxRounds /\ 0 \in Current \cup {0}
  BY ConsolidationAssumption
<1>2. CASE k \in NextRounds(s, o, 0, 0)
  <2> DEFINE z == 0
  <2>1. z \in 0..MaxRounds /\ z \in Current \cup {0} /\ k \in NextRounds(s, o, z, z)
    BY <1>1, <1>2
  <2> HIDE DEF z
  <2>. QED  BY <2>1, RoundAwaits
<1>3. CASE k = NoJob
  <2>1. NoJob.pc = "none" /\ NoJob.sum = 0 /\ NoJob \in JobType
    BY EmptySeq, ConsolidationAssumption DEF NoJob, JobType
  <2>. QED  BY <1>3, <2>1 DEF Awaits
<1>4. CASE OverflowEnd(s) > s.lc /\ k = Archiving("overflow", s, o, OverflowEnd(s), 0, 0)
  <2> DEFINE e == OverflowEnd(s)
             pc == "overflow"
             z == 0
  <2>1. e \in Nat /\ e <= Len(s.msgs)
    BY <1>4, OverflowInSession
  <2>2. z \in 0..MaxRounds /\ z \in Current \cup {0} /\ pc \in {"overflow", "round"}
    BY <1>1
  <2>3. k = Archiving(pc, s, o, e, z, z)
    BY <1>4
  <2> HIDE DEF e, pc, z
  <2>4. Awaits(Archiving(pc, s, o, e, z, z), s, o)
    BY <2>1, <2>2, ArchiveAwaits
  <2>. QED  BY <2>3, <2>4
<1>. QED  BY <1>2, <1>3, <1>4 DEF FirstJobs

LEMMA ConsolidateKeeps ==
    ASSUME Inv, Consolidate
    PROVE  Inv'
<1> DEFINE w == Fetch(store)
           o == w.cached
           s == w.heap[o]
           left == (1..sent) \ (archived' \cup cleared)
<1>1. /\ queue # <<>> /\ Head(queue) \in {"turn", "background"}
      /\ UNCHANGED <<hot, snaps, cleared, fence, crossed, crashes>>
      /\ archived' = archived
  BY DEF Consolidate
<1>2. PICK k \in FirstJobs(s, o) : Continue(w, o, k)
  BY DEF Consolidate
<1>3. /\ w \in Worlds(Current, crossed, Crashed) /\ o \in Obj /\ w.disk = store.disk
      /\ ~crossed =>
           /\ Missing \subseteq Behind(w.disk)
           /\ Missing \subseteq Behind(s)
           /\ turn.obj # None => Missing \subseteq Behind(w.heap[turn.obj])
  BY FetchSound
<1> HIDE DEF w
<1>4. s \in Session /\ Ids(s.msgs) \subseteq Current
  <2>1. s \in Alive(Current, crossed)
    BY <1>3, WorldIs
  <2>. QED  BY <2>1, AliveIs, Numbers
<1>5. Awaits(k, s, o)
  <2> HIDE DEF s, o
  <2>. QED  BY <1>3, <1>4, <1>2, FirstAwaits
<1>6. archived' \subseteq 1..sent /\ left = Missing
  BY <1>1 DEF Inv, ControlTypes, Missing
<1>7. left = (1..sent) \ (archived' \cup cleared)
  OBVIOUS
<1>8. w.cached = o /\ Awaits(k, w.heap[o], o)
  BY <1>5
<1>9. ~crossed => /\ left \subseteq Behind(w.disk)
                  /\ left \subseteq Behind(w.heap[o])
                  /\ turn.obj # None => left \subseteq Behind(w.heap[turn.obj])
  <2> HIDE DEF left, o
  <2>. QED  BY <1>3, <1>6 DEF o
<1> HIDE DEF left, o, s
<1>. QED  BY <1>1, <1>2, <1>3, <1>6, <1>7, <1>8, <1>9, ContinueKeeps

\* The cursor moves past what has been archived.
LEMMA CursorMoves ==
    ASSUME NEW h \in Session, NEW e \in Nat
    PROVE  LET s == [h EXCEPT !.lc = e]
           IN  /\ s \in Session /\ s.msgs = h.msgs /\ s.lc = e /\ s.sum = h.sum
               /\ e <= Len(h.msgs) =>
                    Behind(h) \subseteq Ids(SubSeq(h.msgs, h.lc + 1, e)) \cup Behind(s)
<1> DEFINE s == [h EXCEPT !.lc = e]
           q == h.msgs
           m == h.lc + 1
<1>1. /\ q \in Seq(Message) /\ h.lc \in Nat /\ h.sum \in Nat /\ Len(q) \in Nat
      /\ m \in Nat /\ m >= 1
  BY SessionFields
<1>2. s \in Session /\ s.msgs = q /\ s.lc = e /\ s.sum = h.sum
  BY <1>1 DEF Session
<1>3. Behind(h) = {q[i].id : i \in m..Len(q)}
  BY BehindIds
<1> HIDE DEF s
<1>4. Behind(s) = {q[i].id : i \in (e + 1)..Len(q)}
  <2>1. Behind(s) = {s.msgs[i].id : i \in (s.lc + 1)..Len(s.msgs)}
    BY <1>2, BehindIds
  <2>. QED  BY <1>2, <2>1
<1> HIDE DEF q, m
<1>5. ASSUME e <= Len(q) PROVE Behind(h) \subseteq Ids(SubSeq(q, m, e)) \cup Behind(s)
  <2>1. Ids(SubSeq(q, m, e)) = {q[i].id : i \in m..e}
    BY <1>1, <1>5, Part
  <2>2. \A i \in m..Len(q) : i \in m..e \/ i \in (e + 1)..Len(q)
    BY <1>1
  <2>. QED  BY <1>3, <1>4, <2>1, <2>2
<1>. QED  BY <1>2, <1>5 DEF s, q, m

LEMMA ArchivedKeeps ==
    ASSUME Inv, NEW outcome \in Outcome, Archived(outcome)
    PROVE  Inv'
<1> DEFINE o == job.obj
           h == store.heap[o]
           s == [h EXCEPT !.lc = job.end]
           w == Write(store, o, s)
           last == CASE outcome = "summary" -> Top(job.chunk)
                     [] outcome = "nothing" -> 0
                     [] outcome = "failed" -> IF job.pc = "round" THEN job.sum ELSE 0
           left == (1..sent) \ (archived' \cup cleared)
<1>1. /\ job.pc \in {"overflow", "round"}
      /\ archived' = archived \cup job.chunk
      /\ UNCHANGED <<hot, snaps, cleared, fence, crossed, crashes>>
  BY DEF Archived
<1>2. PICK k : /\ \/ k = [NoJob EXCEPT !.sum = last]
                  \/ k \in NextRounds(s, o, job.round, last)
               /\ Continue(w, o, k)
  BY DEF Archived
<1>3. /\ ControlTypes /\ Sound /\ LockOrder /\ Covered
      /\ o \in Obj /\ crossed \in BOOLEAN /\ Crashed \in BOOLEAN /\ job \in JobType
  BY <1>1, Numbers DEF Inv, ControlTypes, Crashed
<1>4. job.end \in Nat /\ job.round \in 0..MaxRounds
  BY <1>3 DEF JobType
<1>5. /\ store \in Worlds(Current, crossed, Crashed)
      /\ job.chunk \subseteq Current /\ job.sum \in Current \cup {0}
      /\ Current \subseteq 1..sent /\ sent \in Nat
  BY <1>3, Numbers DEF Sound, Current
<1>6. queue # <<>> /\ Head(queue) \in {"turn", "background"}
  <2>1. queue # <<>> /\ Head(queue) # "idle" /\ Ordered(queue)
    BY <1>1, <1>3 DEF LockOrder, Awaiting
  <2>2. Head(queue) \in Holder
    BY <2>1, TailOrdered
  <2>. QED  BY <2>1, <2>2 DEF Holder
<1>7. /\ h \in Session /\ Ids(h.msgs) \subseteq Current /\ h.sum \in Current \cup {0}
  <2>1. h \in Alive(Current, crossed)
    BY <1>3, <1>5, WorldIs
  <2>. QED  BY <1>3, <2>1, AliveIs
<1>8. ASSUME ~crossed
      PROVE  /\ Missing \subseteq Behind(store.disk) /\ Missing \subseteq Behind(h)
             /\ turn.obj # None => Missing \subseteq Behind(store.heap[turn.obj])
             /\ job.end <= Len(h.msgs)
             /\ Ids(SubSeq(h.msgs, h.lc + 1, job.end)) \subseteq job.chunk
  <2>1. o \in Refs /\ (turn.obj # None => turn.obj \in Refs)
    BY <1>3, ConsolidationAssumption DEF Refs
  <2>2. Fits(job, h)
    BY <1>1, <1>3, <1>8 DEF Covered, Awaiting
  <2>3. job.end <= Len(h.msgs) /\ Ids(SubSeq(h.msgs, h.lc + 1, job.end)) \subseteq job.chunk
    BY <1>1, <2>2 DEF Fits
  <2> HIDE DEF h
  <2>. QED  BY <1>3, <1>8, <2>1, <2>3 DEF Covered, h
<1>9. /\ s \in Session /\ s.msgs = h.msgs /\ s.lc = job.end /\ s.sum = h.sum
      /\ job.end <= Len(h.msgs) =>
           Behind(h) \subseteq Ids(SubSeq(h.msgs, h.lc + 1, job.end)) \cup Behind(s)
  <2> DEFINE e == job.end
  <2>1. e \in Nat /\ h \in Session
    BY <1>4, <1>7
  <2> HIDE DEF e, h
  <2>2. /\ [h EXCEPT !.lc = e] \in Session /\ [h EXCEPT !.lc = e].msgs = h.msgs
        /\ [h EXCEPT !.lc = e].lc = e /\ [h EXCEPT !.lc = e].sum = h.sum
        /\ e <= Len(h.msgs) =>
             Behind(h) \subseteq Ids(SubSeq(h.msgs, h.lc + 1, e)) \cup Behind([h EXCEPT !.lc = e])
    BY <2>1, CursorMoves
  <2>. QED  BY <2>2 DEF e
<1>10. last \in Current \cup {0}
  <2>1. job.chunk \in SUBSET (0..sent)
    BY <1>5
  <2>2. Top(job.chunk) \in job.chunk \cup {0}
    BY <1>5, <2>1, TopIs
  <2>. QED  BY <1>5, <2>2 DEF Outcome
<1> HIDE DEF s, h, last, o
<1>11. s \in Alive(Current, crossed)
  <2>1. crossed \/ s.lc <= Len(s.msgs)
    BY <1>8, <1>9
  <2>. QED  BY <1>3, <1>7, <1>9, <2>1, AliveIs
<1>12. /\ w \in Worlds(Current, crossed, Crashed) /\ w.cached = o /\ w.disk = s /\ w.heap[o] = s
       /\ \A x \in Obj : x # o => w.heap[x] = store.heap[x]
  <2> DEFINE A == Current
             c == crossed
             b == Crashed
             v == store
             u == Write(v, o, s)
  <2>1. v \in Worlds(A, c, b) /\ s \in Alive(A, c) /\ c \in BOOLEAN /\ b \in BOOLEAN
    BY <1>3, <1>5, <1>11
  <2> HIDE DEF A, c, b, v
  <2>2. /\ u \in Worlds(A, c, b) /\ u.cached = o /\ u.disk = s /\ u.heap[o] = s
        /\ \A x \in Obj : x # o => u.heap[x] = v.heap[x]
    BY <1>3, <2>1, WriteMade
  <2>. QED  BY <2>2 DEF A, c, b, v
<1>13. Awaits(k, s, o)
  <2>1. CASE k = [NoJob EXCEPT !.sum = last]
    BY <1>10, <2>1, DoneAwaits
  <2>2. CASE k \in NextRounds(s, o, job.round, last)
    <3> DEFINE r == job.round
    <3>1. r \in 0..MaxRounds /\ k \in NextRounds(s, o, r, last)
      BY <1>4, <2>2
    <3>2. s \in Session /\ Ids(s.msgs) \subseteq Current
      BY <1>7, <1>9
    <3> HIDE DEF r
    <3>. QED  BY <1>3, <1>10, <3>1, <3>2, RoundAwaits
  <2>. QED  BY <1>2, <2>1, <2>2
<1>14. archived' \subseteq 1..sent
  BY <1>1, <1>3, <1>5 DEF ControlTypes
<1>15. left = (1..sent) \ (archived' \cup cleared) /\ left \subseteq Missing /\ left \cap job.chunk = {}
  BY <1>1 DEF Missing
<1> HIDE DEF left, w
<1>16. ASSUME ~crossed
       PROVE  /\ left \subseteq Behind(w.disk)
              /\ left \subseteq Behind(w.heap[o])
              /\ turn.obj # None => left \subseteq Behind(w.heap[turn.obj])
  <2>1. left \subseteq Behind(s)
    BY <1>8, <1>9, <1>15, <1>16
  <2>2. turn.obj # None => left \subseteq Behind(w.heap[turn.obj])
    <3>. HAVE turn.obj # None
    <3>1. CASE turn.obj = o
      BY <1>12, <2>1, <3>1
    <3>2. CASE turn.obj # o
      <4>1. turn.obj \in Obj
        BY Numbers
      <4>2. w.heap[turn.obj] = store.heap[turn.obj]
        BY <1>12, <3>2, <4>1
      <4>. QED  BY <1>8, <1>15, <1>16, <4>2
    <3>. QED  BY <3>1, <3>2
  <2>. QED  BY <1>12, <2>1, <2>2
<1>17. Awaits(k, w.heap[o], o) /\ Continue(w, o, k)
  BY <1>2, <1>12, <1>13 DEF w, s, h, o
<1>18. left = (1..sent) \ (archived' \cup cleared)
  BY <1>15
<1>. QED  BY <1>1, <1>3, <1>6, <1>12, <1>14, <1>16, <1>17, <1>18, ContinueKeeps

-----------------------------------------------------------------------------
(* Idle compaction.                                                        *)

LEMMA BehindAll ==
    ASSUME NEW s \in Session, s.lc = 0
    PROVE  Ids(s.msgs) \subseteq Behind(s) /\ Behind(s) \subseteq Ids(s.msgs)
<1>1. Behind(s) = {s.msgs[i].id : i \in (s.lc + 1)..Len(s.msgs)}
  BY BehindIds
<1>2. (s.lc + 1)..Len(s.msgs) = 1..Len(s.msgs)
  OBVIOUS
<1>. QED  BY <1>1, <1>2 DEF Ids

\* What compact_idle_session keeps of the session and what it removes.
LEMMA CutMade ==
    ASSUME NEW h \in Session
    PROVE  LET probe == Probe(h)
               cut == Retained(probe, IdleSuffix, TRUE)
               remove == Dropped(probe, IdleSuffix, TRUE)
           IN  /\ cut.msgs \in Seq(Message) /\ Ids(cut.msgs) \subseteq Ids(h.msgs)
               /\ Ids(probe.msgs) \subseteq Ids(h.msgs)
               /\ remove \subseteq Ids(probe.msgs)
               /\ Behind(h) \subseteq remove \cup Ids(cut.msgs)
<1> DEFINE probe == Probe(h)
           cut == Retained(probe, IdleSuffix, TRUE)
           remove == Dropped(probe, IdleSuffix, TRUE)
           t == Tail_(h)
<1>1. t \in Seq(Message) /\ Behind(h) = Ids(t) /\ Behind(h) \subseteq Ids(h.msgs)
  BY BehindIds DEF Behind
<1> HIDE DEF t
<1>2. probe \in Session /\ probe.msgs = t /\ probe.lc = 0
  BY <1>1 DEF Probe, Session, t
<1> HIDE DEF probe
<1>3. Ids(probe.msgs) \subseteq Behind(probe) /\ Behind(probe) \subseteq Ids(probe.msgs)
  BY <1>2, BehindAll
<1>4. /\ cut \in Session /\ Ids(cut.msgs) \subseteq Ids(probe.msgs)
      /\ remove \subseteq Behind(probe)
      /\ Behind(probe) \subseteq remove \cup Behind(cut)
  <2> DEFINE n == IdleSuffix
             e == TRUE
  <2>1. n \in Nat \ {0} /\ e \in BOOLEAN
    BY ConsolidationAssumption
  <2> HIDE DEF n, e
  <2> DEFINE r == Retained(probe, n, e)
             d == Dropped(probe, n, e)
  <2>2. /\ r \in Session /\ Ids(r.msgs) \subseteq Ids(probe.msgs)
        /\ d \subseteq Behind(probe)
        /\ Behind(probe) \subseteq d \cup Behind(r)
    BY <1>2, <2>1, RetainedMade
  <2>. QED  BY <2>2 DEF n, e
<1> HIDE DEF cut, remove
<1>5. cut.msgs \in Seq(Message) /\ Behind(cut) \subseteq Ids(cut.msgs)
  BY <1>4, SessionFields, BehindIds
<1>6. /\ cut.msgs \in Seq(Message) /\ Ids(cut.msgs) \subseteq Ids(h.msgs)
      /\ Ids(probe.msgs) \subseteq Ids(h.msgs)
      /\ remove \subseteq Ids(probe.msgs)
      /\ Behind(h) \subseteq remove \cup Ids(cut.msgs)
  BY <1>1, <1>2, <1>3, <1>4, <1>5
<1>. QED  BY <1>6 DEF probe, cut, remove

\* The messages after the cursor become all there is.
LEMMA ReplacedMade ==
    ASSUME NEW h \in Session, NEW keep \in Seq(Message), NEW n \in Nat
    PROVE  LET s == [h EXCEPT !.msgs = keep, !.lc = 0, !.sum = n]
           IN  /\ s \in Session /\ s.msgs = keep /\ s.lc = 0 /\ s.sum = n
               /\ s.lc <= Len(s.msgs) /\ Ids(keep) \subseteq Behind(s)
<1> DEFINE s == [h EXCEPT !.msgs = keep, !.lc = 0, !.sum = n]
<1>1. s \in Session /\ s.msgs = keep /\ s.lc = 0 /\ s.sum = n
  BY SessionFields DEF Session
<1> HIDE DEF s
<1>2. Ids(s.msgs) \subseteq Behind(s) /\ s.lc <= Len(s.msgs)
  BY <1>1, BehindAll, SessionFields
<1>3. /\ s \in Session /\ s.msgs = keep /\ s.lc = 0 /\ s.sum = n
      /\ s.lc <= Len(s.msgs) /\ Ids(keep) \subseteq Behind(s)
  BY <1>1, <1>2
<1>. QED  BY <1>3 DEF s

\* get_or_create after invalidate: a new object with what the file holds.
LEMMA RefetchSound ==
    ASSUME Inv, job.pc = "none"
    PROVE  LET w == Fetch(Invalidate(store))
           IN  /\ w \in Worlds(Current, crossed, Crashed)
               /\ w.cached \in Obj /\ w.cached \notin Refs /\ w.disk = store.disk
               /\ \A o \in Obj : o # w.cached => w.heap[o] = store.heap[o]
               /\ ~crossed =>
                    /\ Missing \subseteq Behind(w.disk)
                    /\ Missing \subseteq Behind(w.heap[w.cached])
                    /\ turn.obj # None => Missing \subseteq Behind(w.heap[turn.obj])
<1> DEFINE y == Invalidate(store)
           w == Fetch(y)
<1>1. /\ store \in Worlds(Current, crossed, Crashed)
      /\ crossed \in BOOLEAN /\ Crashed \in BOOLEAN
      /\ turn.obj \in Obj \cup {None} /\ job.obj = None
  BY Numbers DEF Inv, Sound, Crashed, Awaiting
<1>2. \E o \in Obj : o \notin Refs
  <2>1. store.cached \in Obj \cup {None}
    BY <1>1, WorldIs
  <2>2. \E o \in Obj : o # store.cached /\ o # turn.obj
    BY <1>1, <2>1, ConsolidationAssumption
  <2>. QED  BY <1>1, <2>2, ConsolidationAssumption DEF Refs
<1>3. /\ w \in Worlds(Current, crossed, Crashed) /\ w.cached \in Obj /\ w.disk = store.disk
      /\ w.cached \notin Refs /\ w.heap[w.cached] = Loaded(store.disk)
      /\ \A o \in Obj : o # w.cached => w.heap[o] = store.heap[o]
  <2> DEFINE A == Current
             c == crossed
             k == Crashed
             u == store
  <2>1. u \in Worlds(A, c, k) /\ c \in BOOLEAN /\ k \in BOOLEAN
    BY <1>1
  <2>2. y = Invalidate(u)
    OBVIOUS
  <2> HIDE DEF A, c, k, u, y
  <2>3. /\ y \in Worlds(A, c, k) /\ y.cached = None /\ y.disk = u.disk /\ y.heap = u.heap
    BY <2>1, <2>2, InvalidateMade
  <2>4. ASSUME NEW x \in Worlds(A, c, k), x.cached = None => \E o \in Obj : o \notin Refs,
               c \in BOOLEAN /\ k \in BOOLEAN
        PROVE  /\ Fetch(x) \in Worlds(A, c, k) /\ Fetch(x).cached \in Obj
               /\ Fetch(x).disk = x.disk
               /\ x.cached # None => Fetch(x) = x
               /\ x.cached = None =>
                    /\ Fetch(x).cached \notin Refs /\ Fetch(x).heap[Fetch(x).cached] = Loaded(x.disk)
                    /\ \A o \in Obj : o # Fetch(x).cached => Fetch(x).heap[o] = x.heap[o]
    BY <2>4, FetchMade
  <2>6. /\ w \in Worlds(A, c, k) /\ w.cached \in Obj /\ w.disk = y.disk
        /\ w.cached \notin Refs /\ w.heap[w.cached] = Loaded(y.disk)
        /\ \A o \in Obj : o # w.cached => w.heap[o] = y.heap[o]
    BY <1>2, <2>1, <2>3, <2>4
  <2> HIDE DEF w
  <2>5. /\ w \in Worlds(A, c, k) /\ w.cached \in Obj /\ w.disk = u.disk
        /\ w.cached \notin Refs /\ w.heap[w.cached] = Loaded(u.disk)
        /\ \A o \in Obj : o # w.cached => w.heap[o] = u.heap[o]
    BY <2>3, <2>6
  <2>. QED  BY <2>5 DEF A, c, k, u
<1> HIDE DEF w
<1>4. ASSUME ~crossed
      PROVE  /\ Missing \subseteq Behind(w.disk)
             /\ Missing \subseteq Behind(w.heap[w.cached])
             /\ turn.obj # None => Missing \subseteq Behind(w.heap[turn.obj])
  <2>1. /\ Missing \subseteq Behind(store.disk)
        /\ \A o \in Refs : Missing \subseteq Behind(store.heap[o])
    BY <1>4 DEF Inv, Covered
  <2>2. store.disk \in Session
    BY <1>1, WorldSessions
  <2>3. Behind(store.disk) \subseteq Behind(Loaded(store.disk))
    BY <2>2, LoadedMade
  <2>4. turn.obj # None => turn.obj \in Refs /\ turn.obj \in Obj /\ turn.obj # w.cached
    BY <1>1, <1>3 DEF Refs
  <2>5. turn.obj # None => Missing \subseteq Behind(w.heap[turn.obj])
    BY <1>3, <2>1, <2>4
  <2>6. Missing \subseteq Behind(w.heap[w.cached])
    BY <1>3, <2>1, <2>3
  <2>. QED  BY <1>3, <2>1, <2>5, <2>6
<1>. QED  BY <1>3, <1>4 DEF w

LEMMA CompactKeeps ==
    ASSUME Inv, Compact
    PROVE  Inv'
<1> DEFINE w == Fetch(Invalidate(store))
           o == w.cached
           h == w.heap[o]
           probe == Probe(h)
           cut == Retained(probe, IdleSuffix, TRUE)
           remove == Dropped(probe, IdleSuffix, TRUE)
           all == Ids(probe.msgs)
           keep == cut.msgs
           p == IF probe.msgs = <<>> THEN h ELSE [h EXCEPT !.msgs = keep, !.lc = 0]
<1>1. /\ queue # <<>> /\ job.pc = "none" /\ Head(queue) = "idle"
      /\ hot' = hot /\ snaps' = snaps /\ archived' = archived /\ sent' = sent
      /\ cleared' = cleared /\ fence' = fence /\ crossed' = crossed /\ crashes' = crashes
  BY DEF Compact, Awaiting
<1>2. IF remove # {}
      THEN /\ job' = [pc |-> "compact", obj |-> o, end |-> 0, chunk |-> remove,
                      all |-> all, keep |-> keep, sum |-> 0, round |-> 0]
           /\ queue' = queue /\ turn' = turn
           /\ Settle(w)
      ELSE /\ queue' = Tail(queue)
           /\ job' = job /\ turn' = turn
           /\ Settle(IF probe.msgs = <<>> THEN Save(w, o)
                     ELSE Write(w, o, [h EXCEPT !.msgs = keep, !.lc = 0]))
  BY DEF Compact
<1>3. /\ w \in Worlds(Current, crossed, Crashed)
      /\ o \in Obj /\ o \notin Refs /\ w.disk = store.disk
      /\ ~crossed =>
           /\ Missing \subseteq Behind(w.disk)
           /\ Missing \subseteq Behind(h)
           /\ turn.obj # None => Missing \subseteq Behind(w.heap[turn.obj])
  BY <1>1, RefetchSound
<1> HIDE DEF w
<1>4. /\ Current' = Current /\ Missing' = Missing /\ Crashed' = Crashed
      /\ crossed \in BOOLEAN /\ Crashed \in BOOLEAN
      /\ turn.obj \in Obj \cup {None} /\ ControlTypes /\ Steady /\ LockOrder
      /\ hot \in Current \cup {0} /\ Current \subseteq 1..MaxMessages
  BY <1>1, Numbers DEF Current, Missing, Crashed, Inv, Sound
<1>5. /\ h \in Session /\ Ids(h.msgs) \subseteq Current /\ h.sum \in Current \cup {0}
      /\ h \in Alive(Current, crossed)
  <2>1. h \in Alive(Current, crossed)
    BY <1>3, WorldIs
  <2>. QED  BY <1>4, <2>1, AliveIs
<1>6. /\ keep \in Seq(Message) /\ Ids(keep) \subseteq Current
      /\ all \subseteq Current /\ remove \subseteq all
      /\ Behind(h) \subseteq remove \cup Ids(keep)
  <2> HIDE DEF h
  <2>1. /\ cut.msgs \in Seq(Message) /\ Ids(cut.msgs) \subseteq Ids(h.msgs)
        /\ Ids(probe.msgs) \subseteq Ids(h.msgs)
        /\ remove \subseteq Ids(probe.msgs)
        /\ Behind(h) \subseteq remove \cup Ids(cut.msgs)
    BY <1>5, CutMade
  <2> HIDE DEF probe, cut, remove
  <2>. QED  BY <1>5, <2>1
<1>7. LockOrder => Ordered(queue)
  BY DEF LockOrder
<1>8. /\ Ordered(Tail(queue))
      /\ \A y : In(y, Tail(queue)) <=> In(y, queue) /\ y # Head(queue)
  BY <1>1, <1>4, <1>7, TailOrdered
<1>9. CASE remove # {}
  <2>1. /\ job' = [pc |-> "compact", obj |-> o, end |-> 0, chunk |-> remove,
                   all |-> all, keep |-> keep, sum |-> 0, round |-> 0]
        /\ queue' = queue /\ turn' = turn /\ Settle(w)
    BY <1>2, <1>9
  <2> HIDE DEF o, all, keep, remove
  <2>2. /\ job'.pc = "compact" /\ job'.obj = o /\ job'.chunk = remove /\ job'.all = all
        /\ job'.keep = keep /\ job'.sum = 0
    BY <2>1
  <2>3. job' \in JobType
    <3>1. /\ remove \in SUBSET (1..MaxMessages) /\ all \in SUBSET (1..MaxMessages)
          /\ o \in Obj \cup {None} /\ MaxRounds \in Nat
      BY <1>3, <1>4, <1>6, ConsolidationAssumption
    <3>. QED  BY <1>6, <2>1, <3>1 DEF JobType
  <2>4. Fits(job', h)
    BY <1>6, <2>2 DEF Fits
  <2>5. store' \in Worlds(Current', crossed', Crashed') /\ Covered'
    <3>1. w \in Worlds(Current', crossed', Crashed') /\ crossed' \in BOOLEAN /\ Crashed' \in BOOLEAN
      BY <1>1, <1>3, <1>4
    <3>2. turn'.obj \in Obj \cup {None} /\ job'.obj \in Obj \cup {None}
      BY <1>3, <1>4, <2>1, <2>2
    <3>3. ~crossed' =>
            /\ Missing' \subseteq Behind(w.disk)
            /\ w.cached # None => Missing' \subseteq Behind(w.heap[w.cached])
            /\ turn'.obj # None => Missing' \subseteq Behind(w.heap[turn'.obj])
            /\ job'.pc = "none" => job'.obj = None
            /\ job'.pc # "none" => job'.obj \in Obj /\ job'.obj = w.cached /\ Fits(job', w.heap[w.cached])
      BY <1>1, <1>3, <1>4, <2>1, <2>2, <2>4 DEF o
    <3>. QED  BY <2>1, <3>1, <3>2, <3>3, StepSettles
  <2>6. Sound'
    BY <1>1, <1>4, <1>6, <2>2, <2>5 DEF Sound
  <2>7. LockOrder'
    BY <1>1, <1>4, <2>1, <2>2 DEF LockOrder, Awaiting
  <2>8. ControlTypes' /\ Steady'
    BY <1>1, <1>3, <1>4, <2>1, <2>2, <2>3 DEF ControlTypes, Steady
  <2>. QED  BY <2>5, <2>6, <2>7, <2>8 DEF Inv
<1>10. CASE remove = {}
  <2> DEFINE u == Write(w, o, p)
  <2>1. /\ job' = job /\ queue' = Tail(queue) /\ turn' = turn /\ Settle(u)
    <3>1. Save(w, o) = Write(w, o, h)
      <4>1. w = [heap |-> w.heap, cached |-> w.cached, disk |-> w.disk]
            /\ w.heap \in [Obj -> Alive(Current, crossed)]
        BY <1>3, WorldIs
      <4> HIDE DEF o
      <4>2. [w EXCEPT !.heap[o] = h] = w
        BY <1>3, <4>1 DEF o
      <4>. QED  BY <4>2 DEF Write
    <3> HIDE DEF probe, keep, h, o
    <3>2. CASE probe.msgs = <<>>
      BY <1>2, <1>10, <3>1, <3>2
    <3>3. CASE probe.msgs # <<>>
      BY <1>2, <1>10, <3>3
    <3>. QED  BY <3>2, <3>3
  <2>2. p \in Alive(Current, crossed) /\ Behind(h) \subseteq Behind(p)
    <3> HIDE DEF h, keep, remove, probe
    <3>1. CASE probe.msgs = <<>>
      BY <1>5, <3>1
    <3>2. CASE probe.msgs # <<>>
      <4> DEFINE z == 0
                 g == [h EXCEPT !.msgs = keep, !.lc = z]
      <4>1. h.sum \in Nat /\ h.lc \in Nat
        BY <1>5, SessionFields
      <4>2. z \in Nat /\ z = 0
        OBVIOUS
      <4> HIDE DEF z
      <4>3. g \in Session /\ g.msgs = keep /\ g.lc = z /\ g.sum = h.sum
        BY <1>5, <1>6, <4>1, <4>2 DEF Session
      <4>4. p = g
        BY <3>2 DEF z
      <4> HIDE DEF g, p
      <4>5. g.lc <= Len(g.msgs) /\ Ids(g.msgs) \subseteq Behind(g)
        BY <4>2, <4>3, BehindAll, SessionFields
      <4>6. g \in Alive(Current, crossed)
        BY <1>4, <1>5, <1>6, <4>3, <4>5, AliveIs
      <4>7. Behind(h) \subseteq Behind(g)
        BY <1>6, <1>10, <4>3, <4>5
      <4>. QED  BY <4>4, <4>6, <4>7
    <3>. QED  BY <3>1, <3>2
  <2> HIDE DEF p, h
  <2>3. /\ u \in Worlds(Current, crossed, Crashed) /\ u.cached = o /\ u.disk = p /\ u.heap[o] = p
        /\ \A x \in Obj : x # o => u.heap[x] = w.heap[x]
    <3> DEFINE A == Current
               c == crossed
               k == Crashed
    <3>1. w \in Worlds(A, c, k) /\ p \in Alive(A, c) /\ c \in BOOLEAN /\ k \in BOOLEAN
      BY <1>3, <1>4, <2>2
    <3> HIDE DEF A, c, k
    <3>2. /\ u \in Worlds(A, c, k) /\ u.cached = o /\ u.disk = p /\ u.heap[o] = p
          /\ \A x \in Obj : x # o => u.heap[x] = w.heap[x]
      BY <1>3, <3>1, WriteMade
    <3>. QED  BY <3>2 DEF A, c, k
  <2>4. job'.pc = "none" /\ job'.obj = None
    BY <1>1, <2>1, Numbers
  <2>5. turn.obj # None => turn.obj \in Obj /\ turn.obj # o
    BY <1>3, <1>4 DEF Refs
  <2> HIDE DEF u, o
  <2>6. store' \in Worlds(Current', crossed', Crashed') /\ Covered'
    <3>1. u \in Worlds(Current', crossed', Crashed') /\ crossed' \in BOOLEAN /\ Crashed' \in BOOLEAN
      BY <1>1, <1>4, <2>3
    <3>2. turn'.obj \in Obj \cup {None} /\ job'.obj \in Obj \cup {None}
      BY <1>4, <2>1, <2>4
    <3>3. ASSUME ~crossed'
          PROVE  /\ Missing' \subseteq Behind(u.disk)
                 /\ u.cached # None => Missing' \subseteq Behind(u.heap[u.cached])
                 /\ turn'.obj # None => Missing' \subseteq Behind(u.heap[turn'.obj])
      <4>1. ~crossed
        BY <1>1, <3>3
      <4>2. Missing' \subseteq Behind(p)
        BY <1>3, <1>4, <2>2, <4>1
      <4>3. turn'.obj # None => Missing' \subseteq Behind(u.heap[turn'.obj])
        BY <1>3, <1>4, <2>1, <2>3, <2>5, <4>1
      <4>. QED  BY <2>3, <4>2, <4>3
    <3>. QED  BY <2>1, <2>4, <3>1, <3>2, <3>3, StepSettles
  <2>7. Sound'
    <3>1. hot' \in {hot, 0} /\ Current \subseteq Current'
      BY <1>1, <1>4
    <3>. QED  BY <2>1, <2>6, <3>1, JobStays DEF Sound
  <2>8. LockOrder'
    <3>1. ~Awaiting'
      BY <2>4 DEF Awaiting
    <3>2. /\ (turn'.pc = "build") <=> In("turn", queue')
          /\ turn'.pc = "run" => ~In("background", queue')
      BY <1>1, <1>4, <1>8, <2>1 DEF LockOrder
    <3>. QED  BY <1>8, <2>1, <3>1, <3>2 DEF LockOrder
  <2>9. ControlTypes' /\ Steady'
    BY <1>1, <1>4, <2>1 DEF ControlTypes, Steady
  <2>. QED  BY <2>6, <2>7, <2>8, <2>9 DEF Inv
<1>. QED  BY <1>9, <1>10

LEMMA CompactedKeeps ==
    ASSUME Inv, NEW outcome \in Outcome, Compacted(outcome)
    PROVE  Inv'
<1> DEFINE o == job.obj
           h == store.heap[o]
           sum == IF outcome = "summary" THEN Top(job.all) ELSE h.sum
           s == [h EXCEPT !.msgs = job.keep, !.lc = 0, !.sum = sum]
           w == Write(store, o, s)
<1>1. /\ job.pc = "compact"
      /\ archived' = archived \cup (IF outcome = "failed" THEN job.chunk ELSE job.all)
      /\ queue' = Tail(queue) /\ job' = NoJob /\ turn' = turn
      /\ hot' = IF outcome = "summary" THEN sum ELSE hot
      /\ Settle(w)
      /\ snaps' = snaps /\ sent' = sent
      /\ cleared' = cleared /\ fence' = fence /\ crossed' = crossed /\ crashes' = crashes
  BY DEF Compacted
<1>2. /\ ControlTypes /\ Steady /\ LockOrder /\ Sound /\ Covered
      /\ crossed \in BOOLEAN /\ Crashed \in BOOLEAN /\ o \in Obj /\ job \in JobType
      /\ turn.obj \in Obj \cup {None} /\ sent \in Nat
  BY <1>1, Numbers DEF Inv, ControlTypes, Crashed
<1>3. /\ Current' = Current /\ Crashed' = Crashed /\ Current \subseteq 1..sent
  BY <1>1, <1>2 DEF Current, Crashed
<1>4. /\ store \in Worlds(Current, crossed, Crashed) /\ hot \in Current \cup {0}
      /\ job.chunk \subseteq job.all /\ job.all \subseteq Current /\ Ids(job.keep) \subseteq Current
  BY <1>1, <1>2 DEF Sound
<1>5. /\ queue # <<>> /\ Head(queue) = "idle" /\ Ordered(queue)
      /\ (turn.pc = "build") <=> In("turn", queue)
      /\ turn.pc = "run" => ~In("background", queue)
  BY <1>1, <1>2 DEF LockOrder, Awaiting
<1>6. /\ Ordered(Tail(queue))
      /\ \A y : In(y, Tail(queue)) <=> In(y, queue) /\ y # Head(queue)
  BY <1>5, TailOrdered
<1>7. /\ h \in Session /\ Ids(h.msgs) \subseteq Current /\ h.sum \in Current \cup {0}
  <2>1. h \in Alive(Current, crossed)
    BY <1>2, <1>4, WorldIs
  <2>. QED  BY <1>2, <2>1, AliveIs
<1>8. ASSUME ~crossed
      PROVE  /\ Missing \subseteq Behind(h) /\ Behind(h) \subseteq job.chunk \cup Ids(job.keep)
             /\ turn.obj # None => Missing \subseteq Behind(store.heap[turn.obj])
  <2>1. o \in Refs /\ (turn.obj # None => turn.obj \in Refs)
    BY <1>2, ConsolidationAssumption DEF Refs
  <2>2. Fits(job, h)
    BY <1>1, <1>2, <1>8 DEF Covered, Awaiting
  <2>3. Behind(h) \subseteq job.chunk \cup Ids(job.keep)
    BY <1>1, <2>2 DEF Fits
  <2> HIDE DEF h
  <2>. QED  BY <1>2, <1>8, <2>1, <2>3 DEF Covered, h
<1>9. sum \in Current \cup {0} /\ sum \in Nat
  <2>1. job.all \in SUBSET (0..sent)
    <3>1. \A i \in 1..sent : i \in 0..sent
      BY <1>2
    <3>. QED  BY <1>3, <1>4, <3>1
  <2>2. Top(job.all) \in job.all \cup {0}
    BY <1>2, <2>1, TopIs
  <2> HIDE DEF h
  <2>3. sum \in Current \cup {0}
    BY <1>4, <1>7, <2>2
  <2> HIDE DEF sum
  <2>. QED  BY <1>2, <1>3, <2>3
<1> HIDE DEF o, h, sum
<1>10. /\ s \in Session /\ s.msgs = job.keep /\ s.lc = 0 /\ s.sum = sum
       /\ s.lc <= Len(s.msgs) /\ Ids(job.keep) \subseteq Behind(s)
  <2> DEFINE keep == job.keep
  <2>1. keep \in Seq(Message)
    BY <1>2 DEF JobType
  <2> HIDE DEF keep
  <2> DEFINE z == [h EXCEPT !.msgs = keep, !.lc = 0, !.sum = sum]
  <2>2. /\ z \in Session /\ z.msgs = keep /\ z.lc = 0 /\ z.sum = sum
        /\ z.lc <= Len(z.msgs) /\ Ids(keep) \subseteq Behind(z)
    BY <1>7, <1>9, <2>1, ReplacedMade
  <2>. QED  BY <2>2 DEF keep
<1> HIDE DEF s
<1>11. s \in Alive(Current, crossed)
  BY <1>2, <1>4, <1>9, <1>10, AliveIs
<1>12. /\ w \in Worlds(Current, crossed, Crashed) /\ w.cached = o /\ w.disk = s /\ w.heap[o] = s
       /\ \A x \in Obj : x # o => w.heap[x] = store.heap[x]
  <2> DEFINE A == Current
             c == crossed
             b == Crashed
             v == store
             u == Write(v, o, s)
  <2>1. v \in Worlds(A, c, b) /\ s \in Alive(A, c) /\ c \in BOOLEAN /\ b \in BOOLEAN
    BY <1>2, <1>4, <1>11
  <2> HIDE DEF A, c, b, v
  <2>2. /\ u \in Worlds(A, c, b) /\ u.cached = o /\ u.disk = s /\ u.heap[o] = s
        /\ \A x \in Obj : x # o => u.heap[x] = v.heap[x]
    BY <1>2, <2>1, WriteMade
  <2>. QED  BY <2>2 DEF A, c, b, v
<1> HIDE DEF w
<1>13. job'.pc = "none" /\ job'.obj = None /\ job' \in JobType
  BY <1>1, EmptySeq, ConsolidationAssumption DEF NoJob, JobType
<1>14. store' \in Worlds(Current', crossed', Crashed') /\ Covered'
  <2>1. w \in Worlds(Current', crossed', Crashed') /\ crossed' \in BOOLEAN /\ Crashed' \in BOOLEAN
    BY <1>1, <1>2, <1>3, <1>12
  <2>2. turn'.obj \in Obj \cup {None} /\ job'.obj \in Obj \cup {None}
    BY <1>1, <1>2, <1>13
  <2>3. ASSUME ~crossed'
        PROVE  /\ Missing' \subseteq Behind(w.disk)
               /\ w.cached # None => Missing' \subseteq Behind(w.heap[w.cached])
               /\ turn'.obj # None => Missing' \subseteq Behind(w.heap[turn'.obj])
    <3>1. ~crossed
      BY <1>1, <2>3
    <3>2. Missing' \subseteq Missing \ job.chunk
      BY <1>1, <1>4 DEF Missing
    <3>3. Missing' \subseteq Behind(s)
      BY <1>8, <1>10, <3>1, <3>2
    <3>4. turn'.obj # None => Missing' \subseteq Behind(w.heap[turn'.obj])
      <4>. HAVE turn'.obj # None
      <4>1. CASE turn.obj = o
        BY <1>1, <1>12, <3>3, <4>1
      <4>2. CASE turn.obj # o
        <5>1. turn.obj \in Obj /\ turn.obj # None
          BY <1>1, <1>2
        <5>2. w.heap[turn.obj] = store.heap[turn.obj]
          BY <1>12, <4>2, <5>1
        <5>. QED  BY <1>1, <1>8, <3>1, <3>2, <5>1, <5>2
      <4>. QED  BY <4>1, <4>2
    <3>. QED  BY <1>12, <3>3, <3>4
  <2>. QED  BY <1>1, <1>13, <2>1, <2>2, <2>3, StepSettles
<1>15. Sound'
  <2>1. hot' \in Current' \cup {0}
    BY <1>1, <1>3, <1>4, <1>9
  <2>. QED  BY <1>1, <1>14, <2>1, NoJobLeft DEF Sound
<1>16. LockOrder'
  <2>1. ~Awaiting'
    BY <1>13 DEF Awaiting
  <2>2. /\ (turn'.pc = "build") <=> In("turn", queue')
        /\ turn'.pc = "run" => ~In("background", queue')
    BY <1>1, <1>5, <1>6
  <2>. QED  BY <1>1, <1>6, <2>1, <2>2 DEF LockOrder
<1>17. ControlTypes' /\ Steady'
  <2>1. archived' \subseteq 1..sent
    BY <1>1, <1>2, <1>3, <1>4 DEF ControlTypes
  <2>. QED  BY <1>1, <1>2, <1>13, <2>1 DEF ControlTypes, Steady
<1>. QED  BY <1>14, <1>15, <1>16, <1>17 DEF Inv

-----------------------------------------------------------------------------
(* The invariant, and what follows from it.                                *)

LEMMA InitInv ==
    ASSUME Init
    PROVE  Inv
<1>1. /\ store = [heap |-> [o \in Obj |-> Blank], cached |-> None, disk |-> Blank]
      /\ turn = NoTurn /\ queue = <<>> /\ job = NoJob /\ hot = 0 /\ snaps = {}
      /\ archived = {} /\ sent = 0 /\ cleared = {} /\ fence = 0 /\ crossed = FALSE
      /\ crashes = 0
  BY DEF Init
<1>2. MaxMessages \in Nat /\ MaxRounds \in Nat /\ MaxCrashes \in Nat /\ None \notin Obj
  BY ConsolidationAssumption
<1>3. turn.obj = None /\ turn.pc = "idle" /\ job.pc = "none" /\ job.obj = None
  BY <1>1 DEF NoTurn, NoJob
<1>4. ControlTypes
  <2>1. turn \in [pc : {"idle", "build", "run"}, obj : Obj \cup {None},
                  direct : BOOLEAN, at : 0..sent, prompt : SUBSET (1..MaxMessages)]
    BY <1>1 DEF NoTurn
  <2>2. job \in JobType
    BY <1>1, <1>2, EmptySeq DEF NoJob, JobType
  <2>3. /\ sent \in 0..MaxMessages /\ fence \in 0..sent
        /\ crashes \in 0..MaxCrashes
    BY <1>1, <1>2
  <2>4. /\ archived \subseteq 1..sent /\ cleared \subseteq 1..sent
        /\ snaps \subseteq SUBSET (1..sent)
    BY <1>1
  <2>5. crossed \in BOOLEAN
    BY <1>1
  <2>. QED  BY <2>1, <2>2, <2>3, <2>4, <2>5 DEF ControlTypes
<1>5. LockOrder
  <2>1. Len(queue) = 0 /\ queue \in Seq(Holder)
    BY <1>1, EmptySeq
  <2>2. \A i : i \notin 1..Len(queue)
    BY <2>1
  <2>. QED  BY <1>3, <2>1, <2>2 DEF LockOrder, Ordered, In, Awaiting
<1>6. Steady
  BY <1>1, <1>2, <1>3 DEF Steady, Reserved
<1>7. Sound
  <2> DEFINE A == Current
             c == crossed
             k == Crashed
             h == [o \in Obj |-> Blank]
             d == Blank
  <2>0. ~crossed /\ ~Crashed
    BY <1>1 DEF Crashed
  <2>1. c \in BOOLEAN /\ k \in BOOLEAN
    <3>1. crossed = FALSE
      BY <1>1
    <3>2. Crashed \in BOOLEAN
      BY <2>0 DEF Crashed
    <3>. QED  BY <3>1, <3>2
  <2> HIDE DEF A, c, k
  <2>2. d \in Alive(A, c) /\ d \in Filed(A, c, k)
    BY <2>1, BlankAlive
  <2>3. h \in [Obj -> Alive(A, c)]
    BY <2>2
  <2>4. store = [heap |-> h, cached |-> None, disk |-> d]
    BY <1>1
  <2> HIDE DEF h, d
  <2>5. store \in Worlds(A, c, k)
    BY <2>2, <2>3, <2>4 DEF Worlds
  <2>6. /\ job.chunk = {} /\ job.all = {} /\ job.keep = <<>> /\ job.sum = 0
    BY <1>1 DEF NoJob
  <2>7. Ids(<<>>) = {}
    BY EmptySeq DEF Ids
  <2>. QED  BY <1>1, <1>3, <2>5, <2>6, <2>7 DEF Sound, A, c, k
<1>8. Covered
  <2>1. Missing = {}
    BY <1>1 DEF Missing
  <2>2. Refs = {}
    BY <1>1, <1>3 DEF Refs
  <2>. QED  BY <1>3, <2>1, <2>2 DEF Covered, Awaiting
<1>. QED  BY <1>4, <1>5, <1>6, <1>7, <1>8 DEF Inv

LEMMA StutterKeeps ==
    ASSUME Inv, UNCHANGED vars
    PROVE  Inv'
<1>1. /\ store' = store /\ turn' = turn /\ queue' = queue /\ job' = job /\ hot' = hot
      /\ snaps' = snaps /\ archived' = archived /\ sent' = sent /\ cleared' = cleared
      /\ fence' = fence /\ crossed' = crossed /\ crashes' = crashes
  BY DEF vars
<1>2. /\ Current' = Current /\ Crashed' = Crashed /\ Missing' = Missing /\ Refs' = Refs
      /\ Awaiting' = Awaiting
  BY <1>1 DEF Current, Crashed, Missing, Refs, Awaiting
<1>3. ControlTypes' /\ Steady'
  BY <1>1 DEF Inv, ControlTypes, Steady
<1>4. LockOrder'
  BY <1>1, LockStays
<1>5. Sound'
  BY <1>1, <1>2 DEF Inv, Sound
<1>6. Covered'
  BY <1>1, <1>2 DEF Inv, Covered
<1>. QED  BY <1>3, <1>4, <1>5, <1>6 DEF Inv

LEMMA NextKeeps ==
    ASSUME Inv, Next
    PROVE  Inv'
<1>1. CASE JobStep
  BY <1>1, ConsolidateKeeps, CompactKeeps, ArchivedKeeps, CompactedKeeps DEF JobStep
<1>2. CASE CheckExpired
  BY <1>2, CheckExpiredKeeps
<1>3. CASE \E direct \in BOOLEAN : Begin(direct)
  BY <1>3, BeginKeeps
<1>4. CASE End
  BY <1>4, EndKeeps
<1>5. CASE StopBuild
  BY <1>5, StopBuildKeeps
<1>6. CASE StopRun
  BY <1>6, StopRunKeeps
<1>7. CASE Command
  BY <1>7, CommandKeeps
<1>8. CASE New
  BY <1>8, NewKeeps
<1>9. CASE SnapshotArchived
  BY <1>9, SnapshotKeeps
<1>10. CASE Deliver
  BY <1>10, DeliverKeeps
<1>11. CASE Crash
  BY <1>11, CrashKeeps
<1>12. CASE Shutdown
  BY <1>12, ShutdownKeeps
<1>. QED
  BY <1>1, <1>2, <1>3, <1>4, <1>5, <1>6, <1>7, <1>8, <1>9, <1>10, <1>11, <1>12 DEF Next

LEMMA Invariance == Spec => []Inv
<1>1. Init => Inv
  BY InitInv
<1>2. Inv /\ [Next]_vars => Inv'
  BY NextKeeps, StutterKeeps
<1>. QED  BY <1>1, <1>2, PTL DEF Spec

\* What the invariant says of one session held in memory or on disk.
LEMMA SessionsHeld ==
    ASSUME Inv
    PROVE  /\ store.disk \in Session /\ \A o \in Obj : store.heap[o] \in Session
           /\ \A s \in {store.disk} \cup {store.heap[o] : o \in Obj} :
                Ids(s.msgs) \subseteq Current /\ s.sum \in Current \cup {0}
           /\ crossed \/ crashes > 0 \/ store.disk.lc <= Len(store.disk.msgs)
           /\ crossed \/ \A o \in Obj : store.heap[o].lc <= Len(store.heap[o].msgs)
           /\ hot \in Current \cup {0}
<1>1. /\ store \in Worlds(Current, crossed, Crashed) /\ hot \in Current \cup {0}
      /\ crossed \in BOOLEAN /\ Crashed \in BOOLEAN
  BY Numbers DEF Inv, Sound, Crashed
<1>2. store.disk \in Filed(Current, crossed, Crashed)
      /\ \A o \in Obj : store.heap[o] \in Alive(Current, crossed)
  BY <1>1, WorldIs
<1>3. /\ store.disk \in Session /\ Ids(store.disk.msgs) \subseteq Current
      /\ store.disk.sum \in Current \cup {0}
      /\ crossed \/ Crashed \/ store.disk.lc <= Len(store.disk.msgs)
  BY <1>1, <1>2, FiledIs
<1>4. ASSUME NEW o \in Obj
      PROVE  /\ store.heap[o] \in Session /\ Ids(store.heap[o].msgs) \subseteq Current
             /\ store.heap[o].sum \in Current \cup {0}
             /\ crossed \/ store.heap[o].lc <= Len(store.heap[o].msgs)
  BY <1>1, <1>2, AliveIs
<1>. QED  BY <1>1, <1>3, <1>4 DEF Crashed

\* Types of all that is kept, and the discipline of the consolidation lock:
\* asyncio.Lock serves the callers in order, and only its holder awaits a job.
THEOREM ConsolidationTypes == Spec => []TypeOK
<1>1. Inv => TypeOK
  <2>. SUFFICES ASSUME Inv PROVE TypeOK
    OBVIOUS
  <2>1. ControlTypes /\ LockOrder /\ Sound
    BY DEF Inv
  <2>2. store \in [heap : [Obj -> Session], cached : Obj \cup {None}, disk : Session]
    <3>1. store \in Worlds(Current, crossed, Crashed)
      BY <2>1 DEF Sound
    <3>2. /\ store.heap \in [Obj -> Alive(Current, crossed)] /\ store.cached \in Obj \cup {None}
          /\ store = [heap |-> store.heap, cached |-> store.cached, disk |-> store.disk]
      BY <3>1, WorldIs
    <3>3. store.disk \in Session /\ \A o \in Obj : store.heap[o] \in Session
      BY SessionsHeld
    <3>4. store.heap \in [Obj -> Session]
      BY <3>2, <3>3
    <3>. QED  BY <3>2, <3>3, <3>4
  <2>3. hot \in 0..sent
    <3>1. hot \in Current \cup {0} /\ sent \in Nat
      BY Numbers, SessionsHeld
    <3>. QED  BY <3>1 DEF Current
  <2>4. /\ queue \in Seq(Holder)
        /\ \A i, j \in 1..Len(queue) : queue[i] = queue[j] => i = j
        /\ Awaiting => queue # <<>> /\ (job.pc = "compact" <=> Head(queue) = "idle")
        /\ (turn.pc = "build") <=> (\E i \in 1..Len(queue) : queue[i] = "turn")
        /\ turn.pc = "run" => \A i \in 1..Len(queue) : queue[i] # "background"
    BY <2>1 DEF LockOrder, Ordered, In
  <2>. QED  BY <2>1, <2>2, <2>3, <2>4 DEF TypeOK, ControlTypes
<1>. QED  BY <1>1, Invariance, PTL

\* No accepted message disappears between a turn, the archive calls of
\* maybe_consolidate_by_tokens, compact_idle_session, the file cap and a
\* restart, as long as no writer without the lock has met an awaiting job.
THEOREM MessagesAreKept == Spec => []NothingLost
<1>1. Inv => NothingLost
  <2>. SUFFICES ASSUME Inv, ~crossed, NEW i \in 1..sent, i \notin archived \cup cleared
                PROVE  i \in Ids(Tail_(store.disk))
    BY DEF NothingLost
  <2>1. Missing \subseteq Behind(store.disk)
    BY DEF Inv, Covered
  <2>2. i \in Missing
    BY DEF Missing
  <2>. QED  BY <2>1, <2>2 DEF Behind
<1>. QED  BY <1>1, Invariance, PTL

\* last_consolidated never points past the messages of a session that is kept
\* in memory, nor of the file before a crash has cut it.
THEOREM CursorsInRange == Spec => []CursorInRange
<1>1. Inv => CursorInRange
  BY SessionsHeld DEF CursorInRange
<1>. QED  BY <1>1, Invariance, PTL

\* Unless a writer without the lock met a job that awaits the model (a /new
\* during a compaction is one, and there the code breaks it), after cmd_new
\* neither the session, nor its summary, nor the summary AutoCompact keeps for
\* the next turn, knows anything from before.
THEOREM NewStartsFresh == Spec => []NewIsFresh
<1>1. Inv => NewIsFresh
  <2>. SUFFICES ASSUME Inv, ~crossed,
                       NEW s \in {store.disk} \cup {store.heap[o] : o \in Obj}
                PROVE  /\ \A i \in Ids(s.msgs) : i > fence
                       /\ s.sum = 0 \/ s.sum > fence
                       /\ hot = 0 \/ hot > fence
    BY DEF NewIsFresh
  <2>1. Ids(s.msgs) \subseteq Current /\ s.sum \in Current \cup {0} /\ hot \in Current \cup {0}
    BY SessionsHeld
  <2>2. \A i \in Current : i > fence
    BY DEF Current
  <2>. QED  BY <2>1, <2>2
<1>. QED  BY <1>1, Invariance, PTL

-----------------------------------------------------------------------------
(* What a turn is shown: the invariant.                                    *)

\* The messages `keep` are the last ones of session s, none before the cursor.
Follows(keep, s) ==
    \E n \in s.lc..Len(s.msgs) : keep = SubSeq(s.msgs, n + 1, Len(s.msgs))

\* Object t has all the messages of s, after d older ones, and its cursor is
\* not past that of s.
Sees(t, s) ==
    \E d \in 0..Len(t.msgs) : /\ s.msgs = SubSeq(t.msgs, d + 1, Len(t.msgs))
                              /\ t.lc <= d + s.lc

\* The last turn alone is longer than the window.
Alone(s) == \A u \in Users(s, 0) : u + Window < Len(s.msgs)

\* What follows index e begins with a user message, or with a delivery that
\* stays with one.
Opens(s, e) == \/ e \in Users(s, 0)
               \/ (e + 1 \in Users(s, 0) /\ s.msgs[e + 1].kind = "delivery")

\* The window hides nothing that lies behind index e.
Frontier(s, e) == Alone(s) \/ (e + Window >= Len(s.msgs) /\ Opens(s, e))

\* A turn waits for its consolidation and its session got no message since.
Waiting == turn.pc = "build" /\ ~crossed /\ sent = turn.at

Archives == job.pc \in {"overflow", "round"}

\* The cached object is the file, or what was loaded from it.
Agrees(w) == w.cached # None => w.heap[w.cached] \in {w.disk, Loaded(w.disk)}

CacheIsFile == Agrees(store)

\* An archive moves the cursor forward, a compaction keeps an end of the session.
JobMoves ==
    ~crossed =>
        /\ Archives => store.heap[job.obj].lc <= job.end
        /\ job.pc = "compact" => Follows(job.keep, store.heap[job.obj])

\* Whatever became of the session while the turn waited, its object has it all.
TurnSees == Waiting => Sees(store.heap[turn.obj], Loaded(store.disk))

\* The turn's own consolidation archives up to a frontier.
TurnArchives ==
    Waiting /\ Archives /\ Head(queue) = "turn" => Frontier(store.heap[job.obj], job.end)

PromptInv == CacheIsFile /\ JobMoves /\ TurnSees /\ TurnArchives

-----------------------------------------------------------------------------
(* What the window shows.                                                  *)

\* From a user message within the window on, everything is shown, and the
\* delivery just before it.
LEMMA WindowOpens ==
    ASSUME NEW t \in Session, NEW x \in Users(t, t.lc), x + Window >= Len(t.msgs)
    PROVE  LET start == WindowStart(t, Window, FALSE)
           IN  /\ start \in Nat /\ t.lc < Len(t.msgs) /\ start <= x
               /\ x > t.lc /\ x + Window > Len(t.msgs) /\ t.msgs[x].kind = "delivery" =>
                    start < x
<1> DEFINE len == Len(t.msgs)
           low == IF len - t.lc <= Window THEN t.lc ELSE len - Window
           inside == Users(t, low)
<1>1. t.lc \in Nat /\ len \in Nat /\ Window \in Nat \ {0}
  BY SessionFields, ConsolidationAssumption
<1>2. x \in Nat /\ x >= t.lc /\ x < len /\ FromUser(t.msgs[x + 1])
  BY <1>1, UsersAre DEF Users
<1>3. low \in Nat /\ low <= x /\ (x > t.lc /\ x + Window > len => low < x)
  BY <1>1, <1>2
<1>4. inside # {} => WindowStart(t, Window, FALSE) = WithDelivery(t, Least(inside), low)
  BY DEF WindowStart
<1> HIDE DEF low
<1>5. x \in inside
  BY <1>1, <1>2, <1>3 DEF Users
<1>6. inside \in SUBSET Nat /\ \A i \in inside : i >= low
  BY <1>3, UsersAre
<1> HIDE DEF inside
<1> DEFINE u == Least(inside)
<1>7. u \in Nat /\ u >= low /\ u <= x
  BY <1>5, <1>6, LeastIs
<1> HIDE DEF u
<1>8. WindowStart(t, Window, FALSE) = WithDelivery(t, u, low)
  BY <1>4, <1>5 DEF u
<1>9. WithDelivery(t, u, low) \in Nat /\ WithDelivery(t, u, low) <= u
  BY <1>3, <1>7 DEF WithDelivery
<1>10. ASSUME x > t.lc, x + Window > len, t.msgs[x].kind = "delivery"
       PROVE  WithDelivery(t, u, low) < x
  <2>1. CASE u < x
    BY <1>2, <1>7, <1>9, <2>1
  <2>2. CASE u = x
    BY <1>2, <1>3, <1>10, <2>2 DEF WithDelivery
  <2>. QED  BY <1>2, <1>7, <2>1, <2>2
<1> DEFINE d == WithDelivery(t, u, low)
           start == WindowStart(t, Window, FALSE)
<1>11. start = d /\ d \in Nat /\ d <= u
  BY <1>8, <1>9
<1>12. x > t.lc /\ x + Window > len /\ t.msgs[x].kind = "delivery" => d < x
  BY <1>10
<1> HIDE DEF d, start
<1>13. /\ start \in Nat /\ t.lc < Len(t.msgs) /\ start <= x
       /\ x > t.lc /\ x + Window > Len(t.msgs) /\ t.msgs[x].kind = "delivery" => start < x
  BY <1>1, <1>2, <1>7, <1>11, <1>12
<1>. QED  BY <1>13 DEF start

LEMMA Shown ==
    ASSUME NEW t \in Session, t.lc < Len(t.msgs), NEW i \in 1..Len(t.msgs),
           WindowStart(t, Window, FALSE) < i, WindowStart(t, Window, FALSE) \in Nat
    PROVE  t.msgs[i].id \in Ids(Replayed(t))
<1> DEFINE start == WindowStart(t, Window, FALSE)
<1>1. t.msgs \in Seq(Message) /\ t.lc \in Nat /\ Len(t.msgs) \in Nat
  BY SessionFields
<1>2. Replayed(t) = SubSeq(t.msgs, start + 1, Len(t.msgs))
  <2>1. ~(t.lc >= Len(t.msgs))
    BY <1>1
  <2>. QED  BY <2>1 DEF Replayed
<1>3. start \in Nat /\ start < i
  OBVIOUS
<1> HIDE DEF start
<1> DEFINE m == start + 1
           n == Len(t.msgs)
<1>4. m \in Nat /\ n \in Nat /\ m >= 1 /\ n <= Len(t.msgs) /\ i \in m..n
  BY <1>1, <1>3
<1>5. Replayed(t) = SubSeq(t.msgs, m, n)
  BY <1>2
<1> HIDE DEF m, n
<1>6. Ids(SubSeq(t.msgs, m, n)) = {t.msgs[j].id : j \in m..n}
  BY <1>1, <1>4, Part
<1>. QED  BY <1>4, <1>5, <1>6

\* Messages, cursor and window decide what is replayed.
LEMMA ReplayedSame ==
    ASSUME NEW s, NEW t, s.msgs = t.msgs, s.lc = t.lc
    PROVE  Replayed(s) = Replayed(t)
<1>1. \A n : Users(s, n) = Users(t, n)
  BY DEF Users
<1>2. \A u, low : WithDelivery(s, u, low) = WithDelivery(t, u, low)
  BY DEF WithDelivery
<1>3. WindowStart(s, Window, FALSE) = WindowStart(t, Window, FALSE)
  BY <1>1, <1>2 DEF WindowStart
<1>. QED  BY <1>3 DEF Replayed

-----------------------------------------------------------------------------
(* A session and an object that has all of it.                             *)

\* Each message of the session is d places further in the object.
LEMMA SeesFields ==
    ASSUME NEW t \in Session, NEW s \in Session, Sees(t, s)
    PROVE  \E d \in Nat : /\ Len(t.msgs) = d + Len(s.msgs)
                          /\ \A i \in 1..Len(s.msgs) : s.msgs[i] = t.msgs[d + i]
                          /\ t.lc <= d + s.lc
<1>1. /\ t.msgs \in Seq(Message) /\ t.lc \in Nat /\ Len(t.msgs) \in Nat
      /\ s.lc \in Nat /\ Len(s.msgs) \in Nat
  BY SessionFields
<1>2. PICK d \in 0..Len(t.msgs) : /\ s.msgs = SubSeq(t.msgs, d + 1, Len(t.msgs))
                                  /\ t.lc <= d + s.lc
  BY DEF Sees
<1> DEFINE m == d + 1
           n == Len(t.msgs)
<1>3. m \in Nat /\ n \in Nat /\ m >= 1 /\ n <= Len(t.msgs) /\ d \in Nat /\ d <= n
  BY <1>1, <1>2
<1>4. s.msgs = SubSeq(t.msgs, m, n)
  BY <1>2
<1> HIDE DEF m, n
<1>5. /\ Len(s.msgs) = IF m <= n THEN n - m + 1 ELSE 0
      /\ \A i \in 1..Len(s.msgs) : s.msgs[i] = t.msgs[m + i - 1]
  BY <1>1, <1>3, <1>4, Part
<1>6. Len(t.msgs) = d + Len(s.msgs)
  BY <1>3, <1>5 DEF m, n
<1>7. \A i \in 1..Len(s.msgs) : m + i - 1 = d + i
  BY <1>1, <1>3 DEF m
<1>8. \A i \in 1..Len(s.msgs) : s.msgs[i] = t.msgs[d + i]
  BY <1>5, <1>7
<1>. QED  BY <1>2, <1>3, <1>6, <1>8

LEMMA SeesSelf ==
    ASSUME NEW s \in Session, NEW t \in Session, s.msgs = t.msgs, s.lc = t.lc
    PROVE  Sees(t, s)
<1>1. t.msgs \in Seq(Message) /\ Len(t.msgs) \in Nat /\ t.lc \in Nat
  BY SessionFields
<1> DEFINE m == 1
           n == Len(t.msgs)
<1>2. m \in Nat /\ n \in Nat /\ m >= 1 /\ n <= Len(t.msgs) /\ m = 1
  BY <1>1
<1>3. t.msgs = SubSeq(t.msgs, 1, Len(t.msgs))
  <2> HIDE DEF m, n
  <2> DEFINE q == SubSeq(t.msgs, m, n)
  <2>1. /\ q \in Seq(Message)
        /\ Len(q) = IF m <= n THEN n - m + 1 ELSE 0
        /\ \A i \in 1..Len(q) : q[i] = t.msgs[m + i - 1]
    BY <1>1, <1>2, Part
  <2> HIDE DEF q
  <2>2. Len(q) = Len(t.msgs) /\ \A i \in 1..Len(q) : m + i - 1 = i
    BY <1>1, <1>2, <2>1 DEF n
  <2>3. t.msgs = q
    BY <1>1, <2>1, <2>2, SeqEqual
  <2>. QED  BY <1>2, <2>3 DEF q, n
<1>4. 0 \in 0..Len(t.msgs) /\ 0 + 1 = 1 /\ t.lc <= 0 + s.lc
  BY <1>1
<1>. QED  BY <1>3, <1>4 DEF Sees

\* The cursor of the session may move forward, that of the object may not.
LEMMA SeesForward ==
    ASSUME NEW s \in Session, NEW r \in Session, NEW t \in Session, NEW v \in Session,
           Sees(t, s), r.msgs = s.msgs, r.lc >= s.lc, v.msgs = t.msgs, v.lc = t.lc
    PROVE  Sees(v, r)
<1>1. s.lc \in Nat /\ r.lc \in Nat /\ t.lc \in Nat /\ Len(t.msgs) \in Nat
  BY SessionFields
<1>2. PICK d \in 0..Len(t.msgs) : /\ s.msgs = SubSeq(t.msgs, d + 1, Len(t.msgs))
                                  /\ t.lc <= d + s.lc
  BY DEF Sees
<1>3. v.lc <= d + r.lc
  BY <1>1, <1>2
<1>. QED  BY <1>2, <1>3 DEF Sees

\* The end of an end.
LEMMA EndOfEnd ==
    ASSUME NEW q \in Seq(Message), NEW d \in Nat, NEW n \in Nat,
           NEW p, p = SubSeq(q, d + 1, Len(q)), d <= Len(q), n <= Len(p)
    PROVE  /\ d + n <= Len(q) /\ p \in Seq(Message) /\ Len(q) = d + Len(p)
           /\ SubSeq(p, n + 1, Len(p)) = SubSeq(q, (d + n) + 1, Len(q))
<1>1. Len(q) \in Nat
  BY LenProperties
<1> DEFINE m == d + 1
           l == Len(q)
<1>2. m \in Nat /\ l \in Nat /\ m >= 1 /\ l <= Len(q) /\ p = SubSeq(q, m, l)
  BY <1>1
<1>3. /\ p \in Seq(Message)
      /\ Len(p) = IF m <= l THEN l - m + 1 ELSE 0
      /\ \A i \in 1..Len(p) : p[i] = q[m + i - 1]
  <2> HIDE DEF m, l
  <2> DEFINE r == SubSeq(q, m, l)
  <2>1. /\ r \in Seq(Message)
        /\ Len(r) = IF m <= l THEN l - m + 1 ELSE 0
        /\ \A i \in 1..Len(r) : r[i] = q[m + i - 1]
    BY <1>2, Part
  <2>2. p = r
    BY <1>2
  <2> HIDE DEF r
  <2>. QED  BY <2>1, <2>2
<1>4. Len(p) \in Nat /\ Len(q) = d + Len(p) /\ d + n <= Len(q)
  BY <1>1, <1>3
<1>5. \A i \in 1..Len(p) : p[i] = q[d + i]
  <2>1. \A i \in 1..Len(p) : m + i - 1 = d + i
    BY <1>4
  <2> HIDE DEF m
  <2>. QED  BY <1>3, <2>1
<1> DEFINE m1 == n + 1
           l1 == Len(p)
           m2 == (d + n) + 1
           a == SubSeq(p, m1, l1)
           b == SubSeq(q, m2, l)
<1>6. /\ m1 \in Nat /\ l1 \in Nat /\ m1 >= 1 /\ l1 <= Len(p)
      /\ m2 \in Nat /\ l \in Nat /\ m2 >= 1 /\ l <= Len(q)
  BY <1>4
<1>7. /\ a \in Seq(Message)
      /\ Len(a) = IF m1 <= l1 THEN l1 - m1 + 1 ELSE 0
      /\ \A i \in 1..Len(a) : a[i] = p[m1 + i - 1]
  <2> HIDE DEF m1, l1
  <2>. QED  BY <1>3, <1>6, Part
<1>8. /\ b \in Seq(Message)
      /\ Len(b) = IF m2 <= l THEN l - m2 + 1 ELSE 0
      /\ \A i \in 1..Len(b) : b[i] = q[m2 + i - 1]
  <2> HIDE DEF m2, l
  <2>. QED  BY <1>6, Part
<1> HIDE DEF a, b
<1>9. Len(a) = Len(b) /\ Len(a) \in Nat
  <2>1. Len(a) \in Nat /\ Len(b) \in Nat
    BY <1>7, <1>8, LenProperties
  <2>2. /\ m1 \in Nat /\ l1 \in Nat /\ m2 \in Nat /\ l \in Nat
        /\ m2 = d + m1 /\ l = d + l1
    BY <1>4, <1>6
  <2> HIDE DEF m1, l1, m2, l
  <2>. QED  BY <1>7, <1>8, <2>1, <2>2
<1>10. ASSUME NEW i \in 1..Len(a) PROVE a[i] = b[i]
  <2>1. a[i] = p[m1 + i - 1] /\ b[i] = q[m2 + i - 1]
    <3> HIDE DEF m1, m2
    <3>. QED  BY <1>7, <1>8, <1>9
  <2>2. m1 + i - 1 = n + i /\ n + i \in 1..Len(p)
    BY <1>4, <1>7, <1>9
  <2>3. m2 + i - 1 = d + (n + i)
    OBVIOUS
  <2> HIDE DEF m1, m2
  <2>. QED  BY <1>5, <2>1, <2>2, <2>3
<1>11. a = b
  BY <1>7, <1>8, <1>9, <1>10, SeqEqual
<1>. QED  BY <1>3, <1>4, <1>11 DEF a, b

\* What compaction keeps of the session is in the object still.
LEMMA SeesCut ==
    ASSUME NEW t \in Session, NEW h \in Session, Sees(t, h), NEW r \in Session,
           Follows(r.msgs, h), r.lc = 0
    PROVE  Sees(t, r)
<1>1. /\ t.msgs \in Seq(Message) /\ t.lc \in Nat /\ Len(t.msgs) \in Nat
      /\ h.lc \in Nat /\ Len(h.msgs) \in Nat
  BY SessionFields
<1>2. PICK d \in 0..Len(t.msgs) : /\ h.msgs = SubSeq(t.msgs, d + 1, Len(t.msgs))
                                  /\ t.lc <= d + h.lc
  BY DEF Sees
<1>3. PICK n \in h.lc..Len(h.msgs) : r.msgs = SubSeq(h.msgs, n + 1, Len(h.msgs))
  BY DEF Follows
<1> DEFINE q == t.msgs
           p == h.msgs
           k == d + n
<1>4. q \in Seq(Message) /\ d \in Nat /\ n \in Nat /\ d <= Len(q) /\ n <= Len(p)
      /\ p = SubSeq(q, d + 1, Len(q))
  BY <1>1, <1>2, <1>3
<1>5. k <= Len(q) /\ SubSeq(p, n + 1, Len(p)) = SubSeq(q, k + 1, Len(q))
  <2> HIDE DEF q, p
  <2>. QED  BY <1>4, EndOfEnd
<1>6. k \in 0..Len(t.msgs) /\ t.lc <= k + r.lc
  BY <1>1, <1>2, <1>3, <1>5
<1>. QED  BY <1>3, <1>5, <1>6 DEF Sees

\* From a user message within the window of the session on, the object shows
\* everything, and the delivery just before it.
LEMMA Seen ==
    ASSUME NEW t \in Session, NEW s \in Session, Sees(t, s),
           NEW u \in Users(s, s.lc), u + Window >= Len(s.msgs),
           NEW i \in 1..Len(s.msgs),
           \/ u < i
           \/ u = i /\ u > s.lc /\ u + Window > Len(s.msgs) /\ s.msgs[u].kind = "delivery"
    PROVE  s.msgs[i].id \in Ids(Replayed(t))
<1>1. /\ t.lc \in Nat /\ Len(t.msgs) \in Nat /\ s.lc \in Nat /\ Len(s.msgs) \in Nat
      /\ Window \in Nat
  BY SessionFields, ConsolidationAssumption
<1>2. PICK d \in Nat : /\ Len(t.msgs) = d + Len(s.msgs)
                       /\ \A j \in 1..Len(s.msgs) : s.msgs[j] = t.msgs[d + j]
                       /\ t.lc <= d + s.lc
  BY SeesFields
<1>3. u \in Nat /\ u >= s.lc /\ u < Len(s.msgs) /\ FromUser(s.msgs[u + 1])
  BY <1>1, UsersAre DEF Users
<1> DEFINE x == d + u
<1>4. x \in Nat /\ x \in t.lc..(Len(t.msgs) - 1) /\ x + Window >= Len(t.msgs)
  <2> DEFINE l == Len(t.msgs)
             n == Len(s.msgs)
             c == t.lc
             e == s.lc
  <2>1. l \in Nat /\ n \in Nat /\ c \in Nat /\ e \in Nat /\ Window \in Nat
    BY <1>1
  <2>2. l = d + n /\ c <= d + e
    BY <1>2
  <2>3. u \in Nat /\ u >= e /\ u < n /\ u + Window >= n
    BY <1>3
  <2> HIDE DEF l, n, c, e
  <2>4. x \in Nat /\ c <= x /\ x <= l - 1 /\ x + Window >= l
    BY <2>1, <2>2, <2>3
  <2>5. x \in c..(l - 1)
    BY <2>1, <2>4
  <2>. QED  BY <2>4, <2>5 DEF l, c
<1>5. x \in Users(t, t.lc)
  <2>1. u + 1 \in 1..Len(s.msgs) /\ d + (u + 1) = x + 1
    BY <1>1, <1>3
  <2>2. FromUser(t.msgs[x + 1])
    BY <1>2, <1>3, <2>1
  <2> HIDE DEF x
  <2>. QED  BY <1>4, <2>2 DEF Users
<1> DEFINE start == WindowStart(t, Window, FALSE)
<1>6. /\ start \in Nat /\ t.lc < Len(t.msgs) /\ start <= x
      /\ x > t.lc /\ x + Window > Len(t.msgs) /\ t.msgs[x].kind = "delivery" => start < x
  <2> HIDE DEF x
  <2>. QED  BY <1>4, <1>5, WindowOpens
<1>7. start < d + i
  <2> HIDE DEF start
  <2>1. CASE u < i
    BY <1>3, <1>6, <2>1
  <2>2. CASE u = i /\ u > s.lc /\ u + Window > Len(s.msgs) /\ s.msgs[u].kind = "delivery"
    <3>1. t.msgs[x].kind = "delivery"
      BY <1>2, <2>2
    <3>2. x > t.lc /\ x + Window > Len(t.msgs)
      BY <1>1, <1>2, <1>3, <2>2
    <3>. QED  BY <1>6, <2>2, <3>1, <3>2
  <2>. QED  BY <2>1, <2>2
<1>8. d + i \in 1..Len(t.msgs)
  BY <1>1, <1>2
<1> DEFINE j == d + i
<1>9. t.msgs[j].id \in Ids(Replayed(t))
  <2>1. j \in 1..Len(t.msgs) /\ start < j /\ t.lc < Len(t.msgs) /\ start \in Nat
    BY <1>6, <1>7, <1>8
  <2> HIDE DEF j
  <2>. QED  BY <2>1, Shown
<1>. QED  BY <1>2, <1>9

-----------------------------------------------------------------------------
(* Where a consolidation stops.                                            *)

\* The window reaches back to the cursor, or the last turn exceeds it.
Within(s) == s.lc + Window >= Len(s.msgs) \/ Alone(s)

LEMMA OverflowOpens ==
    ASSUME NEW s \in Session, s.lc + Window < Len(s.msgs)
    PROVE  \/ Alone(s)
           \/ /\ OverflowEnd(s) \in Nat /\ OverflowEnd(s) > s.lc
              /\ OverflowEnd(s) + Window >= Len(s.msgs) /\ Opens(s, OverflowEnd(s))
<1> DEFINE len == Len(s.msgs)
           low == IF len - s.lc <= Window THEN s.lc ELSE len - Window
           inside == Users(s, low)
<1>1. s.lc \in Nat /\ len \in Nat /\ Window \in Nat \ {0}
  BY SessionFields, ConsolidationAssumption
<1>2. low \in Nat /\ low = len - Window /\ low > s.lc
  BY <1>1
<1>3. OverflowEnd(s) = WindowStart(s, Window, TRUE)
  <2>1. ~(s.lc + Window >= len)
    BY <1>1
  <2>. QED  BY <2>1 DEF OverflowEnd
<1>4. inside # {} => WindowStart(s, Window, TRUE) = WithDelivery(s, Least(inside), low)
  BY DEF WindowStart
<1> HIDE DEF low
<1>5. CASE inside = {}
  <2>1. ASSUME NEW u \in Users(s, 0) PROVE u + Window < len
    <3>1. u \in Nat /\ u < len /\ FromUser(s.msgs[u + 1])
      BY <1>1, UsersAre DEF Users
    <3>2. u \notin low..(len - 1)
      BY <1>5, <3>1 DEF Users
    <3>. QED  BY <1>1, <1>2, <3>1, <3>2
  <2>. QED  BY <2>1 DEF Alone
<1>6. CASE inside # {}
  <2> DEFINE u == Least(inside)
             e == WithDelivery(s, u, low)
  <2>1. inside \in SUBSET Nat /\ \A i \in inside : i >= low /\ i < len
    BY <1>2, UsersAre
  <2>2. u \in inside
    BY <1>6, <2>1, LeastIs
  <2>3. OverflowEnd(s) = e
    BY <1>3, <1>4, <1>6
  <2>4. u \in Nat /\ u >= low /\ u < len
    BY <2>1, <2>2
  <2>5. u \in Users(s, 0)
    <3>1. FromUser(s.msgs[u + 1])
      BY <2>2 DEF Users
    <3> HIDE DEF u
    <3>2. u \in 0..(len - 1)
      BY <1>1, <2>4
    <3>. QED  BY <3>1, <3>2 DEF Users
  <2> HIDE DEF u
  <2>6. \/ e = u
        \/ u > low /\ s.msgs[u].kind = "delivery" /\ e = u - 1
    BY DEF WithDelivery
  <2> HIDE DEF e
  <2>7. e \in Nat /\ e >= low
    BY <1>2, <2>4, <2>6
  <2>8. Opens(s, e)
    <3>1. CASE e = u
      BY <2>5, <3>1 DEF Opens
    <3>2. CASE u > low /\ s.msgs[u].kind = "delivery" /\ e = u - 1
      <4>1. e + 1 = u
        BY <2>4, <3>2
      <4>. QED  BY <2>5, <3>2, <4>1 DEF Opens
    <3>. QED  BY <2>6, <3>1, <3>2
  <2>9. e > s.lc /\ e + Window >= len
    BY <1>1, <1>2, <2>7
  <2>. QED  BY <2>3, <2>7, <2>8, <2>9
<1>. QED  BY <1>5, <1>6

\* The pass over what the window hides ends at a frontier; where there is
\* nothing to do for it, the window reaches back to the cursor.
LEMMA OverflowAims ==
    ASSUME NEW s \in Session
    PROVE  /\ OverflowEnd(s) > s.lc => Frontier(s, OverflowEnd(s))
           /\ ~(OverflowEnd(s) > s.lc) => Within(s)
<1>1. s.lc \in Nat /\ Len(s.msgs) \in Nat /\ Window \in Nat
  BY SessionFields, ConsolidationAssumption
<1>2. CASE s.lc + Window >= Len(s.msgs)
  <2>1. OverflowEnd(s) = s.lc
    BY <1>2 DEF OverflowEnd
  <2>. QED  BY <1>1, <1>2, <2>1 DEF Within
<1>3. CASE s.lc + Window < Len(s.msgs)
  BY <1>3, OverflowOpens DEF Frontier, Within
<1>. QED  BY <1>1, <1>2, <1>3

\* A later boundary of a session the window covers is a frontier too.
LEMMA RoundAims ==
    ASSUME NEW s \in Session, Within(s), NEW e \in Boundaries(s)
    PROVE  e \in Nat /\ s.lc <= e /\ Frontier(s, e)
<1>1. s.lc \in Nat /\ Len(s.msgs) \in Nat /\ Window \in Nat
  BY SessionFields, ConsolidationAssumption
<1>2. e \in Users(s, s.lc) /\ e > s.lc
  BY DEF Boundaries
<1>3. e \in Nat /\ e < Len(s.msgs) /\ FromUser(s.msgs[e + 1])
  BY <1>1, <1>2, UsersAre DEF Users
<1>4. e \in Users(s, 0)
  <2>1. e \in 0..(Len(s.msgs) - 1)
    BY <1>1, <1>3
  <2>. QED  BY <1>3, <2>1 DEF Users
<1>5. s.lc + Window >= Len(s.msgs) => e + Window >= Len(s.msgs)
  BY <1>1, <1>2, <1>3
<1>. QED  BY <1>1, <1>2, <1>3, <1>4, <1>5 DEF Within, Frontier, Opens

\* Where a session stands at a frontier the window covers it.
LEMMA FrontierWithin ==
    ASSUME NEW h, NEW s, s.msgs = h.msgs, Frontier(h, s.lc)
    PROVE  Within(s)
<1>1. Users(s, 0) = Users(h, 0)
  BY DEF Users
<1>. QED  BY <1>1 DEF Frontier, Within, Alone

-----------------------------------------------------------------------------
(* What is shown, and what was archived.                                   *)

\* Nothing was archived because the window covers all behind the cursor.
LEMMA ConversationShown ==
    ASSUME NEW t \in Session, NEW s \in Session, Sees(t, s),
           s.lc + Window >= Len(s.msgs)
    PROVE  Conversation(s) \subseteq Ids(Replayed(t))
<1>1. s.lc \in Nat /\ Len(s.msgs) \in Nat /\ Window \in Nat
  BY SessionFields, ConsolidationAssumption
<1>. SUFFICES ASSUME NEW i \in 1..Len(s.msgs), NEW u \in Users(s, s.lc), u < i
              PROVE  s.msgs[i].id \in Ids(Replayed(t))
  BY DEF Conversation
<1>2. u \in Nat /\ u >= s.lc
  BY <1>1, UsersAre
<1>3. u + Window >= Len(s.msgs)
  BY <1>1, <1>2
<1>. QED  BY <1>3, Seen

\* What was archived up to a frontier, and the window shows the rest.
LEMMA ArchivedShown ==
    ASSUME NEW t \in Session, NEW h \in Session, NEW s \in Session,
           s.msgs = h.msgs, h.lc <= s.lc, s.lc <= Len(h.msgs), Sees(t, s),
           s.lc + Window >= Len(h.msgs), Opens(h, s.lc)
    PROVE  Conversation(h) \subseteq Ids(SubSeq(h.msgs, h.lc + 1, s.lc)) \cup Ids(Replayed(t))
<1>1. /\ s.lc \in Nat /\ h.lc \in Nat /\ Len(h.msgs) \in Nat /\ Window \in Nat
      /\ h.msgs \in Seq(Message)
  BY SessionFields, ConsolidationAssumption
<1>. SUFFICES ASSUME NEW i \in 1..Len(h.msgs), NEW v \in Users(h, h.lc), v < i,
                     i \notin (h.lc + 1)..s.lc
              PROVE  h.msgs[i].id \in Ids(Replayed(t))
  <2> DEFINE m == h.lc + 1
             n == s.lc
             q == h.msgs
  <2>1. m \in Nat /\ n \in Nat /\ m >= 1 /\ n <= Len(q) /\ q \in Seq(Message)
    BY <1>1
  <2>2. Ids(SubSeq(q, m, n)) = {q[i].id : i \in m..n}
    <3> HIDE DEF m, n, q
    <3>. QED  BY <2>1, Part
  <2>. QED  BY <2>2 DEF Conversation
<1>2. v \in Nat /\ v >= h.lc
  BY <1>1, UsersAre
<1>3. i > s.lc
  BY <1>1, <1>2
<1>4. \A n : Users(s, n) = Users(h, n)
  BY DEF Users
<1>5. \A u \in Users(s, 0) : u \in Nat /\ (u >= s.lc => u \in Users(s, s.lc))
  <2>. TAKE u \in Users(s, 0)
  <2>1. u \in 0..(Len(s.msgs) - 1) /\ FromUser(s.msgs[u + 1])
    BY DEF Users
  <2>. QED  BY <1>1, <2>1 DEF Users
<1>6. CASE s.lc \in Users(h, 0)
  <2> DEFINE u == s.lc
  <2>1. u \in Users(s, s.lc) /\ u + Window >= Len(s.msgs) /\ u < i /\ i \in 1..Len(s.msgs)
    BY <1>1, <1>3, <1>4, <1>5, <1>6
  <2> HIDE DEF u
  <2>2. s.msgs[i].id \in Ids(Replayed(t))
    BY <2>1, Seen
  <2>. QED  BY <2>2
<1>7. CASE s.lc + 1 \in Users(h, 0) /\ h.msgs[s.lc + 1].kind = "delivery"
  <2> DEFINE u == s.lc + 1
  <2>1. /\ u \in Users(s, s.lc) /\ u > s.lc /\ u + Window > Len(s.msgs)
        /\ u + Window >= Len(s.msgs) /\ i \in 1..Len(s.msgs)
        /\ s.msgs[u].kind = "delivery" /\ (u < i \/ u = i)
    BY <1>1, <1>3, <1>4, <1>5, <1>7
  <2> HIDE DEF u
  <2>2. s.msgs[i].id \in Ids(Replayed(t))
    BY <2>1, Seen
  <2>. QED  BY <2>2
<1>. QED  BY <1>6, <1>7 DEF Opens

-----------------------------------------------------------------------------
(* What compaction keeps.                                                  *)

LEMMA KeptIsEnd ==
    ASSUME NEW s \in Session, NEW n \in Nat \ {0}, Len(s.msgs) > n
    PROVE  \E lo \in Nat : lo < Len(s.msgs) /\ Kept(s, n, TRUE) = lo..(Len(s.msgs) - 1)
<1> DEFINE len == Len(s.msgs)
           low == len - n
           before == {i \in Users(s, 0) : i <= low}
           start == IF TRUE /\ before # {} THEN Most(before) ELSE low
           inside == Users(s, start)
<1>1. len \in Nat /\ low \in Nat /\ low < len
  BY SessionFields
<1>2. Kept(s, n, TRUE) =
        IF inside # {} THEN Least(inside)..(len - 1) ELSE start..(len - 1)
  <2>1. ~(len <= n)
    BY <1>1
  <2>. QED  BY <2>1 DEF Kept
<1>3. start \in Nat /\ start < len
  <2>1. /\ Users(s, 0) \in SUBSET (0..len) /\ \A i \in Users(s, 0) : i \in Nat /\ i < len
    BY UsersAre
  <2> HIDE DEF low
  <2>2. before \in SUBSET (0..len) /\ \A i \in before : i \in Nat /\ i < len
    BY <2>1
  <2> HIDE DEF before
  <2>3. CASE before # {}
    <3>1. Most(before) \in before
      BY <1>1, <2>2, <2>3, MostIs
    <3>. QED  BY <2>2, <2>3, <3>1
  <2>4. CASE before = {}
    BY <1>1, <2>4
  <2>. QED  BY <2>3, <2>4
<1> HIDE DEF start
<1>4. inside \in SUBSET Nat /\ \A i \in inside : i \in Nat /\ i < len
  BY <1>3, UsersAre
<1> HIDE DEF low, before, inside
<1>5. CASE inside # {}
  <2>1. Least(inside) \in Nat /\ Least(inside) < len
    BY <1>4, <1>5, LeastIs
  <2>. QED  BY <1>2, <1>5, <2>1
<1>6. CASE inside = {}
  BY <1>2, <1>3, <1>6
<1>. QED  BY <1>5, <1>6

LEMMA CutFollows ==
    ASSUME NEW h \in Session, h.lc <= Len(h.msgs)
    PROVE  Follows(Retained(Probe(h), IdleSuffix, TRUE).msgs, h)
<1> DEFINE probe == Probe(h)
           cut == Retained(probe, IdleSuffix, TRUE)
           q == h.msgs
           p == Tail_(h)
<1>1. q \in Seq(Message) /\ Len(q) \in Nat /\ h.lc \in Nat /\ IdleSuffix \in Nat \ {0}
  BY SessionFields, ConsolidationAssumption
<1>2. p \in Seq(Message) /\ Len(p) \in Nat /\ p = SubSeq(q, h.lc + 1, Len(q))
  BY BehindIds, LenProperties DEF Tail_
<1>3. probe \in Session /\ probe.msgs = p /\ probe.lc = 0
  BY <1>2 DEF Probe, Session
<1> HIDE DEF probe
<1>4. CASE Len(p) <= IdleSuffix
  <2>1. cut = probe
    BY <1>3, <1>4 DEF Retained
  <2>2. h.lc \in h.lc..Len(h.msgs)
    BY <1>1
  <2>. QED  BY <1>2, <1>3, <2>1, <2>2 DEF Follows, probe
<1>5. CASE ~(Len(p) <= IdleSuffix)
  <2>1. Len(probe.msgs) > IdleSuffix
    BY <1>1, <1>2, <1>3, <1>5
  <2>2. PICK lo \in Nat : /\ lo < Len(probe.msgs)
                          /\ Kept(probe, IdleSuffix, TRUE) = lo..(Len(probe.msgs) - 1)
    BY <1>1, <1>3, <2>1, KeptIsEnd
  <2> DEFINE hi == Len(p) - 1
  <2>3. lo \in Nat /\ hi \in Nat /\ lo <= hi /\ hi + 1 = Len(p)
        /\ Kept(probe, IdleSuffix, TRUE) = lo..hi
    <3>1. lo < Len(p) /\ Kept(probe, IdleSuffix, TRUE) = lo..hi
      BY <1>3, <2>2
    <3> HIDE DEF p
    <3>2. hi \in Nat /\ lo <= hi /\ hi + 1 = Len(p)
      BY <1>2, <3>1
    <3>. QED  BY <3>1, <3>2
  <2> HIDE DEF hi
  <2>4. Least(lo..hi) = lo /\ Most(lo..hi) = hi
    <3>1. lo..hi \in SUBSET Nat /\ lo..hi \in SUBSET (0..hi) /\ lo \in lo..hi /\ hi \in lo..hi
      BY <2>3
    <3>2. Least(lo..hi) \in lo..hi /\ \A l \in lo..hi : Least(lo..hi) <= l
      BY <3>1, LeastIs
    <3>3. Most(lo..hi) \in lo..hi /\ \A l \in lo..hi : l <= Most(lo..hi)
      BY <2>3, <3>1, MostIs
    <3> DEFINE a == Least(lo..hi)
               b == Most(lo..hi)
    <3>4. a \in lo..hi /\ a <= lo /\ b \in lo..hi /\ hi <= b
      BY <3>1, <3>2, <3>3
    <3> HIDE DEF a, b
    <3>5. a = lo /\ b = hi
      BY <2>3, <3>4
    <3>. QED  BY <3>5 DEF a, b
  <2>5. cut.msgs = SubSeq(p, lo + 1, Len(p))
    <3>1. ~(Len(probe.msgs) <= IdleSuffix)
      BY <1>3, <1>5
    <3>2. cut = [probe EXCEPT !.msgs = SubSeq(p, Least(lo..hi) + 1, Most(lo..hi) + 1),
                              !.lc = Cardinality({i \in lo..hi : i < probe.lc})]
      BY <1>3, <2>3, <3>1 DEF Retained
    <3> DEFINE keep == SubSeq(p, Least(lo..hi) + 1, Most(lo..hi) + 1)
               c == Cardinality({i \in lo..hi : i < probe.lc})
    <3>3. keep = SubSeq(p, lo + 1, Len(p))
      BY <2>3, <2>4
    <3>4. cut = [probe EXCEPT !.msgs = keep, !.lc = c]
      BY <3>2
    <3> HIDE DEF keep, c, cut
    <3>5. cut.msgs = keep
      BY <1>3, <3>4 DEF Session
    <3>. QED  BY <3>3, <3>5
  <2> DEFINE d == h.lc
             m == d + lo
  <2>6. /\ d \in Nat /\ d <= Len(q) /\ lo \in Nat /\ lo <= Len(p)
        /\ p = SubSeq(q, d + 1, Len(q))
    BY <1>1, <1>2, <2>3
  <2>7. m <= Len(q) /\ SubSeq(p, lo + 1, Len(p)) = SubSeq(q, m + 1, Len(q))
    <3> HIDE DEF d, q, p
    <3>. QED  BY <1>1, <2>6, EndOfEnd
  <2>8. m \in h.lc..Len(h.msgs)
    BY <1>1, <2>6, <2>7
  <2> HIDE DEF m, cut
  <2>9. cut.msgs = SubSeq(h.msgs, m + 1, Len(h.msgs))
    BY <2>5, <2>7
  <2>. QED  BY <2>8, <2>9 DEF Follows, cut, probe
<1>. QED  BY <1>4, <1>5

-----------------------------------------------------------------------------
(* The cache and the file.                                                 *)

Stores == Worlds(Nat, TRUE, TRUE)

LEMMA StoreFields ==
    ASSUME NEW w \in Stores
    PROVE  /\ w.cached \in Obj \cup {None} /\ w.disk \in Session
           /\ \A o \in Obj : w.heap[o] \in Session
           /\ w = [heap |-> w.heap, cached |-> w.cached, disk |-> w.disk]
           /\ w.heap \in [Obj -> Alive(Nat, TRUE)]
BY WorldIs, WorldSessions DEF Stores

LEMMA SessionAlive ==
    ASSUME NEW s \in Session
    PROVE  s \in Alive(Nat, TRUE)
<1>1. s.msgs \in Seq(Message) /\ s.sum \in Nat /\ MaxMessages \in Nat
  BY SessionFields, ConsolidationAssumption
<1>2. Ids(s.msgs) \subseteq 1..MaxMessages
  BY <1>1, IdsInMessages
<1>3. Ids(s.msgs) \subseteq Nat
  BY <1>1, <1>2
<1>. QED  BY <1>1, <1>3 DEF Alive, Made

LEMMA StoreTyped ==
    ASSUME Inv
    PROVE  store \in Stores
<1> DEFINE A == Current
           B == Nat
           c == crossed
           d == TRUE
           k == Crashed
<1>1. store \in Worlds(A, c, k) /\ A \subseteq B /\ c \in BOOLEAN /\ k \in BOOLEAN
      /\ d \in BOOLEAN /\ (c => d) /\ (k => d)
  BY Numbers DEF Inv, Sound, Current, Crashed
<1> HIDE DEF A, B, c, d, k
<1>2. store \in Worlds(B, d, d)
  BY <1>1, WorldsGrow
<1>. QED  BY <1>2 DEF Stores, B, d

LEMMA WriteStores ==
    ASSUME NEW w \in Stores, NEW o \in Obj, NEW s \in Session
    PROVE  LET v == Write(w, o, s)
           IN  /\ v \in Stores /\ v.cached = o /\ v.disk = s /\ v.heap[o] = s
               /\ \A x \in Obj : x # o => v.heap[x] = w.heap[x]
               /\ Agrees(v)
<1> DEFINE A == Nat
           c == TRUE
           v == Write(w, o, s)
<1>1. w \in Worlds(A, c, c) /\ c \in BOOLEAN /\ s \in Alive(A, c)
  BY SessionAlive DEF Stores
<1> HIDE DEF A, c
<1>2. /\ v \in Worlds(A, c, c) /\ v.cached = o /\ v.disk = s /\ v.heap[o] = s
      /\ \A x \in Obj : x # o => v.heap[x] = w.heap[x]
  BY <1>1, WriteMade
<1> HIDE DEF v
<1>3. v \in Stores /\ Agrees(v)
  BY <1>2 DEF Stores, Agrees, A, c
<1>. QED  BY <1>2, <1>3 DEF v

LEMMA SettleStores ==
    ASSUME NEW w \in Stores, Settle(w)
    PROVE  /\ store'.cached = w.cached /\ store'.disk = w.disk
           /\ \A o \in Obj : o \in {w.cached, turn'.obj, job'.obj} =>
                                store'.heap[o] = w.heap[o]
           /\ Agrees(w) => CacheIsFile'
<1> DEFINE A == Nat
           c == TRUE
<1>1. w \in Worlds(A, c, c) /\ c \in BOOLEAN
  BY DEF Stores
<1> HIDE DEF A, c
<1>2. /\ store'.cached = w.cached /\ store'.disk = w.disk
      /\ \A o \in Obj : o \in {w.cached, turn'.obj, job'.obj} => store'.heap[o] = w.heap[o]
  BY <1>1, SettleMade
<1>3. Agrees(w) => CacheIsFile'
  <2>1. w.cached # None => w.cached \in Obj
    BY StoreFields
  <2>. QED  BY <1>2, <2>1 DEF Agrees, CacheIsFile
<1>. QED  BY <1>2, <1>3

\* The cursor a load would reset is the same for the cached object and the file.
LEMMA LoadedAgrees ==
    ASSUME NEW d \in Session, NEW x \in {d, Loaded(d)}, NEW y \in Session,
           y.msgs = x.msgs, y.lc = x.lc
    PROVE  Loaded(y).msgs = Loaded(d).msgs /\ Loaded(y).lc = Loaded(d).lc
<1>1. \A s \in Session : /\ s.lc \in Nat /\ Len(s.msgs) \in Nat
                         /\ Loaded(s).msgs = s.msgs
                         /\ Loaded(s).lc = IF s.lc > Len(s.msgs) THEN 0 ELSE s.lc
  BY SessionFields DEF Loaded, Session
<1>2. Loaded(d) \in Session
  BY LoadedMade
<1>3. x \in Session /\ x.msgs = d.msgs /\ Loaded(x).lc = Loaded(d).lc
  BY <1>1, <1>2
<1>4. Loaded(y).lc = Loaded(x).lc
  BY <1>1, <1>3
<1>. QED  BY <1>1, <1>3, <1>4

LEMMA CursorFits ==
    ASSUME NEW d \in Session, NEW x \in {d, Loaded(d)}, x.lc <= Len(x.msgs)
    PROVE  x = Loaded(d)
<1>1. d.lc \in Nat /\ Len(d.msgs) \in Nat
  BY SessionFields
<1>2. x = d => ~(d.lc > Len(d.msgs))
  BY <1>1
<1>. QED  BY <1>2 DEF Loaded

\* get_or_create: what it returns, and that it disturbs nobody.
LEMMA FetchStores ==
    ASSUME Inv, CacheIsFile
    PROVE  LET v == Fetch(store)
           IN  /\ v \in Stores /\ v.cached \in Obj /\ v.disk = store.disk
               /\ Agrees(v)
               /\ turn.pc # "idle" => v.heap[turn.obj] = store.heap[turn.obj]
               /\ Awaiting => v.heap[job.obj] = store.heap[job.obj]
               /\ ~crossed => /\ v.heap[v.cached] = Loaded(store.disk)
                              /\ Awaiting => job.obj = v.cached
<1> DEFINE v == Fetch(store)
<1>1. /\ v \in Worlds(Current, crossed, Crashed)
      /\ v.cached \in Obj /\ v.disk = store.disk
      /\ store.cached # None => v = store
      /\ ~crossed => (Awaiting => job.obj = v.cached)
  BY FetchSound
<1>2. store \in Stores
  BY StoreTyped
<1>3. /\ turn.obj \in Obj \cup {None} /\ job.obj \in Obj \cup {None} /\ crossed \in BOOLEAN
      /\ turn.pc # "idle" => turn.obj \in Obj
      /\ Awaiting => job.obj \in Obj
  BY Numbers DEF Awaiting
<1>4. /\ v \in Stores
      /\ store.cached = None =>
           /\ v.cached \notin Refs /\ v.heap[v.cached] = Loaded(store.disk)
           /\ \A o \in Obj : o # v.cached => v.heap[o] = store.heap[o]
  <2>1. store.cached = None => \E o \in Obj : o \notin Refs
    <3>1. ASSUME store.cached = None PROVE \E o \in Obj : o # turn.obj /\ o # job.obj
      BY <1>3, ConsolidationAssumption
    <3>. QED  BY <3>1, ConsolidationAssumption DEF Refs
  <2> DEFINE A == Nat
             c == TRUE
             w == store
  <2>2. w \in Worlds(A, c, c) /\ c \in BOOLEAN /\ (w.cached = None => \E o \in Obj : o \notin Refs)
    BY <1>2, <2>1 DEF Stores
  <2> HIDE DEF A, c, w, v
  <2> DEFINE u == Fetch(w)
  <2>3. /\ u \in Worlds(A, c, c)
        /\ w.cached = None =>
             /\ u.cached \notin Refs /\ u.heap[u.cached] = Loaded(w.disk)
             /\ \A o \in Obj : o # u.cached => u.heap[o] = w.heap[o]
    BY <2>2, FetchMade
  <2>. QED  BY <2>3 DEF Stores, A, c, w, v
<1> HIDE DEF v
<1>5. /\ turn.pc # "idle" => v.heap[turn.obj] = store.heap[turn.obj]
      /\ Awaiting => v.heap[job.obj] = store.heap[job.obj]
  <2>1. CASE store.cached # None
    BY <1>1, <2>1
  <2>2. CASE store.cached = None
    <3>1. /\ turn.pc # "idle" => turn.obj \in Refs
          /\ Awaiting => job.obj \in Refs
      BY <1>3, ConsolidationAssumption DEF Refs
    <3>. QED  BY <1>3, <1>4, <2>2, <3>1
  <2>. QED  BY <2>1, <2>2
<1>6. v.heap[v.cached] \in {store.disk, Loaded(store.disk)} /\ Agrees(v)
  BY <1>1, <1>4 DEF CacheIsFile, Agrees
<1>7. ASSUME ~crossed PROVE v.heap[v.cached] = Loaded(store.disk)
  <2>1. v.heap[v.cached] \in Alive(Current, crossed)
    BY <1>1, WorldIs
  <2>2. v.heap[v.cached].lc <= Len(v.heap[v.cached].msgs)
    BY <1>3, <1>7, <2>1, AliveIs
  <2>3. store.disk \in Session
    BY <1>2, StoreFields
  <2>. QED  BY <1>6, <2>2, <2>3, CursorFits
<1>. QED  BY <1>1, <1>4, <1>5, <1>6, <1>7 DEF v

\* invalidate, then get_or_create.
LEMMA RefetchStores ==
    ASSUME Inv, job.pc = "none"
    PROVE  LET w == Fetch(Invalidate(store))
           IN  /\ w \in Stores /\ w.cached \in Obj /\ w.disk = store.disk
               /\ w.heap[w.cached] = Loaded(store.disk)
               /\ turn.pc # "idle" => /\ turn.obj # w.cached
                                      /\ w.heap[turn.obj] = store.heap[turn.obj]
<1> DEFINE v == Invalidate(store)
           w == Fetch(v)
           A == Nat
           c == TRUE
<1>1. store \in Worlds(A, c, c) /\ c \in BOOLEAN
  BY StoreTyped DEF Stores
<1>2. /\ w.cached \in Obj /\ w.cached \notin Refs /\ w.disk = store.disk
      /\ \A o \in Obj : o # w.cached => w.heap[o] = store.heap[o]
  BY RefetchSound
<1> HIDE DEF A, c
<1>3. v \in Worlds(A, c, c) /\ v.cached = None /\ v.disk = store.disk
  BY <1>1, InvalidateMade
<1>4. \E o \in Obj : o \notin Refs
  BY <1>2
<1> HIDE DEF v
<1>5. w \in Worlds(A, c, c) /\ w.heap[w.cached] = Loaded(v.disk)
  BY <1>1, <1>3, <1>4, FetchMade
<1> HIDE DEF w
<1>6. turn.pc # "idle" => /\ turn.obj # w.cached
                          /\ w.heap[turn.obj] = store.heap[turn.obj]
  <2>1. turn.pc # "idle" => turn.obj \in Obj /\ turn.obj \in Refs
    BY Numbers, ConsolidationAssumption DEF Refs
  <2>. QED  BY <1>2, <2>1
<1>7. w \in Stores /\ w.heap[w.cached] = Loaded(store.disk)
  BY <1>3, <1>5 DEF Stores, A, c
<1>. QED  BY <1>2, <1>6, <1>7 DEF v, w

-----------------------------------------------------------------------------
(* Steps after which no turn waits with an untouched session.              *)

LEMMA Quiet ==
    ASSUME Inv, PromptInv, NEW w \in Stores, Settle(w), Agrees(w),
           job' \in {job, NoJob}, ~Waiting',
           ~crossed' => ~crossed,
           ~crossed' /\ job' = job /\ Awaiting =>
               /\ w.heap[job.obj].lc = store.heap[job.obj].lc
               /\ job.pc = "compact" => w.heap[job.obj] = store.heap[job.obj]
    PROVE  PromptInv'
<1>1. /\ \A o \in Obj : o \in {w.cached, turn'.obj, job'.obj} => store'.heap[o] = w.heap[o]
      /\ CacheIsFile'
  BY SettleStores
<1>2. JobMoves'
  <2>1. CASE job' = NoJob
    BY <2>1 DEF JobMoves, Archives, NoJob
  <2>2. CASE job' = job /\ ~crossed' /\ Awaiting
    <3>1. /\ Archives => store.heap[job.obj].lc <= job.end
          /\ job.pc = "compact" => Follows(job.keep, store.heap[job.obj])
      BY <2>2 DEF PromptInv, JobMoves
    <3>2. job.obj \in Obj
      BY <2>2, Numbers DEF Awaiting
    <3>3. store'.heap[job'.obj] = w.heap[job.obj]
      BY <1>1, <2>2, <3>2
    <3>4. Archives' = Archives
      BY <2>2 DEF Archives
    <3>5. Archives' => store'.heap[job'.obj].lc <= job'.end
      BY <2>2, <3>1, <3>3, <3>4
    <3>6. job'.pc = "compact" => Follows(job'.keep, store'.heap[job'.obj])
      BY <2>2, <3>1, <3>3
    <3>. QED  BY <3>5, <3>6 DEF JobMoves
  <2>3. CASE job' = job /\ ~Awaiting
    BY <2>3 DEF JobMoves, Archives, Awaiting
  <2>4. CASE crossed'
    BY <2>4 DEF JobMoves
  <2>. QED  BY <2>1, <2>2, <2>3, <2>4
<1>3. TurnSees' /\ TurnArchives'
  BY DEF TurnSees, TurnArchives
<1>. QED  BY <1>1, <1>2, <1>3 DEF PromptInv

\* A session is saved; the awaited job, if any, has its object and is an archive.
LEMMA WriteQuiet ==
    ASSUME Inv, PromptInv, NEW v \in Stores, NEW o \in Obj, NEW p \in Session,
           Settle(Write(v, o, p)), job' = job, ~Waiting', ~crossed' => ~crossed,
           ~crossed' /\ Awaiting => /\ job.pc # "compact" /\ job.obj = o
                                    /\ p.lc = store.heap[o].lc
    PROVE  PromptInv'
<1> DEFINE w == Write(v, o, p)
<1>1. w \in Stores /\ w.heap[o] = p /\ Agrees(w)
  BY WriteStores
<1>2. Settle(w)
  OBVIOUS
<1> HIDE DEF w
<1>3. ~crossed' /\ job' = job /\ Awaiting =>
         /\ w.heap[job.obj].lc = store.heap[job.obj].lc
         /\ job.pc = "compact" => w.heap[job.obj] = store.heap[job.obj]
  BY <1>1
<1>4. job' \in {job, NoJob}
  OBVIOUS
<1>. QED  BY <1>1, <1>2, <1>3, <1>4, Quiet

\* A session in the cache, with messages added.
LEMMA PlusQuiet ==
    ASSUME Inv, PromptInv, NEW p \in Session,
           LET v == Fetch(store)
           IN  p.lc = v.heap[v.cached].lc /\ Settle(Write(v, v.cached, p)),
           job' = job, ~Waiting',
           ~crossed' => ~crossed /\ job.pc # "compact"
    PROVE  PromptInv'
<1> DEFINE v == Fetch(store)
           o == v.cached
<1>1. /\ v \in Stores /\ o \in Obj
      /\ Awaiting => v.heap[job.obj] = store.heap[job.obj]
      /\ ~crossed => (Awaiting => job.obj = o)
  BY FetchStores DEF PromptInv
<1>2. p.lc = v.heap[o].lc /\ Settle(Write(v, o, p))
  OBVIOUS
<1> HIDE DEF v, o
<1>3. ~crossed' /\ Awaiting => /\ job.pc # "compact" /\ job.obj = o
                               /\ p.lc = store.heap[o].lc
  BY <1>1, <1>2
<1>4. ~crossed' => ~crossed
  OBVIOUS
<1>. QED  BY <1>1, <1>2, <1>3, <1>4, WriteQuiet

LEMMA FetchedSession ==
    ASSUME Inv, PromptInv
    PROVE  LET v == Fetch(store) IN v.cached \in Obj /\ v.heap[v.cached] \in Session
BY FetchStores, StoreFields DEF PromptInv

LEMMA DeliverPrompt ==
    ASSUME Inv, PromptInv, Deliver
    PROVE  PromptInv'
<1> DEFINE v == Fetch(store)
           o == v.cached
           s == v.heap[o]
           p == Plus(s, "delivery", sent + 1)
<1>1. /\ Settle(Write(v, o, p)) /\ sent' = sent + 1 /\ turn' = turn /\ job' = job
      /\ crossed' = (crossed \/ job.pc = "compact" \/ (turn.pc # "idle" /\ turn.obj # o))
      /\ Room(IF turn.pc = "build" THEN 3 ELSE IF turn.pc = "run" THEN 2 ELSE 1)
  BY DEF Deliver
<1>2. sent + 1 \in 1..MaxMessages
  BY <1>1, Numbers DEF Room
<1>3. s \in Session /\ o \in Obj
  BY FetchedSession
<1>4. p \in Session /\ p.lc = s.lc
  <2> HIDE DEF s
  <2>. QED  BY <1>2, <1>3, PlusMade DEF Kind
<1>5. ~Waiting'
  <2>1. turn.at \in 0..sent /\ sent \in Nat
    BY Numbers DEF Inv, ControlTypes
  <2>. QED  BY <1>1, <2>1 DEF Waiting
<1> HIDE DEF p
<1>. QED  BY <1>1, <1>4, <1>5, PlusQuiet

LEMMA StopRunPrompt ==
    ASSUME Inv, PromptInv, StopRun
    PROVE  PromptInv'
<1> DEFINE v == Fetch(store)
           o == v.cached
           s == v.heap[o]
           p == Plus(s, "reply", sent + 1)
<1>1. /\ Settle(Write(v, o, p)) /\ turn.pc = "run" /\ turn' = NoTurn /\ job' = job
      /\ crossed' = (crossed \/ job.pc = "compact")
  BY DEF StopRun
<1>2. sent + 1 \in 1..MaxMessages
  BY <1>1, Numbers DEF Inv, Steady, Reserved
<1>3. s \in Session /\ o \in Obj
  BY FetchedSession
<1>4. p \in Session /\ p.lc = s.lc
  <2> HIDE DEF s
  <2>. QED  BY <1>2, <1>3, PlusMade DEF Kind
<1>5. ~Waiting'
  BY <1>1 DEF Waiting, NoTurn
<1> HIDE DEF p
<1>. QED  BY <1>1, <1>4, <1>5, PlusQuiet

LEMMA CommandPrompt ==
    ASSUME Inv, PromptInv, Command
    PROVE  PromptInv'
<1> DEFINE v == Fetch(store)
           o == v.cached
           s == v.heap[o]
           q == Plus(s, "command", sent + 1)
           p == Plus(q, "result", sent + 2)
<1>1. /\ Settle(Write(v, o, p)) /\ turn.pc = "idle" /\ turn' = turn /\ job' = job
      /\ crossed' = (crossed \/ job.pc = "compact") /\ Room(2)
  BY DEF Command
<1>2. sent + 1 \in 1..MaxMessages /\ sent + 2 \in 1..MaxMessages
  BY <1>1, Numbers DEF Room
<1>3. s \in Session /\ o \in Obj
  BY FetchedSession
<1>4. q \in Session /\ q.lc = s.lc
  <2> HIDE DEF s
  <2>. QED  BY <1>2, <1>3, PlusMade DEF Kind
<1>5. p \in Session /\ p.lc = s.lc
  <2> HIDE DEF q
  <2>1. p \in Session /\ p.lc = q.lc
    BY <1>2, <1>4, PlusMade DEF Kind
  <2>. QED  BY <1>4, <2>1
<1>6. ~Waiting'
  BY <1>1 DEF Waiting
<1> HIDE DEF p
<1>. QED  BY <1>1, <1>5, <1>6, PlusQuiet

LEMMA EndPrompt ==
    ASSUME Inv, PromptInv, End
    PROVE  PromptInv'
<1> DEFINE o == turn.obj
           s == Plus(store.heap[o], "reply", sent + 1)
           p == Retained(s, FileCap, FALSE)
<1>1. /\ Settle(Write(store, o, p)) /\ turn.pc = "run" /\ turn' = NoTurn /\ job' = job
      /\ crossed' = (crossed \/ Awaiting)
  BY DEF End
<1>2. sent + 1 \in 1..MaxMessages /\ o \in Obj
  BY <1>1, Numbers DEF Inv, Steady, Reserved
<1>3. store \in Stores /\ store.heap[o] \in Session
  BY <1>2, StoreTyped, StoreFields
<1>4. s \in Session
  <2> DEFINE h == store.heap[o]
  <2>1. h \in Session
    BY <1>3
  <2> HIDE DEF h
  <2>2. Plus(h, "reply", sent + 1) \in Session
    BY <1>2, <2>1, PlusMade DEF Kind
  <2>. QED  BY <2>2 DEF h
<1>5. p \in Session
  <2> DEFINE n == FileCap
             e == FALSE
  <2>1. n \in Nat \ {0} /\ e \in BOOLEAN
    BY ConsolidationAssumption
  <2> HIDE DEF s, n, e
  <2>2. Retained(s, n, e) \in Session
    BY <1>4, <2>1, RetainedMade
  <2>. QED  BY <2>2 DEF n, e
<1>6. ~Waiting'
  BY <1>1 DEF Waiting, NoTurn
<1> HIDE DEF p, o
<1>. QED  BY <1>1, <1>2, <1>3, <1>5, <1>6, WriteQuiet

LEMMA NewPrompt ==
    ASSUME Inv, PromptInv, New
    PROVE  PromptInv'
<1> DEFINE v == Fetch(store)
           u == Write(v, v.cached, Blank)
           w == Invalidate(u)
<1>1. /\ Settle(w) /\ turn.pc = "idle" /\ turn' = turn /\ job' = job
      /\ crossed' = (crossed \/ Awaiting)
  BY DEF New
<1>2. v \in Stores /\ v.cached \in Obj
  BY FetchStores DEF PromptInv
<1>3. Blank \in Session
  <2>1. TRUE \in BOOLEAN
    OBVIOUS
  <2>. QED  BY <2>1, BlankAlive
<1> HIDE DEF v
<1>4. u \in Stores
  BY <1>2, <1>3, WriteStores
<1> HIDE DEF u
<1>5. w \in Stores /\ w.cached = None
  <2> DEFINE A == Nat
             c == TRUE
  <2>1. u \in Worlds(A, c, c) /\ c \in BOOLEAN
    BY <1>4 DEF Stores
  <2> HIDE DEF A, c, w
  <2>2. w \in Worlds(A, c, c) /\ w.cached = None
    BY <2>1, InvalidateMade DEF w
  <2>. QED  BY <2>2 DEF Stores, A, c
<1> HIDE DEF w
<1>6. Agrees(w) /\ ~Waiting' /\ job' \in {job, NoJob}
  BY <1>1, <1>5 DEF Agrees, Waiting
<1>. QED  BY <1>1, <1>5, <1>6, Quiet

LEMMA StopBuildPrompt ==
    ASSUME Inv, PromptInv, StopBuild
    PROVE  PromptInv'
<1>1. /\ Settle(store) /\ turn' = NoTurn /\ job' \in {job, NoJob} /\ crossed' = crossed
  BY DEF StopBuild
<1>2. store \in Stores /\ Agrees(store) /\ ~Waiting'
  BY <1>1, StoreTyped DEF PromptInv, CacheIsFile, Waiting, NoTurn
<1>. QED  BY <1>1, <1>2, Quiet

LEMMA ForgetPrompt ==
    ASSUME Inv, PromptInv, NEW disk \in Session, Forget(disk), crossed' = crossed
    PROVE  PromptInv'
<1> DEFINE w == [store EXCEPT !.cached = None, !.disk = disk]
<1>1. Settle(w) /\ turn' = NoTurn /\ job' = NoJob
  BY DEF Forget
<1>2. store \in Stores
  BY StoreTyped
<1>3. /\ store.heap \in [Obj -> Alive(Nat, TRUE)]
      /\ store = [heap |-> store.heap, cached |-> store.cached, disk |-> store.disk]
  BY <1>2, StoreFields
<1>4. w = [heap |-> store.heap, cached |-> None, disk |-> disk]
  <2> DEFINE u == [store EXCEPT !.cached = None]
  <2>1. u = [heap |-> store.heap, cached |-> None, disk |-> store.disk]
    BY <1>3
  <2>2. w = [u EXCEPT !.disk = disk]
    OBVIOUS
  <2> HIDE DEF u, w
  <2>. QED  BY <2>1, <2>2
<1> HIDE DEF w
<1>5. disk \in Filed(Nat, TRUE, TRUE)
  BY SessionAlive DEF Alive, Filed
<1>6. w \in Stores /\ Agrees(w) /\ ~Waiting' /\ job' \in {job, NoJob}
  BY <1>1, <1>3, <1>4, <1>5 DEF Stores, Worlds, Agrees, Waiting, NoTurn
<1>7. ~(job' = job /\ Awaiting)
  BY <1>1 DEF Awaiting, NoJob
<1>. QED  BY <1>1, <1>6, <1>7, Quiet

LEMMA CrashPrompt ==
    ASSUME Inv, PromptInv, Crash
    PROVE  PromptInv'
<1>1. store.disk \in Session /\ crossed' = crossed
  BY StoreTyped, StoreFields DEF Crash
<1>2. PICK n \in 0..Len(store.disk.msgs) :
            Forget([store.disk EXCEPT !.msgs = SubSeq(@, 1, n)])
  BY DEF Crash
<1> DEFINE d == store.disk
           q == SubSeq(d.msgs, 1, n)
           disk == [d EXCEPT !.msgs = q]
<1>3. /\ d.msgs \in Seq(Message) /\ d.lc \in Nat /\ d.sum \in Nat /\ Len(d.msgs) \in Nat
      /\ d \in Session
  BY <1>1, SessionFields
<1>4. Forget(disk)
  BY <1>2
<1> HIDE DEF d
<1>5. q \in Seq(Message)
  <2> DEFINE m == 1
  <2>1. m \in Nat /\ n \in Nat /\ m >= 1 /\ n <= Len(d.msgs)
    BY <1>3 DEF d
  <2> HIDE DEF m
  <2>2. SubSeq(d.msgs, m, n) \in Seq(Message)
    BY <1>3, <2>1, Part
  <2>. QED  BY <2>2 DEF m
<1> HIDE DEF q
<1>6. disk \in Session
  BY <1>3, <1>5 DEF Session
<1> HIDE DEF disk
<1>. QED  BY <1>1, <1>4, <1>6, ForgetPrompt

LEMMA ShutdownPrompt ==
    ASSUME Inv, PromptInv, Shutdown
    PROVE  PromptInv'
<1>1. /\ store.cached # None /\ Forget(store.heap[store.cached]) /\ crossed' = crossed
  BY DEF Shutdown
<1>2. store.heap[store.cached] \in Session
  BY <1>1, StoreTyped, StoreFields
<1>. QED  BY <1>1, <1>2, ForgetPrompt

-----------------------------------------------------------------------------
(* Steps that only fetch the session.                                      *)

LEMMA JobMovesStay ==
    ASSUME Inv, PromptInv, job' = job, ~crossed' => ~crossed,
           Awaiting => store'.heap[job.obj] = store.heap[job.obj]
    PROVE  JobMoves'
<1>1. Archives' = Archives /\ (Archives => Awaiting) /\ (job.pc = "compact" => Awaiting)
  BY DEF Archives, Awaiting
<1>2. CASE crossed'
  BY <1>2 DEF JobMoves
<1>3. CASE ~crossed'
  <2>1. /\ Archives => store.heap[job.obj].lc <= job.end
        /\ job.pc = "compact" => Follows(job.keep, store.heap[job.obj])
    BY <1>3 DEF PromptInv, JobMoves
  <2>2. Archives' => store'.heap[job'.obj].lc <= job'.end
    BY <1>1, <2>1
  <2>3. job'.pc = "compact" => Follows(job'.keep, store'.heap[job'.obj])
    BY <1>1, <2>1
  <2>. QED  BY <2>2, <2>3 DEF JobMoves
<1>. QED  BY <1>2, <1>3

LEMMA QueueGrows ==
    ASSUME Inv, Awaiting, NEW x \in Holder, queue' = Append(queue, x)
    PROVE  Head(queue') = Head(queue)
<1>1. queue \in Seq(Holder) /\ queue # <<>>
  BY DEF Inv, LockOrder, Ordered
<1>. QED  BY <1>1

LEMMA BeginPrompt ==
    ASSUME Inv, PromptInv, NEW direct \in BOOLEAN, Begin(direct)
    PROVE  PromptInv'
<1> DEFINE v == Fetch(store)
<1>1. /\ turn.pc = "idle" /\ turn'.pc = "build" /\ turn'.obj = v.cached
      /\ queue' = Append(queue, "turn") /\ job' = job /\ crossed' = crossed
      /\ Settle(v)
  BY DEF Begin, NoTurn
<1>2. /\ v \in Stores /\ v.cached \in Obj /\ v.disk = store.disk
      /\ Agrees(v)
      /\ Awaiting => v.heap[job.obj] = store.heap[job.obj]
      /\ ~crossed => v.heap[v.cached] = Loaded(store.disk)
  BY FetchStores DEF PromptInv
<1> HIDE DEF v
<1>3. /\ store'.disk = store.disk /\ CacheIsFile'
      /\ \A o \in Obj : o \in {v.cached, turn'.obj, job'.obj} => store'.heap[o] = v.heap[o]
  BY <1>1, <1>2, SettleStores
<1>4. Awaiting => store'.heap[job.obj] = store.heap[job.obj]
  BY <1>1, <1>2, <1>3, Numbers DEF Awaiting
<1>5. JobMoves'
  BY <1>1, <1>4, JobMovesStay
<1>6. TurnSees'
  <2>1. Waiting' => store'.heap[turn'.obj] = Loaded(store'.disk)
    BY <1>1, <1>2, <1>3 DEF Waiting
  <2>2. store.disk \in Session
    BY StoreTyped, StoreFields
  <2>3. Loaded(store'.disk) \in Session
    BY <1>3, <2>2, LoadedMade
  <2>4. Waiting' => Sees(store'.heap[turn'.obj], Loaded(store'.disk))
    BY <2>1, <2>3, SeesSelf
  <2>. QED  BY <2>4 DEF TurnSees
<1>7. TurnArchives'
  <2>1. ASSUME Awaiting PROVE Head(queue') # "turn"
    <3>1. Head(queue') = Head(queue)
      BY <1>1, <2>1, QueueGrows DEF Holder
    <3>2. queue \in Seq(Holder) /\ queue # <<>> /\ ~In("turn", queue)
      BY <1>1, <2>1 DEF Inv, LockOrder, Ordered
    <3>3. Head(queue) = queue[1] /\ 1 \in 1..Len(queue)
      BY <3>2
    <3>. QED  BY <3>1, <3>2, <3>3 DEF In
  <2>2. Archives' => Awaiting
    BY <1>1 DEF Archives, Awaiting
  <2>. QED  BY <2>1, <2>2 DEF TurnArchives
<1>. QED  BY <1>3, <1>5, <1>6, <1>7 DEF PromptInv

LEMMA CheckExpiredPrompt ==
    ASSUME Inv, PromptInv, CheckExpired
    PROVE  PromptInv'
<1> DEFINE v == Fetch(store)
<1>1. /\ turn' = turn /\ queue' = Append(queue, "idle") /\ job' = job
      /\ crossed' = crossed /\ sent' = sent /\ Settle(v)
  BY DEF CheckExpired
<1>2. /\ v \in Stores /\ v.cached \in Obj /\ v.disk = store.disk
      /\ Agrees(v)
      /\ turn.pc # "idle" => v.heap[turn.obj] = store.heap[turn.obj]
      /\ Awaiting => v.heap[job.obj] = store.heap[job.obj]
  BY FetchStores DEF PromptInv
<1> HIDE DEF v
<1>3. /\ store'.disk = store.disk /\ CacheIsFile'
      /\ \A o \in Obj : o \in {v.cached, turn'.obj, job'.obj} => store'.heap[o] = v.heap[o]
  BY <1>1, <1>2, SettleStores
<1>4. /\ Awaiting => store'.heap[job.obj] = store.heap[job.obj]
      /\ turn.pc # "idle" => store'.heap[turn.obj] = store.heap[turn.obj]
  BY <1>1, <1>2, <1>3, Numbers DEF Awaiting
<1>5. JobMoves'
  BY <1>1, <1>4, JobMovesStay
<1>6. Waiting' = Waiting /\ Archives' = Archives /\ (Archives => Awaiting)
      /\ (Waiting => turn.pc # "idle")
  BY <1>1 DEF Waiting, Archives, Awaiting
<1>7. TurnSees'
  BY <1>1, <1>3, <1>4, <1>6 DEF PromptInv, TurnSees
<1>8. TurnArchives'
  <2>1. Archives => Head(queue') = Head(queue)
    BY <1>1, <1>6, QueueGrows DEF Holder
  <2>. QED  BY <1>1, <1>4, <1>6, <2>1 DEF PromptInv, TurnArchives
<1>. QED  BY <1>3, <1>5, <1>7, <1>8 DEF PromptInv

LEMMA SamePrompt ==
    ASSUME PromptInv, UNCHANGED <<store, turn, queue, job, sent, crossed>>
    PROVE  PromptInv'
<1>1. /\ store' = store /\ turn' = turn /\ queue' = queue /\ job' = job
      /\ sent' = sent /\ crossed' = crossed
  OBVIOUS
<1>2. Waiting' = Waiting /\ Archives' = Archives
  BY <1>1 DEF Waiting, Archives
<1>. QED  BY <1>1, <1>2 DEF PromptInv, CacheIsFile, JobMoves, TurnSees, TurnArchives

-----------------------------------------------------------------------------
(* The steps of the consolidator.                                          *)

\* What becomes of an awaited archive, or of the turn at the head of the queue.
Aims(k, s, o) ==
    k.pc # "none" =>
        /\ k.pc \in {"overflow", "round"} /\ k.obj = o
        /\ s.lc <= k.end
        /\ Waiting /\ Head(queue) = "turn" => Frontier(s, k.end)

LEMMA ContinuePrompt ==
    ASSUME Inv, PromptInv, NEW w \in Stores, NEW o \in Obj, w.cached = o, Agrees(w),
           NEW k, Aims(k, w.heap[o], o), Continue(w, o, k), crossed' = crossed,
           k.sum \in Nat, queue # <<>>,
           Waiting => Sees(w.heap[turn.obj], Loaded(w.disk))
    PROVE  /\ PromptInv'
           /\ turn.pc = "build" /\ turn'.pc = "run" =>
                 /\ k.pc = "none" /\ Head(queue) = "turn"
                 /\ turn'.prompt = Ids(Replayed(w.heap[turn.obj]))
<1> DEFINE s == w.heap[o]
           p == [s EXCEPT !.sum = k.sum]
           v == IF k.sum > 0 THEN Write(w, o, p) ELSE w
           resumes == Head(queue) = "turn"
<1>1. /\ w.disk \in Session /\ \A x \in Obj : w.heap[x] \in Session
      /\ turn.pc # "idle" => turn.obj \in Obj
      /\ s \in {w.disk, Loaded(w.disk)}
  BY StoreFields, Numbers, ConsolidationAssumption DEF Agrees
<1>2. CASE k.pc # "none"
  <2>1. /\ job' = k /\ queue' = queue /\ turn' = turn /\ sent' = sent /\ Settle(w)
    BY <1>2 DEF Continue
  <2>2. /\ k.pc \in {"overflow", "round"} /\ k.obj = o /\ s.lc <= k.end
        /\ Waiting /\ Head(queue) = "turn" => Frontier(s, k.end)
    BY <1>2 DEF Aims
  <2>3. /\ store'.disk = w.disk /\ CacheIsFile' /\ store'.heap[o] = s
        /\ turn.pc # "idle" => store'.heap[turn.obj] = w.heap[turn.obj]
    BY <1>1, <2>1, SettleStores
  <2>4. JobMoves'
    BY <2>1, <2>2, <2>3 DEF JobMoves
  <2>5. Waiting' = Waiting /\ (Waiting => turn.pc # "idle")
    BY <2>1 DEF Waiting
  <2>6. TurnSees' /\ TurnArchives'
    BY <2>1, <2>2, <2>3, <2>5 DEF TurnSees, TurnArchives
  <2>. QED  BY <2>1, <2>3, <2>4, <2>6 DEF PromptInv
<1>3. CASE k.pc = "none"
  <2>1. p \in Session /\ p.msgs = s.msgs /\ p.lc = s.lc
    <3> DEFINE n == k.sum
               h == w.heap[o]
    <3>1. n \in Nat /\ h \in Session
      BY <1>1
    <3> HIDE DEF n, h
    <3>2. LET q == [h EXCEPT !.sum = n] IN q \in Session /\ q.msgs = h.msgs /\ q.lc = h.lc
      BY <3>1 DEF Session
    <3>. QED  BY <3>2 DEF n, h
  <2>2. /\ v \in Stores /\ v.cached = o /\ Agrees(v)
        /\ \A x \in Obj : /\ v.heap[x] \in Session
                          /\ v.heap[x].msgs = w.heap[x].msgs /\ v.heap[x].lc = w.heap[x].lc
        /\ v.disk \in Session
        /\ Loaded(v.disk).msgs = Loaded(w.disk).msgs
        /\ Loaded(v.disk).lc = Loaded(w.disk).lc
    <3>1. CASE k.sum > 0
      <4> DEFINE u == Write(w, o, p)
      <4> HIDE DEF p, s
      <4>1. /\ u \in Stores /\ u.cached = o /\ u.disk = p /\ u.heap[o] = p
            /\ \A x \in Obj : x # o => u.heap[x] = w.heap[x]
            /\ Agrees(u)
        BY <2>1, WriteStores
      <4>2. v = u
        BY <3>1 DEF p, s
      <4> HIDE DEF u, v
      <4>3. Loaded(u.disk).msgs = Loaded(w.disk).msgs /\ Loaded(u.disk).lc = Loaded(w.disk).lc
        BY <1>1, <2>1, <4>1, LoadedAgrees
      <4>4. \A x \in Obj : /\ u.heap[x] \in Session
                           /\ u.heap[x].msgs = w.heap[x].msgs /\ u.heap[x].lc = w.heap[x].lc
        BY <1>1, <2>1, <4>1 DEF s
      <4>. QED  BY <2>1, <4>1, <4>2, <4>3, <4>4
    <3>2. CASE ~(k.sum > 0)
      <4>1. v = w
        BY <3>2
      <4> HIDE DEF v
      <4>. QED  BY <1>1, <4>1
    <3>. QED  BY <3>1, <3>2
  <2>3. /\ job' = NoJob /\ queue' = Tail(queue)
        /\ turn' = IF resumes
                     THEN [turn EXCEPT !.pc = "run", !.prompt = Ids(Replayed(v.heap[turn.obj]))]
                     ELSE turn
        /\ sent' = IF resumes THEN sent + 1 ELSE sent
        /\ Settle(IF resumes THEN BuildRest(v) ELSE v)
    BY <1>3 DEF Continue
  <2> HIDE DEF v
  <2>4. CASE resumes
    <3>1. turn \in [pc : {"idle", "build", "run"}, obj : Obj \cup {None},
                    direct : BOOLEAN, at : 0..sent, prompt : SUBSET (1..MaxMessages)]
      BY DEF Inv, ControlTypes
    <3>2. turn'.pc = "run" /\ turn'.prompt = Ids(Replayed(v.heap[turn.obj]))
      BY <2>3, <2>4, <3>1
    <3>3. turn.pc = "build"
      <4>1. queue \in Seq(Holder) /\ queue # <<>>
        BY DEF Inv, LockOrder, Ordered
      <4>2. Head(queue) = queue[1] /\ 1 \in 1..Len(queue)
        BY <4>1
      <4>3. In("turn", queue)
        BY <2>4, <4>2 DEF In
      <4>. QED  BY <4>3 DEF Inv, LockOrder
    <3> DEFINE x == turn.obj
               y == Plus(v.heap[x], "user", sent + 1)
               u == Write(v, x, y)
    <3>4. x \in Obj /\ sent + 1 \in 1..MaxMessages
      BY <1>1, <3>3, Numbers DEF Inv, Steady, Reserved
    <3>5. y \in Session
      <4> DEFINE h == v.heap[x]
      <4>1. h \in Session
        BY <2>2, <3>4
      <4> HIDE DEF h
      <4>2. Plus(h, "user", sent + 1) \in Session
        BY <3>4, <4>1, PlusMade DEF Kind
      <4>. QED  BY <4>2 DEF h
    <3>6. Settle(u)
      BY <2>3, <2>4 DEF BuildRest
    <3> HIDE DEF y
    <3>7. u \in Stores /\ Agrees(u)
      BY <2>2, <3>4, <3>5, WriteStores
    <3> HIDE DEF u
    <3>8. ~Waiting' /\ job' \in {job, NoJob} /\ ~(job' = job /\ Awaiting)
      BY <2>3, <3>2 DEF Waiting, Awaiting, NoJob
    <3>9. PromptInv'
      BY <3>6, <3>7, <3>8, Quiet
    <3>10. Replayed(v.heap[x]) = Replayed(w.heap[x])
      BY <2>2, <3>4, ReplayedSame
    <3>. QED  BY <1>3, <2>4, <3>2, <3>9, <3>10
  <2>5. CASE ~resumes
    <3>1. /\ turn' = turn /\ sent' = sent /\ Settle(v)
      BY <2>3, <2>5
    <3>2. /\ store'.disk = v.disk /\ CacheIsFile'
          /\ turn.pc # "idle" => store'.heap[turn.obj] = v.heap[turn.obj]
      BY <1>1, <2>2, <3>1, SettleStores
    <3>3. JobMoves' /\ TurnArchives'
      BY <2>3 DEF JobMoves, TurnArchives, Archives, NoJob
    <3>4. Waiting' = Waiting /\ (Waiting => turn.pc # "idle")
      BY <3>1 DEF Waiting
    <3>5. ASSUME Waiting PROVE Sees(v.heap[turn.obj], Loaded(v.disk))
      <4> DEFINE a == Loaded(w.disk)
                 b == Loaded(v.disk)
                 t == w.heap[turn.obj]
                 r == v.heap[turn.obj]
      <4>1. a \in Session /\ b \in Session /\ t \in Session /\ r \in Session
        BY <1>1, <2>2, <3>4, <3>5, LoadedMade
      <4>2. /\ Sees(t, a) /\ b.msgs = a.msgs /\ b.lc = a.lc /\ r.msgs = t.msgs /\ r.lc = t.lc
        BY <1>1, <2>2, <3>4, <3>5
      <4>3. b.lc >= a.lc
        BY <4>1, <4>2, SessionFields
      <4> HIDE DEF a, b, t, r
      <4>4. Sees(r, b)
        BY <4>1, <4>2, <4>3, SeesForward
      <4>. QED  BY <4>4 DEF r, b
    <3>6. TurnSees'
      BY <3>1, <3>2, <3>4, <3>5 DEF TurnSees
    <3>. QED  BY <3>1, <3>2, <3>3, <3>6 DEF PromptInv
  <2>. QED  BY <2>4, <2>5
<1>. QED  BY <1>2, <1>3

\* The step of PromptIsWhole.
PromptStep ==
    (turn.pc = "build" /\ turn'.pc = "run" /\ ~crossed /\ sent = turn.at) =>
        \/ Conversation(store.disk) \subseteq archived' \cup turn'.prompt
        \/ \A u \in Users(store.disk, 0) : u + Window < Len(store.disk.msgs)

LEMMA LoadedConversation ==
    ASSUME NEW d \in Session
    PROVE  /\ Conversation(d) \subseteq Conversation(Loaded(d))
           /\ Alone(Loaded(d)) => Alone(d)
<1>1. d.lc \in Nat /\ Len(d.msgs) \in Nat /\ Loaded(d).msgs = d.msgs
  BY SessionFields, LoadedMade
<1>2. \A n : Users(Loaded(d), n) = Users(d, n)
  BY <1>1 DEF Users
<1>3. Conversation(d) \subseteq Conversation(Loaded(d))
  <2>1. CASE d.lc > Len(d.msgs)
    <3>1. Users(d, d.lc) = {}
      BY <1>1, <2>1, UsersAre
    <3>. QED  BY <3>1 DEF Conversation
  <2>2. CASE ~(d.lc > Len(d.msgs))
    BY <2>2 DEF Loaded
  <2>. QED  BY <2>1, <2>2
<1>. QED  BY <1>1, <1>2, <1>3 DEF Alone

LEMMA NextAims ==
    ASSUME NEW s \in Session, NEW o, NEW r, NEW last \in Nat,
           NEW k \in NextRounds(s, o, r, last),
           Waiting /\ Head(queue) = "turn" => Within(s)
    PROVE  Aims(k, s, o) /\ k.sum \in Nat
<1>1. CASE k = [NoJob EXCEPT !.sum = last]
  <2>1. k.pc = "none" /\ k.sum = last
    BY <1>1 DEF NoJob
  <2>. QED  BY <2>1 DEF Aims
<1>2. CASE k # [NoJob EXCEPT !.sum = last]
  <2>1. PICK e \in Boundaries(s) : k = Archiving("round", s, o, e, r + 1, last)
    BY <1>2 DEF NextRounds
  <2>2. k.pc = "round" /\ k.obj = o /\ k.end = e /\ k.sum = last
    BY <2>1 DEF Archiving
  <2>3. s.lc \in Nat /\ e > s.lc /\ e \in Nat
    <3>1. s.lc \in Nat
      BY SessionFields
    <3>2. e \in Users(s, s.lc) /\ e > s.lc
      BY DEF Boundaries
    <3>. QED  BY <3>1, <3>2, UsersAre
  <2>4. Within(s) => Frontier(s, e)
    BY RoundAims
  <2>5. s.lc <= e
    BY <2>3
  <2>. QED  BY <2>2, <2>4, <2>5 DEF Aims
<1>. QED  BY <1>1, <1>2

LEMMA FirstAims ==
    ASSUME NEW s \in Session, NEW o, NEW k \in FirstJobs(s, o)
    PROVE  Aims(k, s, o) /\ k.sum \in Nat /\ (k.pc = "none" => Within(s))
<1>1. s.lc \in Nat /\ Len(s.msgs) \in Nat /\ Window \in Nat
  BY SessionFields, ConsolidationAssumption
<1>2. CASE s.msgs = <<>>
  <2>1. k = NoJob /\ Len(s.msgs) = 0
    BY <1>2 DEF FirstJobs
  <2>2. k.pc = "none" /\ k.sum = 0
    BY <2>1 DEF NoJob
  <2>. QED  BY <1>1, <2>1, <2>2 DEF Aims, Within
<1>3. CASE s.msgs # <<>> /\ OverflowEnd(s) > s.lc
  <2>1. k = Archiving("overflow", s, o, OverflowEnd(s), 0, 0)
    BY <1>3 DEF FirstJobs
  <2>2. k.pc = "overflow" /\ k.obj = o /\ k.end = OverflowEnd(s) /\ k.sum = 0
    BY <2>1 DEF Archiving
  <2>3. Frontier(s, OverflowEnd(s)) /\ OverflowEnd(s) \in Nat
    BY <1>3, OverflowAims, OverflowInSession
  <2>4. s.lc <= OverflowEnd(s)
    BY <1>1, <1>3, <2>3
  <2>. QED  BY <2>2, <2>3, <2>4 DEF Aims
<1>4. CASE s.msgs # <<>> /\ ~(OverflowEnd(s) > s.lc)
  <2> DEFINE z == 0
  <2>1. k \in NextRounds(s, o, z, z) /\ z \in Nat
    BY <1>4 DEF FirstJobs
  <2>2. Within(s)
    BY <1>4, OverflowAims
  <2> HIDE DEF z
  <2>. QED  BY <2>1, <2>2, NextAims
<1>. QED  BY <1>2, <1>3, <1>4

LEMMA ConsolidatePrompt ==
    ASSUME Inv, PromptInv, Consolidate
    PROVE  PromptInv' /\ PromptStep
<1> DEFINE w == Fetch(store)
           o == w.cached
           s == w.heap[o]
           t == w.heap[turn.obj]
<1>1. queue # <<>> /\ crossed' = crossed
  BY DEF Consolidate
<1>2. PICK k \in FirstJobs(s, o) : Continue(w, o, k)
  BY DEF Consolidate
<1>3. /\ w \in Stores /\ o \in Obj /\ w.disk = store.disk /\ Agrees(w)
      /\ turn.pc # "idle" => t = store.heap[turn.obj]
      /\ ~crossed => s = Loaded(store.disk)
  BY FetchStores DEF PromptInv
<1> HIDE DEF w
<1>4. /\ s \in Session /\ store.disk \in Session
      /\ turn.pc # "idle" => t \in Session
  BY <1>3, StoreFields, Numbers
<1>5. Aims(k, s, o) /\ k.sum \in Nat /\ (k.pc = "none" => Within(s))
  <2> HIDE DEF s, o
  <2>. QED  BY <1>2, <1>4, FirstAims
<1>6. Waiting => Sees(t, Loaded(w.disk)) /\ turn.pc # "idle"
  BY <1>3 DEF PromptInv, TurnSees, Waiting
<1>7. /\ PromptInv'
      /\ turn.pc = "build" /\ turn'.pc = "run" =>
            k.pc = "none" /\ turn'.prompt = Ids(Replayed(t))
  <2>1. w.cached = o /\ Aims(k, w.heap[o], o) /\ (Waiting => Sees(w.heap[turn.obj], Loaded(w.disk)))
    BY <1>5, <1>6
  <2> HIDE DEF o
  <2>. QED  BY <1>1, <1>2, <1>3, <1>5, <2>1, ContinuePrompt
<1> HIDE DEF s, t, o
<1>8. ASSUME turn.pc = "build", turn'.pc = "run", ~crossed, sent = turn.at
      PROVE  Conversation(store.disk) \subseteq turn'.prompt \/ Alone(store.disk)
  <2>1. Waiting
    BY <1>8 DEF Waiting
  <2>2. s = Loaded(store.disk) /\ Sees(t, s) /\ t \in Session /\ Within(s)
    BY <1>3, <1>4, <1>5, <1>6, <1>7, <1>8, <2>1
  <2>3. CASE s.lc + Window >= Len(s.msgs)
    <3>1. Conversation(s) \subseteq Ids(Replayed(t))
      BY <1>4, <2>2, <2>3, ConversationShown
    <3>2. Conversation(store.disk) \subseteq Conversation(s)
      BY <1>4, <2>2, LoadedConversation
    <3>. QED  BY <1>7, <1>8, <3>1, <3>2
  <2>4. CASE Alone(s)
    BY <1>4, <2>2, <2>4, LoadedConversation
  <2>. QED  BY <2>2, <2>3, <2>4 DEF Within
<1>9. PromptStep
  BY <1>8 DEF PromptStep, Alone
<1>. QED  BY <1>7, <1>9

LEMMA ArchivedPrompt ==
    ASSUME Inv, PromptInv, NEW outcome \in Outcome, Archived(outcome)
    PROVE  PromptInv' /\ PromptStep
<1> DEFINE o == job.obj
           h == store.heap[o]
           e == job.end
           s == [h EXCEPT !.lc = e]
           w == Write(store, o, s)
           last == CASE outcome = "summary" -> Top(job.chunk)
                     [] outcome = "nothing" -> 0
                     [] outcome = "failed" -> IF job.pc = "round" THEN job.sum ELSE 0
           t == w.heap[turn.obj]
<1>1. /\ job.pc \in {"overflow", "round"} /\ crossed' = crossed
      /\ archived' = archived \cup job.chunk
  BY DEF Archived
<1>2. PICK k : /\ \/ k = [NoJob EXCEPT !.sum = last]
                  \/ k \in NextRounds(s, o, job.round, last)
               /\ Continue(w, o, k)
  BY DEF Archived
<1>3. /\ job \in JobType /\ e \in Nat /\ job.sum \in Nat /\ o \in Obj
      /\ queue # <<>> /\ sent \in Nat
      /\ turn.pc # "idle" => turn.obj \in Obj
      /\ job.chunk \subseteq 1..sent
  <2>1. /\ job \in JobType /\ o \in Obj /\ queue # <<>> /\ sent \in Nat
        /\ turn.pc # "idle" => turn.obj \in Obj
    BY <1>1, Numbers DEF Inv, ControlTypes, LockOrder, Awaiting
  <2>2. job.chunk \subseteq 1..sent
    BY DEF Inv, Sound, Current
  <2>. QED  BY <2>1, <2>2 DEF JobType
<1>4. store \in Stores /\ h \in Session /\ store.disk \in Session
      /\ \A x \in Obj : store.heap[x] \in Session
  BY <1>3, StoreTyped, StoreFields
<1>5. last \in Nat
  <2>1. job.chunk \in SUBSET (0..sent)
    <3>1. \A i \in 1..sent : i \in 0..sent
      BY <1>3
    <3>. QED  BY <1>3, <3>1
  <2>2. Top(job.chunk) \in job.chunk \cup {0}
    BY <1>3, <2>1, TopIs
  <2>3. Top(job.chunk) \in Nat
    <3> DEFINE top == Top(job.chunk)
    <3>1. top \in job.chunk \cup {0}
      BY <2>2
    <3> HIDE DEF top
    <3>2. top \in Nat
      BY <1>3, <3>1
    <3>. QED  BY <3>2 DEF top
  <2>. QED  BY <1>3, <2>3 DEF Outcome
<1>6. s \in Session /\ s.msgs = h.msgs /\ s.lc = e
  <2> HIDE DEF h, e
  <2>. QED  BY <1>3, <1>4, CursorMoves
<1>7. ASSUME ~crossed
      PROVE  /\ h = Loaded(store.disk) /\ h.lc <= e /\ e <= Len(h.msgs)
             /\ Ids(SubSeq(h.msgs, h.lc + 1, e)) \subseteq job.chunk
  <2>1. o = store.cached /\ Fits(job, h) /\ Awaiting
    BY <1>1, <1>7 DEF Inv, Covered, Awaiting
  <2>2. e <= Len(h.msgs) /\ Ids(SubSeq(h.msgs, h.lc + 1, e)) \subseteq job.chunk
    BY <1>1, <2>1 DEF Fits
  <2>3. h.lc <= e
    BY <1>1, <1>7 DEF PromptInv, JobMoves, Archives
  <2>4. h.lc <= Len(h.msgs)
    BY <1>3, <1>7, SessionsHeld
  <2>5. h \in {store.disk, Loaded(store.disk)}
    BY <1>3, <2>1, ConsolidationAssumption DEF PromptInv, CacheIsFile, Agrees
  <2> HIDE DEF h, e
  <2>6. h = Loaded(store.disk)
    BY <1>4, <2>4, <2>5, CursorFits
  <2>. QED  BY <2>2, <2>3, <2>6
<1> HIDE DEF last
<1>8. Waiting => /\ Head(queue) = "turn" => Frontier(h, e)
                 /\ turn.pc # "idle" /\ ~crossed
                 /\ Sees(store.heap[turn.obj], Loaded(store.disk))
  BY <1>1 DEF PromptInv, TurnSees, TurnArchives, Waiting, Archives
<1>9. Waiting /\ Head(queue) = "turn" => Within(s)
  <2> HIDE DEF s, h
  <2>. QED  BY <1>6, <1>8, FrontierWithin
<1>10. Aims(k, s, o) /\ k.sum \in Nat
  <2> HIDE DEF s, h, o
  <2>1. CASE k = [NoJob EXCEPT !.sum = last]
    <3>1. k.pc = "none" /\ k.sum = last
      BY <2>1 DEF NoJob
    <3>. QED  BY <1>5, <3>1 DEF Aims
  <2>2. CASE k \in NextRounds(s, o, job.round, last)
    BY <1>5, <1>6, <1>9, <2>2, NextAims
  <2>. QED  BY <1>2, <2>1, <2>2
<1> HIDE DEF h, e, s, o
<1>11. /\ w \in Stores /\ w.cached = o /\ w.disk = s /\ w.heap[o] = s /\ Agrees(w)
       /\ \A x \in Obj : x # o => w.heap[x] = store.heap[x]
  BY <1>3, <1>4, <1>6, WriteStores
<1>12. Continue(w, o, k)
  BY <1>2
<1> HIDE DEF w
<1>13. ASSUME Waiting
       PROVE  /\ t \in Session /\ Sees(t, s) /\ Loaded(s) = s
  <2>1. ~(s.lc > Len(s.msgs))
    <3>1. Len(h.msgs) \in Nat
      BY <1>4, SessionFields
    <3>. QED  BY <1>3, <1>6, <1>7, <1>8, <1>13, <3>1
  <2>2. Loaded(s) = s
    BY <2>1 DEF Loaded
  <2>3. CASE turn.obj = o
    <3>1. t = s
      BY <1>11, <2>3
    <3>. QED  BY <1>6, <2>2, <3>1, SeesSelf
  <2>4. CASE turn.obj # o
    <3>1. turn.obj \in Obj
      BY <1>3, <1>8, <1>13
    <3>2. t = store.heap[turn.obj] /\ t \in Session
      BY <1>4, <1>11, <2>4, <3>1
    <3>3. Sees(t, h)
      BY <1>7, <1>8, <1>13, <3>2
    <3>4. s.lc >= h.lc
      <4>1. h.lc \in Nat
        BY <1>4, SessionFields
      <4>. QED  BY <1>3, <1>6, <1>7, <1>8, <1>13, <4>1
    <3> HIDE DEF t
    <3>5. Sees(t, s)
      BY <1>4, <1>6, <3>2, <3>3, <3>4, SeesForward
    <3>. QED  BY <2>2, <3>2, <3>5
  <2>. QED  BY <2>3, <2>4
<1>14. /\ PromptInv'
       /\ turn.pc = "build" /\ turn'.pc = "run" =>
             Head(queue) = "turn" /\ turn'.prompt = Ids(Replayed(t))
  <2>1. Aims(k, w.heap[o], o) /\ (Waiting => Sees(w.heap[turn.obj], Loaded(w.disk)))
    BY <1>10, <1>11, <1>13
  <2>. QED  BY <1>1, <1>3, <1>10, <1>11, <1>12, <2>1, ContinuePrompt
<1> HIDE DEF t
<1>15. ASSUME turn.pc = "build", turn'.pc = "run", ~crossed, sent = turn.at
       PROVE  Conversation(store.disk) \subseteq archived' \cup turn'.prompt \/ Alone(store.disk)
  <2>1. Waiting
    BY <1>15 DEF Waiting
  <2>2. h = Loaded(store.disk) /\ h.lc <= s.lc /\ s.lc <= Len(h.msgs)
        /\ Ids(SubSeq(h.msgs, h.lc + 1, s.lc)) \subseteq job.chunk
        /\ Frontier(h, s.lc)
    BY <1>6, <1>7, <1>8, <1>14, <1>15, <2>1
  <2>3. CASE s.lc + Window >= Len(h.msgs) /\ Opens(h, s.lc)
    <3>1. Conversation(h) \subseteq Ids(SubSeq(h.msgs, h.lc + 1, s.lc)) \cup Ids(Replayed(t))
      BY <1>4, <1>6, <1>13, <2>1, <2>2, <2>3, ArchivedShown
    <3>2. Conversation(store.disk) \subseteq Conversation(h)
      BY <1>4, <2>2, LoadedConversation
    <3>. QED  BY <1>1, <1>14, <1>15, <2>2, <3>1, <3>2
  <2>4. CASE Alone(h)
    BY <1>4, <2>2, <2>4, LoadedConversation
  <2>. QED  BY <2>2, <2>3, <2>4 DEF Frontier
<1>16. PromptStep
  BY <1>15 DEF PromptStep, Alone
<1>. QED  BY <1>14, <1>16

-----------------------------------------------------------------------------
(* The steps of compaction.                                                *)

\* compact_idle_session leaves an end of the session, or all of it.
LEMMA CompactPrompt ==
    ASSUME Inv, PromptInv, Compact
    PROVE  PromptInv'
<1> DEFINE w == Fetch(Invalidate(store))
           o == w.cached
           h == w.heap[o]
           probe == Probe(h)
           cut == Retained(probe, IdleSuffix, TRUE)
           remove == Dropped(probe, IdleSuffix, TRUE)
           keep == cut.msgs
           p == IF probe.msgs = <<>> THEN h ELSE [h EXCEPT !.msgs = keep, !.lc = 0]
<1>1. /\ job.pc = "none" /\ turn' = turn /\ sent' = sent /\ crossed' = crossed
  BY DEF Compact, Awaiting
<1>2. IF remove # {}
      THEN /\ job' = [pc |-> "compact", obj |-> o, end |-> 0, chunk |-> remove,
                      all |-> Ids(probe.msgs), keep |-> keep, sum |-> 0, round |-> 0]
           /\ Settle(w)
      ELSE /\ job' = job
           /\ Settle(IF probe.msgs = <<>> THEN Save(w, o)
                     ELSE Write(w, o, [h EXCEPT !.msgs = keep, !.lc = 0]))
  BY DEF Compact
<1>3. /\ w \in Stores /\ o \in Obj /\ w.disk = store.disk /\ h = Loaded(store.disk)
      /\ turn.pc # "idle" => turn.obj # o /\ w.heap[turn.obj] = store.heap[turn.obj]
  BY <1>1, RefetchStores
<1> HIDE DEF w
<1>4. store.disk \in Session /\ turn.obj \in Obj \cup {None}
      /\ (turn.pc # "idle" => turn.obj \in Obj)
  BY StoreTyped, StoreFields, Numbers
<1>5. h \in Session /\ h.lc <= Len(h.msgs) /\ Loaded(h) = h
  <2>1. /\ Loaded(store.disk) \in Session
        /\ Loaded(store.disk).lc <= Len(Loaded(store.disk).msgs)
    BY <1>4, LoadedMade
  <2>2. h \in Session /\ h.lc <= Len(h.msgs)
    BY <1>3, <2>1
  <2> HIDE DEF h
  <2>3. ~(h.lc > Len(h.msgs))
    BY <2>2, SessionFields
  <2>. QED  BY <2>2, <2>3 DEF Loaded
<1>6. Follows(keep, h) /\ keep \in Seq(Message)
  <2> HIDE DEF h
  <2>. QED  BY <1>5, CutFollows, CutMade
<1> HIDE DEF remove, keep, o
<1>7. Waiting' = Waiting
      /\ (Waiting => /\ turn.obj \in Obj /\ turn.obj # o
                     /\ w.heap[turn.obj] = store.heap[turn.obj]
                     /\ Sees(store.heap[turn.obj], h))
  BY <1>1, <1>3, <1>4 DEF Waiting, PromptInv, TurnSees
<1>8. CASE remove # {}
  <2>1. /\ job'.pc = "compact" /\ job'.obj = o /\ job'.keep = keep /\ Settle(w)
    BY <1>2, <1>8
  <2>2. Agrees(w)
    BY <1>3 DEF Agrees, o
  <2>3. /\ store'.disk = store.disk /\ CacheIsFile'
        /\ \A x \in Obj : x \in {o, turn.obj} => store'.heap[x] = w.heap[x]
    BY <1>1, <1>3, <2>1, <2>2, SettleStores DEF o
  <2>4. JobMoves'
    BY <1>3, <1>6, <2>1, <2>3 DEF JobMoves, Archives
  <2>5. TurnSees'
    BY <1>1, <1>3, <1>7, <2>3 DEF TurnSees
  <2>6. TurnArchives'
    BY <2>1 DEF TurnArchives, Archives
  <2>. QED  BY <2>3, <2>4, <2>5, <2>6 DEF PromptInv
<1>9. CASE remove = {}
  <2> DEFINE u == Write(w, o, p)
  <2>1. job' = job /\ Settle(u)
    <3>1. Save(w, o) = Write(w, o, h)
      <4>1. /\ w = [heap |-> w.heap, cached |-> w.cached, disk |-> w.disk]
            /\ w.heap \in [Obj -> Alive(Nat, TRUE)]
        BY <1>3, StoreFields
      <4>2. [w EXCEPT !.heap[o] = h] = w
        BY <1>3, <4>1
      <4>. QED  BY <4>2 DEF Write
    <3> HIDE DEF probe, h
    <3>2. CASE probe.msgs = <<>>
      BY <1>2, <1>9, <3>1, <3>2
    <3>3. CASE probe.msgs # <<>>
      BY <1>2, <1>9, <3>3
    <3>. QED  BY <3>2, <3>3
  <2>2. /\ p \in Session /\ Loaded(p) = p
        /\ Waiting => Sees(store.heap[turn.obj], p)
    <3> HIDE DEF h, probe
    <3>1. CASE probe.msgs = <<>>
      BY <1>5, <1>7, <3>1
    <3>2. CASE probe.msgs # <<>>
      <4> DEFINE z == 0
                 g == [h EXCEPT !.msgs = keep, !.lc = z]
      <4>1. h.sum \in Nat
        BY <1>5, SessionFields
      <4>2. g \in Session /\ g.msgs = keep /\ g.lc = 0
        BY <1>5, <1>6, <4>1 DEF Session
      <4>3. p = g
        BY <3>2
      <4> HIDE DEF g, p
      <4>4. ~(g.lc > Len(g.msgs))
        BY <4>2, SessionFields
      <4>5. Loaded(g) = g
        BY <4>4 DEF Loaded
      <4>6. ASSUME Waiting PROVE Sees(store.heap[turn.obj], g)
        <5> DEFINE t == store.heap[turn.obj]
        <5>1. t \in Session /\ Sees(t, h)
          BY <1>7, <4>6, StoreTyped, StoreFields
        <5> HIDE DEF t
        <5>2. Sees(t, g)
          BY <1>5, <1>6, <4>2, <5>1, SeesCut
        <5>. QED  BY <5>2 DEF t
      <4>. QED  BY <4>2, <4>3, <4>5, <4>6
    <3>. QED  BY <3>1, <3>2
  <2> HIDE DEF p
  <2>3. /\ u \in Stores /\ u.cached = o /\ u.disk = p /\ Agrees(u)
        /\ \A x \in Obj : x # o => u.heap[x] = w.heap[x]
    BY <1>3, <2>2, WriteStores
  <2> HIDE DEF u
  <2>4. /\ store'.disk = p /\ CacheIsFile'
        /\ \A x \in Obj : x \in {o, turn.obj} => store'.heap[x] = u.heap[x]
    BY <1>1, <2>1, <2>3, SettleStores
  <2>5. JobMoves' /\ TurnArchives'
    BY <1>1, <2>1 DEF JobMoves, TurnArchives, Archives
  <2>6. TurnSees'
    BY <1>1, <1>7, <2>2, <2>3, <2>4 DEF TurnSees
  <2>. QED  BY <2>4, <2>5, <2>6 DEF PromptInv
<1>. QED  BY <1>8, <1>9

\* The replaced messages are an end of what the waiting turn's object holds.
LEMMA CompactedPrompt ==
    ASSUME Inv, PromptInv, NEW outcome \in Outcome, Compacted(outcome)
    PROVE  PromptInv'
<1> DEFINE o == job.obj
           h == store.heap[o]
           n == IF outcome = "summary" THEN Top(job.all) ELSE h.sum
           s == [h EXCEPT !.msgs = job.keep, !.lc = 0, !.sum = n]
           w == Write(store, o, s)
<1>1. /\ job.pc = "compact" /\ job' = NoJob /\ turn' = turn /\ sent' = sent
      /\ crossed' = crossed /\ Settle(w)
  BY DEF Compacted
<1>2. /\ o \in Obj /\ job.keep \in Seq(Message) /\ sent \in Nat
      /\ (turn.pc # "idle" => turn.obj \in Obj) /\ job.all \subseteq 1..sent
  <2>1. job \in JobType /\ o \in Obj /\ sent \in Nat /\ (turn.pc # "idle" => turn.obj \in Obj)
    BY <1>1, Numbers DEF Inv, ControlTypes
  <2>2. job.all \subseteq 1..sent
    BY DEF Inv, Sound, Current
  <2>. QED  BY <2>1, <2>2 DEF JobType
<1>3. store \in Stores /\ h \in Session /\ store.disk \in Session
      /\ \A x \in Obj : store.heap[x] \in Session
  BY <1>2, StoreTyped, StoreFields
<1>4. n \in Nat
  <2>1. job.all \in SUBSET (0..sent)
    <3>1. \A i \in 1..sent : i \in 0..sent
      BY <1>2
    <3>. QED  BY <1>2, <3>1
  <2> DEFINE top == Top(job.all)
  <2>2. top \in job.all \cup {0}
    BY <1>2, <2>1, TopIs
  <2> HIDE DEF top
  <2>3. top \in Nat
    BY <1>2, <2>2
  <2>4. h.sum \in Nat
    BY <1>3, SessionFields
  <2>. QED  BY <2>3, <2>4 DEF top
<1> HIDE DEF n
<1>5. s \in Session /\ s.msgs = job.keep /\ s.lc = 0 /\ s.lc <= Len(s.msgs)
  <2> DEFINE keep == job.keep
             z == 0
             r == [h EXCEPT !.msgs = keep, !.lc = z, !.sum = n]
  <2>1. h.lc \in Nat /\ keep \in Seq(Message) /\ z \in Nat
    BY <1>2, <1>3, SessionFields
  <2>2. s = r
    OBVIOUS
  <2> HIDE DEF h, keep, z, s
  <2>3. r \in Session /\ r.msgs = keep /\ r.lc = z
    BY <1>3, <1>4, <2>1 DEF Session
  <2> HIDE DEF r
  <2>4. r.lc <= Len(r.msgs)
    BY <2>3, SessionFields DEF z
  <2>. QED  BY <2>2, <2>3, <2>4 DEF keep, z
<1>6. ASSUME ~crossed
      PROVE  h = Loaded(store.disk) /\ Follows(job.keep, h)
  <2>1. o = store.cached
    BY <1>1, <1>6 DEF Inv, Covered, Awaiting
  <2>2. Follows(job.keep, h)
    BY <1>1, <1>6 DEF PromptInv, JobMoves
  <2>3. h.lc <= Len(h.msgs)
    BY <1>2, <1>6, SessionsHeld
  <2>4. h \in {store.disk, Loaded(store.disk)}
    BY <1>2, <2>1, ConsolidationAssumption DEF PromptInv, CacheIsFile, Agrees
  <2> HIDE DEF h
  <2>5. h = Loaded(store.disk)
    BY <1>3, <2>3, <2>4, CursorFits
  <2>. QED  BY <2>2, <2>5
<1>7. Waiting => ~crossed /\ turn.obj \in Obj /\ Sees(store.heap[turn.obj], Loaded(store.disk))
  BY <1>2 DEF PromptInv, TurnSees, Waiting
<1> HIDE DEF s, h, o
<1>8. /\ w \in Stores /\ w.cached = o /\ w.disk = s /\ w.heap[o] = s /\ Agrees(w)
      /\ \A x \in Obj : x # o => w.heap[x] = store.heap[x]
  BY <1>2, <1>3, <1>5, WriteStores
<1> HIDE DEF w
<1>9. Loaded(s) = s
  <2>1. ~(s.lc > Len(s.msgs))
    BY <1>5, SessionFields
  <2>. QED  BY <2>1 DEF Loaded
<1>10. ASSUME Waiting
       PROVE  Sees(w.heap[turn.obj], s)
  <2>1. CASE turn.obj = o
    BY <1>5, <1>8, <2>1, SeesSelf
  <2>2. CASE turn.obj # o
    <3> DEFINE t == store.heap[turn.obj]
    <3>1. t \in Session /\ Sees(t, h) /\ Follows(s.msgs, h) /\ w.heap[turn.obj] = t
      BY <1>3, <1>5, <1>6, <1>7, <1>8, <1>10, <2>2
    <3> HIDE DEF t
    <3>2. Sees(t, s)
      BY <1>3, <1>5, <3>1, SeesCut
    <3>. QED  BY <3>1, <3>2
  <2>. QED  BY <2>1, <2>2
<1>11. /\ store'.disk = s /\ CacheIsFile'
       /\ \A x \in Obj : x \in {o, turn.obj} => store'.heap[x] = w.heap[x]
  BY <1>1, <1>8, SettleStores
<1>12. JobMoves' /\ TurnArchives'
  BY <1>1 DEF JobMoves, TurnArchives, Archives, NoJob
<1>13. TurnSees'
  <2>1. Waiting' = Waiting
    BY <1>1 DEF Waiting
  <2>. QED  BY <1>1, <1>7, <1>9, <1>10, <1>11, <2>1 DEF TurnSees
<1>. QED  BY <1>11, <1>12, <1>13 DEF PromptInv

-----------------------------------------------------------------------------
(* The invariant, and what it is for.                                      *)

LEMMA InitPrompt ==
    ASSUME Init
    PROVE  PromptInv
<1>1. store.cached = None /\ job.pc = "none" /\ turn.pc = "idle"
  BY DEF Init, NoJob, NoTurn
<1>. QED  BY <1>1 DEF PromptInv, CacheIsFile, Agrees, JobMoves, TurnSees, TurnArchives,
             Waiting, Archives

\* Only the return of the turn's own consolidation lets a turn run.
LEMMA NextPrompt ==
    ASSUME Inv, PromptInv, Next
    PROVE  PromptInv' /\ PromptStep
<1>1. ~(turn.pc = "build" /\ turn'.pc = "run") => PromptStep
  BY DEF PromptStep
<1>2. NoTurn.pc = "idle"
  BY DEF NoTurn
<1>3. CASE Consolidate
  BY <1>3, ConsolidatePrompt
<1>4. CASE Compact
  <2>1. turn' = turn
    BY <1>4 DEF Compact
  <2>. QED  BY <1>1, <1>4, <2>1, CompactPrompt
<1>5. CASE \E outcome \in Outcome : Archived(outcome)
  BY <1>5, ArchivedPrompt
<1>6. CASE \E outcome \in Outcome : Compacted(outcome)
  <2>1. PICK outcome \in Outcome : Compacted(outcome)
    BY <1>6
  <2>2. turn' = turn
    BY <2>1 DEF Compacted
  <2>. QED  BY <1>1, <2>1, <2>2, CompactedPrompt
<1>7. CASE CheckExpired
  <2>1. turn' = turn
    BY <1>7 DEF CheckExpired
  <2>. QED  BY <1>1, <1>7, <2>1, CheckExpiredPrompt
<1>8. CASE \E direct \in BOOLEAN : Begin(direct)
  <2>1. turn.pc = "idle"
    BY <1>8 DEF Begin
  <2>. QED  BY <1>1, <1>8, <2>1, BeginPrompt
<1>9. CASE End
  <2>1. turn' = NoTurn
    BY <1>9 DEF End
  <2>. QED  BY <1>1, <1>2, <1>9, <2>1, EndPrompt
<1>10. CASE StopBuild
  <2>1. turn' = NoTurn
    BY <1>10 DEF StopBuild
  <2>. QED  BY <1>1, <1>2, <1>10, <2>1, StopBuildPrompt
<1>11. CASE StopRun
  <2>1. turn' = NoTurn
    BY <1>11 DEF StopRun
  <2>. QED  BY <1>1, <1>2, <1>11, <2>1, StopRunPrompt
<1>12. CASE Command
  <2>1. turn' = turn
    BY <1>12 DEF Command
  <2>. QED  BY <1>1, <1>12, <2>1, CommandPrompt
<1>13. CASE New
  <2>1. turn' = turn
    BY <1>13 DEF New
  <2>. QED  BY <1>1, <1>13, <2>1, NewPrompt
<1>14. CASE SnapshotArchived
  <2>1. UNCHANGED <<store, turn, queue, job, sent, crossed>>
    BY <1>14 DEF SnapshotArchived
  <2>. QED  BY <1>1, <2>1, SamePrompt
<1>15. CASE Deliver
  <2>1. turn' = turn
    BY <1>15 DEF Deliver
  <2>. QED  BY <1>1, <1>15, <2>1, DeliverPrompt
<1>16. CASE Crash
  <2>1. turn' = NoTurn
    BY <1>16 DEF Crash, Forget
  <2>. QED  BY <1>1, <1>2, <1>16, <2>1, CrashPrompt
<1>17. CASE Shutdown
  <2>1. turn' = NoTurn
    BY <1>17 DEF Shutdown, Forget
  <2>. QED  BY <1>1, <1>2, <1>17, <2>1, ShutdownPrompt
<1>18. JobStep => \/ Consolidate \/ Compact
                  \/ \E outcome \in Outcome : Archived(outcome)
                  \/ \E outcome \in Outcome : Compacted(outcome)
  BY DEF JobStep
<1>. QED
  BY <1>3, <1>4, <1>5, <1>6, <1>7, <1>8, <1>9, <1>10, <1>11, <1>12, <1>13, <1>14,
     <1>15, <1>16, <1>17, <1>18 DEF Next

LEMMA PromptInvariance == Spec => []PromptInv
<1>1. Init => PromptInv
  BY InitPrompt
<1>2. Inv /\ PromptInv /\ UNCHANGED vars => PromptInv'
  BY SamePrompt DEF vars
<1>3. Inv /\ PromptInv /\ [Next]_vars => PromptInv'
  BY <1>2, NextPrompt
<1>. QED  BY <1>1, <1>3, Invariance, PTL DEF Spec

\* What the replay window hides from the model of a turn is in history.jsonl
\* (maybe_consolidate_by_tokens, _consolidate_replay_overflow, get_history):
\* although the turn's object may not be the one that was consolidated, and
\* whatever compaction and commands did while the turn waited for the lock.
THEOREM PromptsAreWhole == Spec => PromptIsWhole
<1>1. Inv /\ PromptInv /\ [Next]_vars => [PromptStep]_vars
  BY NextPrompt
<1>2. Spec => [][PromptStep]_vars
  BY <1>1, Invariance, PromptInvariance, PTL DEF Spec
<1>. QED  BY <1>2 DEF PromptIsWhole, PromptStep
=============================================================================
