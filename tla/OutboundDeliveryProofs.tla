------------------------ MODULE OutboundDeliveryProofs ------------------------
(***************************************************************************)
(* Proofs about OutboundDelivery, for every set of streams, messages and   *)
(* contents and every limit on attempts, messages and failures.            *)
(***************************************************************************)
EXTENDS OutboundDelivery, SequenceTheorems, TLAPS

Id == 1..Len(log)

\* Everything taken from the bus or still in it, in the order of its turn.
Todo == current \o pending \o queue

-----------------------------------------------------------------------------
(* Sequences.                                                              *)

LEMMA Associative ==
    ASSUME NEW S
    PROVE  \A s, t, u \in Seq(S) : (s \o t) \o u = s \o (t \o u)
<1>. TAKE s, t, u \in Seq(S)
<1>. QED  BY ConcatAssociative

LEMMA Closed ==
    ASSUME NEW S
    PROVE  \A s, t \in Seq(S) : s \o t \in Seq(S)
<1>. TAKE s, t \in Seq(S)
<1>. QED  BY ConcatProperties

LEMMA AppendLast ==
    ASSUME NEW S, NEW a \in Seq(S), NEW b \in Seq(S), NEW c \in Seq(S), NEW e \in S
    PROVE  a \o b \o Append(c, e) = Append(a \o b \o c, e)
<1>1. a \o b \in Seq(S)
  BY ConcatProperties
<1>2. (a \o b) \o c \in Seq(S)
  BY <1>1, ConcatProperties
<1>3. <<e>> \in Seq(S)
  OBVIOUS
<1>4. Append(c, e) = c \o <<e>>
  BY AppendIsConcat
<1>5. Append((a \o b) \o c, e) = ((a \o b) \o c) \o <<e>>
  BY <1>2, AppendIsConcat
<1>6. ((a \o b) \o c) \o <<e>> = (a \o b) \o (c \o <<e>>)
  BY <1>1, <1>3, ConcatAssociative
<1>. QED  BY <1>4, <1>5, <1>6

LEMMA HeadThenTail ==
    ASSUME NEW S, NEW s \in Seq(S), s # <<>>
    PROVE  s = <<Head(s)>> \o Tail(s)
<1>1. /\ Head(s) \in S /\ Tail(s) \in Seq(S)
      /\ Len(Tail(s)) = Len(s) - 1 /\ Len(s) \in Nat \ {0}
      /\ \A i \in 1..Len(Tail(s)) : Tail(s)[i] = s[i + 1]
  BY HeadTailProperties, EmptySeq
<1>2. Head(s) = s[1]
  OBVIOUS
<1>3. <<Head(s)>> \in Seq(S) /\ Len(<<Head(s)>>) = 1 /\ <<Head(s)>>[1] = s[1]
  BY <1>1, <1>2
<1> DEFINE t == <<Head(s)>> \o Tail(s)
<1>4. /\ t \in Seq(S) /\ Len(t) = Len(s)
      /\ \A i \in 1..Len(s) : t[i] = IF i <= 1 THEN <<Head(s)>>[i] ELSE Tail(s)[i - 1]
  BY <1>1, <1>3, ConcatProperties
<1>5. ASSUME NEW i \in 1..Len(s) PROVE t[i] = s[i]
  <2>1. CASE i = 1
    BY <1>1, <1>3, <1>4, <2>1
  <2>2. CASE i # 1
    <3>1. i - 1 \in 1..Len(Tail(s)) /\ ~(i <= 1) /\ (i - 1) + 1 = i
      BY <1>1, <2>2
    <3>2. t[i] = Tail(s)[i - 1]
      BY <1>4, <3>1
    <3>. QED  BY <1>1, <3>1, <3>2
  <2>. QED  BY <2>1, <2>2
<1>6. t = s
  BY <1>4, <1>5, SeqEqual
<1>. QED  BY <1>6

LEMMA PrefixAndRest ==
    ASSUME NEW S, NEW a \in Seq(S), NEW b \in Seq(S)
    PROVE  /\ SubSeq(a \o b, 1, Len(a)) = a
           /\ SubSeq(a \o b, Len(a) + 1, Len(a \o b)) = b
           /\ Len(a \o b) = Len(a) + Len(b)
<1> DEFINE c == a \o b
<1>1. /\ c \in Seq(S) /\ Len(c) = Len(a) + Len(b)
      /\ Len(a) \in Nat /\ Len(b) \in Nat
      /\ \A i \in 1..(Len(a) + Len(b)) : c[i] = IF i <= Len(a) THEN a[i] ELSE b[i - Len(a)]
  BY ConcatProperties, LenProperties
<1> HIDE DEF c
<1>2. \A i \in 1..Len(c) : c[i] \in S
  BY <1>1, ElementOfSeq
<1>3. SubSeq(c, 1, Len(a)) = a
  <2> DEFINE p == SubSeq(c, 1, Len(a))
  <2>1. \A i \in 1..Len(a) : c[i] \in S
    BY <1>1, <1>2
  <2>2. /\ p \in Seq(S) /\ Len(p) = (IF 1 <= Len(a) THEN Len(a) - 1 + 1 ELSE 0)
        /\ \A i \in 1..(Len(a) - 1 + 1) : p[i] = c[1 + i - 1]
    BY <1>1, <2>1, SubSeqProperties
  <2> HIDE DEF p
  <2>3. Len(p) = Len(a) /\ \A i \in 1..Len(a) : p[i] = a[i]
    BY <1>1, <2>2
  <2>4. p = a
    BY <2>2, <2>3, SeqEqual
  <2>. QED  BY <2>4 DEF p
<1>4. SubSeq(c, Len(a) + 1, Len(c)) = b
  <2> DEFINE p == SubSeq(c, Len(a) + 1, Len(c))
  <2>1. \A i \in (Len(a) + 1)..Len(c) : c[i] \in S
    BY <1>1, <1>2
  <2>2. /\ p \in Seq(S)
        /\ Len(p) = (IF Len(a) + 1 <= Len(c) THEN Len(c) - (Len(a) + 1) + 1 ELSE 0)
        /\ \A i \in 1..(Len(c) - (Len(a) + 1) + 1) : p[i] = c[Len(a) + 1 + i - 1]
    BY <1>1, <2>1, SubSeqProperties
  <2> HIDE DEF p
  <2>3. Len(p) = Len(b) /\ Len(c) - (Len(a) + 1) + 1 = Len(b)
    BY <1>1, <2>2
  <2>5. ASSUME NEW i \in 1..Len(b) PROVE p[i] = b[i]
    <3>1. /\ Len(a) + 1 + i - 1 = Len(a) + i /\ Len(a) + i \in 1..(Len(a) + Len(b))
          /\ ~(Len(a) + i <= Len(a)) /\ (Len(a) + i) - Len(a) = i
      BY <1>1
    <3>2. p[i] = c[Len(a) + i]
      BY <2>2, <2>3, <3>1
    <3>3. c[Len(a) + i] = b[i]
      BY <1>1, <3>1
    <3>. QED  BY <3>2, <3>3
  <2>4. p = b
    BY <2>2, <2>3, <2>5, SeqEqual
  <2>. QED  BY <2>4 DEF p
<1>. QED  BY <1>1, <1>3, <1>4 DEF c

LEMMA ThreeParts ==
    ASSUME NEW S, NEW q \in Seq(S), NEW n \in 0..Len(q), NEW t \in n..Len(q)
    PROVE  /\ SubSeq(q, 1, n) \in Seq(S)
           /\ SubSeq(q, n + 1, t) \in Seq(S)
           /\ SubSeq(q, t + 1, Len(q)) \in Seq(S)
           /\ Len(SubSeq(q, 1, n)) = n
           /\ Len(SubSeq(q, n + 1, t)) = t - n
           /\ \A i \in 1..n : SubSeq(q, 1, n)[i] = q[i]
           /\ SubSeq(q, 1, n) \o (SubSeq(q, n + 1, t) \o SubSeq(q, t + 1, Len(q))) = q
<1>1. Len(q) \in Nat /\ \A i \in 1..Len(q) : q[i] \in S
  BY LenProperties, ElementOfSeq
<1>2. /\ SubSeq(q, 1, n) \in Seq(S)
      /\ Len(SubSeq(q, 1, n)) = (IF 1 <= n THEN n - 1 + 1 ELSE 0)
      /\ \A i \in 1..(n - 1 + 1) : SubSeq(q, 1, n)[i] = q[1 + i - 1]
  <2>1. \A i \in 1..n : q[i] \in S
    BY <1>1
  <2>. QED  BY <2>1, <1>1, SubSeqProperties
<1>3. /\ SubSeq(q, n + 1, t) \in Seq(S)
      /\ Len(SubSeq(q, n + 1, t)) = (IF n + 1 <= t THEN t - (n + 1) + 1 ELSE 0)
  <2>1. \A i \in (n + 1)..t : q[i] \in S
    BY <1>1
  <2>. QED  BY <2>1, <1>1, SubSeqProperties
<1>4. SubSeq(q, t + 1, Len(q)) \in Seq(S)
  <2>1. \A i \in (t + 1)..Len(q) : q[i] \in S
    BY <1>1
  <2>. QED  BY <2>1, <1>1, SubSeqProperties
<1>5. SubSeq(q, n + 1, t) \o SubSeq(q, t + 1, Len(q)) = SubSeq(q, n + 1, Len(q))
  <2>1. n + 1 \in 1..(Len(q) + 1) /\ t \in ((n + 1) - 1)..Len(q) /\ Len(q) \in t..Len(q)
    BY <1>1
  <2>. QED  BY <2>1, ConcatAdjacentSubSeq
<1>6. SubSeq(q, 1, n) \o SubSeq(q, n + 1, Len(q)) = SubSeq(q, 1, Len(q))
  <2>1. 1 \in 1..(Len(q) + 1) /\ n \in (1 - 1)..Len(q) /\ Len(q) \in n..Len(q)
    BY <1>1
  <2>. QED  BY <2>1, ConcatAdjacentSubSeq
<1>7. SubSeq(q, 1, Len(q)) = q
  BY SubSeqFull
<1>8. /\ Len(SubSeq(q, 1, n)) = n
      /\ \A i \in 1..n : SubSeq(q, 1, n)[i] = q[i]
  BY <1>1, <1>2
<1>9. Len(SubSeq(q, n + 1, t)) = t - n
  BY <1>1, <1>3
<1>. QED  BY <1>2, <1>3, <1>4, <1>5, <1>6, <1>7, <1>8, <1>9

\* A message, the n that join it, the next up to k and the others.
LEMMA FourParts ==
    ASSUME NEW S, NEW m \in S, NEW q \in Seq(S), NEW n \in 0..Len(q), NEW k \in n..Len(q)
    PROVE  (<<m>> \o SubSeq(q, 1, n)) \o (<<>> \o SubSeq(q, n + 1, k))
              \o SubSeq(q, k + 1, Len(q)) = <<m>> \o q
<1> DEFINE a == SubSeq(q, 1, n)
           b == SubSeq(q, n + 1, k)
           c == SubSeq(q, k + 1, Len(q))
           h == <<m>>
           bc == b \o c
<1>0. \A s, t, u \in Seq(S) : (s \o t) \o u = s \o (t \o u)
  BY Associative
<1>1. a \in Seq(S)
  BY ThreeParts
<1>2. b \in Seq(S)
  BY ThreeParts
<1>3. c \in Seq(S)
  BY ThreeParts
<1>4. a \o (b \o c) = q
  BY ThreeParts
<1>5. h \in Seq(S)
  OBVIOUS
<1> HIDE DEF a, b, c, h
<1>6. bc \in Seq(S)
  BY <1>2, <1>3, Closed, Zenon
<1>7. h \o a \in Seq(S)
  BY <1>1, <1>5, Closed, Zenon
<1>8. <<>> \o b = b
  BY <1>2, ConcatEmptySeq
<1>9. ((h \o a) \o b) \o c = (h \o a) \o (b \o c)
  BY <1>0, <1>2, <1>3, <1>7, Zenon
<1> HIDE DEF bc
<1>10. (h \o a) \o bc = h \o (a \o bc)
  BY <1>0, <1>1, <1>5, <1>6, Zenon
<1>11. ((h \o a) \o (<<>> \o b)) \o c = h \o q
  BY <1>4, <1>8, <1>9, <1>10, Zenon DEF bc
<1>. QED  BY <1>11 DEF a, b, c, h

\* The first of them.
LEMMA FrontPart ==
    ASSUME NEW S, NEW m \in S, NEW q \in Seq(S), NEW n \in 0..Len(q)
    PROVE  /\ <<m>> \o SubSeq(q, 1, n) \in Seq(S)
           /\ Len(<<m>> \o SubSeq(q, 1, n)) = n + 1
           /\ (<<m>> \o SubSeq(q, 1, n))[1] = m
           /\ \A i \in 1..n : (<<m>> \o SubSeq(q, 1, n))[i + 1] = q[i]
<1> DEFINE a == SubSeq(q, 1, n)
           h == <<m>>
<1>1. a \in Seq(S) /\ Len(a) = n /\ \A i \in 1..n : a[i] = q[i]
  <2>1. n \in n..Len(q)
    BY LenProperties
  <2>. QED  BY <2>1, ThreeParts
<1>2. h \in Seq(S) /\ Len(h) = 1 /\ h[1] = m /\ n \in Nat
  BY LenProperties
<1> HIDE DEF a, h
<1>4. /\ h \o a \in Seq(S) /\ Len(h \o a) = Len(h) + Len(a)
      /\ \A i \in 1..(Len(h) + Len(a)) :
            (h \o a)[i] = IF i <= Len(h) THEN h[i] ELSE a[i - Len(h)]
  BY <1>1, <1>2, ConcatProperties
<1>5. (h \o a)[1] = m
  BY <1>1, <1>2, <1>4
<1>6. ASSUME NEW i \in 1..n PROVE (h \o a)[i + 1] = q[i]
  <2>1. i + 1 \in 1..(1 + n) /\ ~(i + 1 <= 1) /\ (i + 1) - 1 = i
    BY <1>2
  <2>2. (h \o a)[i + 1] = a[i]
    BY <1>1, <1>2, <1>4, <2>1
  <2>. QED  BY <1>1, <2>2
<1>9. Len(h \o a) = n + 1
  BY <1>1, <1>2, <1>4
<1>. QED  BY <1>4, <1>5, <1>6, <1>9 DEF a, h

LEMMA Behind ==
    ASSUME NEW S, NEW a \in Seq(S), NEW b \in Seq(S)
    PROVE  /\ Len(a \o b) = Len(a) + Len(b) /\ Len(a) \in Nat /\ Len(b) \in Nat
           /\ \A i \in 1..Len(a) : (a \o b)[i] = a[i]
           /\ \A i \in 1..Len(b) : (a \o b)[Len(a) + i] = b[i]
<1> DEFINE c == a \o b
<1>1. /\ Len(c) = Len(a) + Len(b) /\ Len(a) \in Nat /\ Len(b) \in Nat
      /\ \A i \in 1..(Len(a) + Len(b)) : c[i] = IF i <= Len(a) THEN a[i] ELSE b[i - Len(a)]
  BY ConcatProperties, LenProperties
<1> HIDE DEF c
<1>2. \A i \in 1..Len(a) : c[i] = a[i]
  BY <1>1
<1>3. ASSUME NEW i \in 1..Len(b) PROVE c[Len(a) + i] = b[i]
  <2>1. /\ Len(a) + i \in 1..(Len(a) + Len(b)) /\ ~(Len(a) + i <= Len(a))
        /\ (Len(a) + i) - Len(a) = i
    BY <1>1
  <2>. QED  BY <1>1, <2>1
<1>. QED  BY <1>1, <1>2, <1>3 DEF c

Increasing(s) == \A i, j \in 1..Len(s) : i < j => s[i] < s[j]

\* The elements of s behind the first n are above k.
Above(k, n, s) == \A i \in 1..Len(s) : i > n => k < s[i]

LEMMA IncreasingRest ==
    ASSUME NEW S, NEW a \in Seq(S), NEW b \in Seq(S), Increasing(a \o b)
    PROVE  Increasing(b)
<1> DEFINE c == a \o b
<1>1. /\ Len(c) = Len(a) + Len(b) /\ Len(a) \in Nat /\ Len(b) \in Nat
      /\ \A i \in 1..Len(b) : c[Len(a) + i] = b[i]
      /\ \A i, j \in 1..Len(c) : i < j => c[i] < c[j]
  BY Behind DEF Increasing
<1> HIDE DEF c
<1>2. ASSUME NEW i \in 1..Len(b), NEW j \in 1..Len(b), i < j PROVE b[i] < b[j]
  <2>1. Len(a) + i \in 1..Len(c) /\ Len(a) + j \in 1..Len(c) /\ Len(a) + i < Len(a) + j
    BY <1>1, <1>2
  <2>2. c[Len(a) + i] < c[Len(a) + j]
    BY <1>1, <2>1
  <2>. QED  BY <1>1, <2>2
<1>. QED  BY <1>2 DEF Increasing

LEMMA AboveRest ==
    ASSUME NEW S, NEW a \in Seq(S), NEW b \in Seq(S), NEW k, NEW n \in Nat,
           n <= Len(a), Above(k, n, a \o b)
    PROVE  Above(k, 0, b)
<1> DEFINE c == a \o b
<1>1. /\ Len(c) = Len(a) + Len(b) /\ Len(a) \in Nat /\ Len(b) \in Nat
      /\ \A i \in 1..Len(b) : c[Len(a) + i] = b[i]
      /\ \A i \in 1..Len(c) : i > n => k < c[i]
  BY Behind DEF Above
<1> HIDE DEF c
<1>2. ASSUME NEW i \in 1..Len(b) PROVE k < b[i]
  <2>1. Len(a) + i \in 1..Len(c) /\ Len(a) + i > n
    BY <1>1
  <2>. QED  BY <1>1, <2>1
<1>. QED  BY <1>2 DEF Above

-----------------------------------------------------------------------------
(* The inductive invariant.                                                *)

\* The call in progress is one that OutboundFifo allows.
InOneCall == current # <<>> => Fifo!OneMessage(current)

\* What is taken next was published later.
InOrder == Increasing(Todo)

\* The message k that _origin_reply_fingerprints remembers for stream s was
\* handed to its channel, and everything still to come is younger.
Remembers(s, k) ==
    /\ log[k].to = s /\ log[k].says = said[s]
    /\ log[k].kind \in {"reply", "late"}
    /\ \/ k \in Delivered \cup gaveUp
       \/ current = <<k>>
       \/ ~up
    /\ Above(k, Len(current), Todo)

Remembered == \A s \in Stream : said[s] # NoContent => \E k \in Id : Remembers(s, k)

OutboundInv == TypeOK /\ InOneCall /\ InOrder /\ Remembered /\ SuppressedWasSaid

LEMMA TodoType ==
    ASSUME TypeOK
    PROVE  /\ Todo \in Seq(Id) /\ Len(log) \in Nat
           /\ current \in Seq(Id) /\ pending \in Seq(Id) /\ queue \in Seq(Id)
           /\ pending \o queue \in Seq(Id)
           /\ Todo = current \o (pending \o queue)
<1>1. current \in Seq(Id) /\ pending \in Seq(Id) /\ queue \in Seq(Id)
  BY DEF TypeOK, Id
<1>2. Len(log) \in Nat
  BY LenProperties DEF TypeOK
<1>3. current \o pending \in Seq(Id) /\ pending \o queue \in Seq(Id)
  BY <1>1, ConcatProperties
<1>4. (current \o pending) \o queue \in Seq(Id)
  BY <1>1, <1>3, ConcatProperties
<1>5. (current \o pending) \o queue = current \o (pending \o queue)
  BY <1>1, ConcatAssociative
<1>. QED  BY <1>1, <1>2, <1>3, <1>4, <1>5 DEF Todo

\* A step of Take looks at the oldest message m; q remains behind it.
Takes(m, q) ==
    /\ Todo = <<m>> \o q
    /\ Handle(m, <<>>, q)

LEMMA Taking ==
    ASSUME TypeOK, Take
    PROVE  \E m \in Id, q \in Seq(Id) : Takes(m, q)
<1>1. /\ current = <<>> /\ pending \in Seq(Id) /\ queue \in Seq(Id)
      /\ Len(pending) <= 1 /\ pending \o queue \in Seq(Id)
      /\ Todo = <<>> \o (pending \o queue)
  BY TodoType DEF TypeOK, Take
<1>2. Todo = pending \o queue
  BY <1>1, ConcatEmptySeq
<1>3. CASE pending # <<>>
  <2>1. /\ Head(pending) \in Id /\ Tail(pending) \in Seq(Id)
        /\ Len(Tail(pending)) = Len(pending) - 1 /\ Len(pending) \in Nat \ {0}
        /\ pending = <<Head(pending)>> \o Tail(pending)
    BY <1>1, <1>3, HeadTailProperties, EmptySeq, HeadThenTail
  <2>2. Len(Tail(pending)) = 0
    BY <1>1, <2>1
  <2>3. Tail(pending) = <<>>
    BY <2>1, <2>2, EmptySeq
  <2>4. <<Head(pending)>> \in Seq(Id)
    BY <2>1
  <2>5. pending = <<Head(pending)>>
    BY <2>1, <2>3, <2>4, ConcatEmptySeq
  <2>6. Handle(Head(pending), <<>>, queue)
    BY <1>3, <2>3 DEF Take
  <2>8. Takes(Head(pending), queue)
    BY <1>2, <2>5, <2>6 DEF Takes
  <2>. QED  BY <1>1, <2>1, <2>8
<1>4. CASE pending = <<>>
  <2>1. queue # <<>> /\ Handle(Head(queue), <<>>, Tail(queue))
    BY <1>4 DEF Take
  <2>2. /\ Head(queue) \in Id /\ Tail(queue) \in Seq(Id)
        /\ queue = <<Head(queue)>> \o Tail(queue)
    BY <1>1, <2>1, HeadTailProperties, HeadThenTail
  <2>3. Todo = queue
    BY <1>1, <1>2, <1>4, ConcatEmptySeq
  <2>6. Takes(Head(queue), Tail(queue))
    BY <2>1, <2>2, <2>3 DEF Takes
  <2>. QED  BY <2>2, <2>6
<1>. QED  BY <1>3, <1>4

\* The joined messages and the one behind them: a take moves messages on
\* without changing their order.
LEMMA Coalesced ==
    ASSUME TypeOK, NEW m \in Id, NEW q \in Seq(Id), Coalesce(m, <<>>, q),
           log' = log, log[m].kind = "delta"
    PROVE  /\ current' \in Seq(Id) /\ pending' \in Seq(Id) /\ queue' \in Seq(Id)
           /\ Len(pending') <= 1
           /\ current' \o pending' \o queue' = <<m>> \o q
           /\ Fifo!OneMessage(current)'
<1>1. PICK n \in 0..Len(q) :
         LET taken == IF Boundary(q, n) THEN n + 1 ELSE n
         IN  /\ Joins(m, q, n)
             /\ current' = <<m>> \o SubSeq(q, 1, n)
             /\ pending' = <<>> \o SubSeq(q, n + 1, taken)
             /\ queue' = SubSeq(q, taken + 1, Len(q))
  BY DEF Coalesce, JoinsAll
<1> DEFINE k == IF Boundary(q, n) THEN n + 1 ELSE n
<1>2. Len(q) \in Nat /\ k \in n..Len(q) /\ k - n <= 1 /\ n \in Nat
  BY LenProperties DEF Boundary
<1>3. /\ Joins(m, q, n)
      /\ current' = <<m>> \o SubSeq(q, 1, n)
      /\ pending' = <<>> \o SubSeq(q, n + 1, k)
      /\ queue' = SubSeq(q, k + 1, Len(q))
  BY <1>1
<1> HIDE DEF k
<1>4. /\ current' \in Seq(Id) /\ Len(current') = n + 1
      /\ current'[1] = m /\ \A i \in 1..n : current'[i + 1] = q[i]
  BY <1>3, FrontPart
<1>5. current' \o pending' \o queue' = <<m>> \o q
  BY <1>2, <1>3, FourParts
<1>6. SubSeq(q, n + 1, k) \in Seq(Id) /\ Len(SubSeq(q, n + 1, k)) = k - n
  BY <1>2, ThreeParts
<1>7. pending' = SubSeq(q, n + 1, k)
  BY <1>3, <1>6, ConcatEmptySeq
<1>8. queue' \in Seq(Id)
  BY <1>2, <1>3, ThreeParts
<1>11. ASSUME NEW i \in 1..(n + 1)
       PROVE  /\ log[current'[i]].to = log[m].to
              /\ log[current'[i]].kind \in {"delta", "end"}
              /\ i < n + 1 => log[current'[i]].kind = "delta"
  <2>1. CASE i = 1
    BY <1>2, <1>4, <2>1
  <2>2. CASE i # 1
    <3>1. i - 1 \in 1..n /\ (i - 1) + 1 = i /\ (i < n + 1 => i - 1 < n)
      BY <1>2, <2>2
    <3>2. current'[i] = q[i - 1]
      BY <1>4, <3>1
    <3>. QED  BY <1>3, <3>1, <3>2 DEF Joins
  <2>. QED  BY <2>1, <2>2
<1>12. Fifo!OneMessage(current)'
  <2>1. current' # <<>>
    BY <1>2, <1>4, EmptySeq
  <2>2. \A i \in 1..Len(current') : log'[current'[i]].to = log'[current'[1]].to
    BY <1>4, <1>11
  <2>3. \A i \in 1..(Len(current') - 1) : log'[current'[i]].kind = "delta"
    BY <1>2, <1>4, <1>11
  <2>4. log'[current'[Len(current')]].kind \in {"delta", "end"}
    BY <1>2, <1>4, <1>11
  <2>. QED  BY <2>1, <2>2, <2>3, <2>4 DEF Fifo!OneMessage
<1>13. Len(pending') <= 1
  BY <1>2, <1>6, <1>7
<1>. QED  BY <1>4, <1>5, <1>6, <1>7, <1>8, <1>12, <1>13

\* What a step of Take does with the oldest message.
Moves == Todo' = Todo /\ UNCHANGED <<said, suppressed>>

Hides(m) ==
    /\ Todo' \in Seq(Id) /\ Todo = <<m>> \o Todo' /\ current' = <<>>
    /\ UNCHANGED <<said, suppressed>>

Answers(m) ==
    /\ Todo' = Todo /\ current' = <<m>> /\ log[m].kind \in {"reply", "late"}
    /\ said' = [said EXCEPT ![log[m].to] = log[m].says]
    /\ UNCHANGED suppressed

Suppresses(m) ==
    /\ Todo' \in Seq(Id) /\ Todo = <<m>> \o Todo' /\ current' = <<>>
    /\ said[log[m].to] = log[m].says
    /\ suppressed' = suppressed \cup {m}
    /\ UNCHANGED said

QueuesType ==
    /\ current \in Seq(Id) /\ pending \in Seq(Id) /\ queue \in Seq(Id)
    /\ Len(pending) <= 1

LEMMA Plain ==
    ASSUME NEW S, NEW m \in S, NEW q \in Seq(S)
    PROVE  <<m>> \o <<>> \o q = <<m>> \o q /\ <<>> \o <<>> \o q = q
<1>1. <<m>> \in Seq(S)
  OBVIOUS
<1>2. <<m>> \o <<>> = <<m>>
  BY <1>1, ConcatEmptySeq
<1>3. <<>> \o <<>> = <<>>
  BY EmptySeq, ConcatEmptySeq
<1>4. <<>> \o q = q
  BY ConcatEmptySeq
<1>. QED  BY <1>2, <1>3, <1>4

LEMMA Taken ==
    ASSUME TypeOK, Take
    PROVE  \E m \in Id, q \in Seq(Id) :
              /\ Todo = <<m>> \o q /\ current = <<>> /\ up
              /\ QueuesType' /\ InOneCall'
              /\ Moves \/ Hides(m) \/ Answers(m) \/ Suppresses(m)
<1>1. PICK m \in Id, q \in Seq(Id) : Takes(m, q)
  BY Taking
<1>2. Todo = <<m>> \o q /\ Handle(m, <<>>, q) /\ current = <<>> /\ up /\ log' = log
  BY <1>1 DEF Takes, Take
<1>3. Len(log) \in Nat /\ Id' = Id
  BY <1>2, LenProperties DEF TypeOK, Id
<1>4. log[m] \in Item /\ log[m].kind \in Kind
  BY ElementOfSeq, OutboundAssumption DEF TypeOK, Id
<1>5. ASSUME current' \in {<<>>, <<m>>}, pending' = <<>>, queue' = q
      PROVE  QueuesType' /\ InOneCall' /\ Todo' = current' \o q /\ Todo' \in Seq(Id)
  <2>0. <<>> \in Seq(Id) /\ Len(<<>>) = 0 /\ <<m>> \in Seq(Id)
    BY EmptySeq
  <2>1. current' \in Seq(Id) /\ pending' \in Seq(Id) /\ Len(pending') = 0
    BY <1>5, <2>0
  <2>2. QueuesType'
    BY <1>3, <1>5, <2>1 DEF QueuesType
  <2>3. current' # <<>> => Len(current') = 1
    BY <1>5
  <2>4. InOneCall'
    <3>1. current' # <<>> => Fifo!OneMessage(current)'
      <4>. SUFFICES ASSUME current' # <<>> PROVE Fifo!OneMessage(current)'
        OBVIOUS
      <4>1. Len(current') = 1
        BY <2>3, Zenon
      <4>2. ~(Len(current') > 1)
        BY <4>1
      <4>. QED  BY <4>2, Zenon DEF Fifo!OneMessage
    <3>. QED  BY <3>1 DEF InOneCall
  <2>5. Todo' = current' \o q
    <3>1. CASE current' = <<>>
      BY <1>5, <3>1, Plain, ConcatEmptySeq DEF Todo
    <3>2. CASE current' = <<m>>
      BY <1>5, <3>2, Plain DEF Todo
    <3>. QED  BY <1>5, <3>1, <3>2
  <2>. QED  BY <2>1, <2>2, <2>4, <2>5, ConcatProperties
<1>6. CASE log[m].kind = "delta"
  <2>1. Coalesce(m, <<>>, q) /\ UNCHANGED <<said, suppressed>>
    BY <1>2, <1>6 DEF Handle, Coalesce
  <2>2. /\ current' \in Seq(Id) /\ pending' \in Seq(Id) /\ queue' \in Seq(Id)
        /\ Len(pending') <= 1
        /\ current' \o pending' \o queue' = <<m>> \o q
        /\ Fifo!OneMessage(current)'
    BY <1>2, <1>6, <2>1, Coalesced
  <2>3. Moves
    BY <1>2, <2>1, <2>2 DEF Moves, Todo
  <2>4. QueuesType' /\ InOneCall'
    BY <1>3, <2>2 DEF QueuesType, InOneCall
  <2>. QED  BY <1>2, <2>3, <2>4
<1>7. CASE log[m].kind \in {"end", "other"}
  <2>1. current' = <<m>> /\ pending' = <<>> /\ queue' = q /\ UNCHANGED <<said, suppressed>>
    BY <1>2, <1>7 DEF Handle
  <2>2. Moves
    BY <1>2, <1>5, <2>1 DEF Moves
  <2>. QED  BY <1>2, <1>5, <2>1, <2>2
<1>8. CASE log[m].kind = "hidden"
  <2>1. current' = <<>> /\ pending' = <<>> /\ queue' = q /\ UNCHANGED <<said, suppressed>>
    BY <1>2, <1>8 DEF Handle
  <2>2. Todo' = q
    BY <1>5, <2>1, ConcatEmptySeq
  <2>3. Hides(m)
    BY <1>2, <2>1, <2>2 DEF Hides
  <2>. QED  BY <1>2, <1>5, <2>1, <2>3
<1>9. CASE log[m].kind \in {"reply", "late"}
  <2>1. Reply(m) /\ pending' = <<>> /\ queue' = q
    BY <1>2, <1>9 DEF Handle
  <2>2. CASE log[m].kind = "late" /\ said[log[m].to] = log[m].says
    <3>1. current' = <<>> /\ said' = said /\ suppressed' = suppressed \cup {m}
      BY <1>2, <2>1, <2>2 DEF Reply
    <3>2. Todo' = q
      BY <1>5, <2>1, <3>1, ConcatEmptySeq
    <3>3. Suppresses(m)
      BY <1>2, <2>2, <3>1, <3>2 DEF Suppresses
    <3>. QED  BY <1>2, <1>5, <2>1, <3>1, <3>3
  <2>3. CASE ~(log[m].kind = "late" /\ said[log[m].to] = log[m].says)
    <3>1. /\ current' = <<m>> /\ suppressed' = suppressed
          /\ said' = [said EXCEPT ![log[m].to] = log[m].says]
      BY <2>1, <2>3 DEF Reply
    <3>2. Answers(m)
      BY <1>2, <1>5, <1>9, <2>1, <3>1 DEF Answers
    <3>. QED  BY <1>2, <1>5, <2>1, <3>1, <3>2
  <2>. QED  BY <2>2, <2>3
<1>. QED  BY <1>4, <1>6, <1>7, <1>8, <1>9 DEF Kind

-----------------------------------------------------------------------------
(* Every step keeps the invariant.                                         *)

\* A settled message stays settled, the message in hand becomes so.
LEMMA DeliveredGrows ==
    ASSUME TypeOK, got' = Append(got, current)
    PROVE  Delivered \subseteq Delivered' /\ Ids(current) \subseteq Delivered'
<1>1. /\ got \in Seq(Seq(Id)) /\ current \in Seq(Id) /\ Len(got) \in Nat
  BY LenProperties DEF TypeOK, Id
<1>2. /\ Len(got') = Len(got) + 1 /\ got'[Len(got) + 1] = current
      /\ \A i \in 1..Len(got) : got'[i] = got[i]
  BY <1>1, AppendProperties
<1>3. ASSUME NEW k \in Delivered PROVE k \in Delivered'
  <2>1. PICK i \in 1..Len(got) : k \in Ids(got[i])
    BY DEF Delivered
  <2>2. i \in 1..Len(got') /\ k \in Ids(got'[i])
    BY <1>1, <1>2, <2>1
  <2>. QED  BY <2>2 DEF Delivered, Ids
<1>4. ASSUME NEW k \in Ids(current) PROVE k \in Delivered'
  <2>1. Len(got) + 1 \in 1..Len(got') /\ k \in Ids(got'[Len(got) + 1])
    BY <1>1, <1>2
  <2>. QED  BY <2>1 DEF Delivered, Ids
<1>. QED  BY <1>3, <1>4

\* What is settled, or can be disregarded.
Past(k) == k \in Delivered \cup gaveUp \/ current = <<k>> \/ ~up

LEMMA RememberedKept ==
    ASSUME Remembered, TypeOK, said' = said, Id \subseteq Id',
           \A k \in Id : log'[k] = log[k],
           \A k \in Id : Past(k) => Past(k)',
           \A k \in Id : Above(k, Len(current), Todo) => Above(k, Len(current'), Todo')
    PROVE  Remembered'
<1>. SUFFICES ASSUME NEW s \in Stream, said'[s] # NoContent
              PROVE  \E k \in Id' : Remembers(s, k)'
  BY DEF Remembered
<1>1. PICK k \in Id : Remembers(s, k)
  BY DEF Remembered
<1>2. Past(k) /\ Above(k, Len(current), Todo)
  BY <1>1 DEF Remembers, Past
<1>3. Past(k)' /\ Above(k, Len(current'), Todo')
  BY <1>2
<1>4. /\ log'[k].to = s /\ log'[k].says = said'[s] /\ log'[k].kind \in {"reply", "late"}
  BY <1>1 DEF Remembers
<1>5. Remembers(s, k)'
  BY <1>3, <1>4 DEF Remembers, Past
<1>. QED  BY <1>5

LEMMA SuppressedKept ==
    ASSUME SuppressedWasSaid, TypeOK, suppressed' = suppressed,
           \A k \in Id : log'[k] = log[k],
           Delivered \cup gaveUp \subseteq Delivered' \cup gaveUp'
    PROVE  SuppressedWasSaid'
<1>. SUFFICES ASSUME NEW m \in suppressed
              PROVE  \E k \in 1..(m - 1) : /\ log'[k].to = log'[m].to
                                           /\ log'[k].says = log'[m].says
                                           /\ log'[k].kind \in {"reply", "late"}
                                           /\ k \in Delivered' \cup gaveUp'
  BY DEF SuppressedWasSaid
<1>1. m \in Id /\ Len(log) \in Nat
  BY LenProperties DEF TypeOK, Id
<1>2. PICK k \in 1..(m - 1) : /\ log[k].to = log[m].to /\ log[k].says = log[m].says
                              /\ log[k].kind \in {"reply", "late"}
                              /\ k \in Delivered \cup gaveUp
  BY DEF SuppressedWasSaid
<1>3. k \in Id
  BY <1>1 DEF Id
<1>. QED  BY <1>1, <1>2, <1>3

\* The front part of Todo is taken away.
LEMMA Dropped ==
    ASSUME TypeOK, InOrder, NEW a \in Seq(Id), Todo' \in Seq(Id), Todo = a \o Todo',
           Len(current) <= Len(a), current' = <<>>
    PROVE  /\ InOrder'
           /\ \A k \in Id : Above(k, Len(current), Todo) => Above(k, Len(current'), Todo')
<1>1. Increasing(Todo')
  BY IncreasingRest DEF InOrder
<1>2. Len(current) \in Nat /\ Len(current') = 0
  BY LenProperties, EmptySeq DEF TypeOK
<1>3. ASSUME NEW k \in Id, Above(k, Len(current), Todo) PROVE Above(k, 0, Todo')
  BY <1>2, <1>3, AboveRest
<1>. QED  BY <1>1, <1>2, <1>3 DEF InOrder

LEMMA CallEnds ==
    ASSUME TypeOK, current' = <<>>, UNCHANGED <<pending, queue>>
    PROVE  /\ Todo' \in Seq(Id) /\ Todo = current \o Todo'
<1> DEFINE rest == pending \o queue
<1>1. /\ Todo = current \o rest /\ rest \in Seq(Id) /\ pending \in Seq(Id)
  BY TodoType
<1>2. <<>> \o pending = pending
  BY <1>1, ConcatEmptySeq
<1>3. Todo' = rest
  BY <1>2 DEF Todo
<1>. QED  BY <1>1, <1>3

LEMMA TakeKeeps ==
    ASSUME OutboundInv, Take
    PROVE  OutboundInv'
<1>1. PICK m \in Id, q \in Seq(Id) :
         /\ Todo = <<m>> \o q /\ current = <<>> /\ up
         /\ QueuesType' /\ InOneCall'
         /\ Moves \/ Hides(m) \/ Answers(m) \/ Suppresses(m)
  BY Taken DEF OutboundInv
<1>2. /\ TypeOK /\ InOrder /\ Remembered /\ SuppressedWasSaid
      /\ UNCHANGED <<log, attempts, failures, got, gaveUp, up>>
  BY DEF OutboundInv, Take
<1>3. Id' = Id /\ Len(log) \in Nat /\ Len(current) = 0
  BY <1>1, <1>2, LenProperties, EmptySeq DEF TypeOK, Id
<1>4. log[m] \in Item /\ log[m].to \in Stream /\ log[m].says \in Content
  BY <1>2, ElementOfSeq, OutboundAssumption DEF TypeOK, Id
<1>5. TypeOK'
  <2>1. said' \in [Stream -> Content \cup {NoContent}] /\ suppressed' \subseteq Id
    BY <1>1, <1>2, <1>4 DEF TypeOK, Moves, Hides, Answers, Suppresses, Id
  <2>. QED  BY <1>1, <1>2, <1>3, <2>1 DEF TypeOK, QueuesType, Id
<1>6. Delivered' = Delivered /\ gaveUp' = gaveUp
  BY <1>2 DEF Delivered
<1>7. \A k \in Id : Past(k) => Past(k)'
  <2>1. ASSUME NEW k \in Id, current = <<k>> PROVE FALSE
    BY <1>1, <2>1
  <2>. QED  BY <1>1, <1>2, <1>6, <2>1 DEF Past
<1>8. <<m>> \in Seq(Id) /\ Len(<<m>>) = 1 /\ <<m>>[1] = m
  OBVIOUS
<1>9. CASE Moves
  <2>1. InOrder'
    BY <1>2, <1>9 DEF InOrder, Moves
  <2>2. ASSUME NEW k \in Id, Above(k, Len(current), Todo)
        PROVE  Above(k, Len(current'), Todo')
    <3>1. Len(current') \in Nat /\ Todo' = Todo
      BY <1>1, <1>9, LenProperties DEF QueuesType, Moves
    <3>. QED  BY <1>3, <2>2, <3>1 DEF Above
  <2>3. Remembered'
    BY <1>2, <1>3, <1>7, <1>9, <2>2, RememberedKept DEF Moves
  <2>4. SuppressedWasSaid'
    BY <1>2, <1>6, <1>9, SuppressedKept DEF Moves
  <2>. QED  BY <1>1, <1>5, <2>1, <2>3, <2>4 DEF OutboundInv
<1>10. CASE Hides(m)
  <2>1. /\ InOrder'
        /\ \A k \in Id : Above(k, Len(current), Todo) => Above(k, Len(current'), Todo')
    <3> DEFINE a == <<m>>
    <3>1. /\ a \in Seq(Id) /\ Todo = a \o Todo' /\ Todo' \in Seq(Id) /\ current' = <<>>
          /\ Len(current) <= Len(a)
      BY <1>3, <1>8, <1>10 DEF Hides
    <3> HIDE DEF a
    <3>. QED  BY <1>2, <3>1, Dropped
  <2>2. Remembered'
    BY <1>2, <1>3, <1>7, <1>10, <2>1, RememberedKept DEF Hides
  <2>3. SuppressedWasSaid'
    BY <1>2, <1>6, <1>10, SuppressedKept DEF Hides
  <2>. QED  BY <1>1, <1>5, <2>1, <2>2, <2>3 DEF OutboundInv
<1>13. 1 \in 1..Len(Todo) /\ Todo[1] = m /\ Todo \in Seq(Id) /\ Len(Todo) \in Nat
  BY <1>1, <1>2, <1>8, Behind, TodoType
<1>14. ASSUME NEW s \in Stream, said[s] # NoContent
       PROVE  \E k \in Id : /\ Remembers(s, k)
                            /\ k \in Delivered \cup gaveUp
                            /\ Above(k, 0, Todo)
  <2>1. PICK k \in Id : Remembers(s, k)
    BY <1>2, <1>14 DEF Remembered
  <2>2. current # <<k>>
    BY <1>1
  <2>. QED  BY <1>1, <1>3, <2>1, <2>2 DEF Remembers
<1>11. CASE Answers(m)
  <2>1. InOrder'
    BY <1>2, <1>11 DEF InOrder, Answers
  <2>2. Len(current') = 1
    BY <1>8, <1>11 DEF Answers
  <2>3. Above(m, 1, Todo)
    BY <1>2, <1>13 DEF InOrder, Increasing, Above
  <2>4. ASSUME NEW s \in Stream, said'[s] # NoContent
        PROVE  \E k \in Id' : Remembers(s, k)'
    <3>1. CASE s = log[m].to
      <4>1. said'[s] = log[m].says
        BY <1>2, <1>11, <3>1 DEF Answers, TypeOK
      <4>2. log[m].kind \in {"reply", "late"} /\ current' = <<m>> /\ Todo' = Todo
        BY <1>11 DEF Answers
      <4>3. Remembers(s, m)'
        BY <1>2, <2>2, <2>3, <3>1, <4>1, <4>2 DEF Remembers
      <4>. QED  BY <1>3, <4>3
    <3>2. CASE s # log[m].to
      <4>1. said'[s] = said[s]
        BY <1>2, <1>11, <3>2 DEF Answers, TypeOK
      <4>2. PICK k \in Id : /\ Remembers(s, k) /\ k \in Delivered \cup gaveUp
                            /\ Above(k, 0, Todo)
        BY <1>14, <2>4, <4>1
      <4>3. Above(k, 1, Todo')
        BY <1>11, <1>13, <4>2 DEF Above, Answers
      <4>4. log[k].to = s /\ log[k].says = said'[s] /\ log[k].kind \in {"reply", "late"}
        BY <4>1, <4>2 DEF Remembers
      <4>5. Remembers(s, k)'
        BY <1>2, <1>6, <2>2, <4>2, <4>3, <4>4 DEF Remembers
      <4>. QED  BY <1>3, <4>5
    <3>. QED  BY <3>1, <3>2
  <2>5. SuppressedWasSaid'
    BY <1>2, <1>6, <1>11, SuppressedKept DEF Answers
  <2>6. Remembered'
    BY <2>4 DEF Remembered
  <2>. QED  BY <1>1, <1>5, <2>1, <2>5, <2>6 DEF OutboundInv
<1>12. CASE Suppresses(m)
  <2>1. /\ InOrder'
        /\ \A k \in Id : Above(k, Len(current), Todo) => Above(k, Len(current'), Todo')
    <3> DEFINE a == <<m>>
    <3>1. /\ a \in Seq(Id) /\ Todo = a \o Todo' /\ Todo' \in Seq(Id) /\ current' = <<>>
          /\ Len(current) <= Len(a)
      BY <1>3, <1>8, <1>12 DEF Suppresses
    <3> HIDE DEF a
    <3>. QED  BY <1>2, <3>1, Dropped
  <2>2. Remembered'
    BY <1>2, <1>3, <1>7, <1>12, <2>1, RememberedKept DEF Suppresses
  <2>3. said[log[m].to] = log[m].says /\ log[m].says # NoContent
    BY <1>4, <1>12, OutboundAssumption DEF Suppresses
  <2>4. PICK k \in Id : /\ Remembers(log[m].to, k) /\ k \in Delivered \cup gaveUp
                        /\ Above(k, 0, Todo)
    BY <1>4, <1>14, <2>3
  <2>5. k \in 1..(m - 1)
    <3>1. k < m
      BY <1>13, <2>4 DEF Above
    <3>. QED  BY <1>3, <3>1 DEF Id
  <2>6. /\ log[k].to = log[m].to /\ log[k].says = log[m].says
        /\ log[k].kind \in {"reply", "late"}
    BY <2>3, <2>4 DEF Remembers
  <2>7. ASSUME NEW l \in suppressed'
        PROVE  \E j \in 1..(l - 1) : /\ log[j].to = log[l].to /\ log[j].says = log[l].says
                                     /\ log[j].kind \in {"reply", "late"}
                                     /\ j \in Delivered \cup gaveUp
    <3>1. CASE l = m
      BY <2>4, <2>5, <2>6, <3>1
    <3>2. CASE l \in suppressed
      BY <1>2, <3>2 DEF SuppressedWasSaid
    <3>. QED  BY <1>12, <3>1, <3>2 DEF Suppresses
  <2>8. SuppressedWasSaid'
    BY <1>2, <1>6, <2>7 DEF SuppressedWasSaid
  <2>. QED  BY <1>1, <1>5, <2>1, <2>2, <2>8 DEF OutboundInv
<1>. QED  BY <1>1, <1>9, <1>10, <1>11, <1>12

\* A message published is the youngest.
LEMMA PublishKeeps ==
    ASSUME OutboundInv, NEW item \in Item, Publish(item)
    PROVE  OutboundInv'
<1>1. /\ TypeOK /\ InOneCall /\ InOrder /\ Remembered /\ SuppressedWasSaid
      /\ Len(log) < MaxMessages /\ log' = Append(log, item)
      /\ queue' = Append(queue, Len(log) + 1)
      /\ UNCHANGED <<pending, current, attempts, failures, said, got, gaveUp, suppressed, up>>
  BY DEF OutboundInv, Publish
<1>2. /\ log \in Seq(Item) /\ Len(log) \in Nat
      /\ log' \in Seq(Item) /\ Len(log') = Len(log) + 1
      /\ \A i \in 1..Len(log) : log'[i] = log[i]
  BY <1>1, LenProperties, AppendProperties DEF TypeOK
<1>3. Id \subseteq Id' /\ Len(log) + 1 \in Id' /\ \A i \in Id : log'[i] = log[i]
  BY <1>2 DEF Id
<1>4. Seq(Id) \subseteq Seq(Id') /\ Seq(Seq(Id)) \subseteq Seq(Seq(Id'))
  BY <1>3, SeqMonotonic
<1>5. queue' \in Seq(Id')
  <2>1. queue \in Seq(Id')
    BY <1>1, <1>4 DEF TypeOK, Id
  <2>. QED  BY <1>1, <1>3, <2>1, AppendProperties
<1>6. TypeOK'
  <2>1. pending' \in Seq(Id') /\ current' \in Seq(Id') /\ got' \in Seq(Seq(Id'))
    BY <1>1, <1>4 DEF TypeOK, Id
  <2>2. gaveUp' \subseteq Id' /\ suppressed' \subseteq Id'
    BY <1>1, <1>3 DEF TypeOK, Id
  <2>3. Len(log') <= MaxMessages
    BY <1>1, <1>2, OutboundAssumption
  <2>4. /\ Len(pending') <= 1 /\ attempts' \in 0..(MaxAttempts - 1)
        /\ failures' \in 0..MaxFailures
        /\ said' \in [Stream -> Content \cup {NoContent}] /\ up' \in BOOLEAN
    BY <1>1 DEF TypeOK
  <2>. QED  BY <1>2, <1>5, <2>1, <2>2, <2>3, <2>4 DEF TypeOK, Id
<1>7. Todo' = Append(Todo, Len(log) + 1) /\ Todo \in Seq(Id)
  <2>1. current \in Seq(Id') /\ pending \in Seq(Id') /\ queue \in Seq(Id')
    BY <1>1, <1>4 DEF TypeOK, Id
  <2>2. current \o pending \o Append(queue, Len(log) + 1)
           = Append(current \o pending \o queue, Len(log) + 1)
    BY <1>3, <2>1, AppendLast
  <2>. QED  BY <1>1, <2>2, TodoType DEF Todo
<1>8. /\ Len(Todo) \in Nat /\ Len(Todo') = Len(Todo) + 1
      /\ Todo'[Len(Todo) + 1] = Len(log) + 1
      /\ \A i \in 1..Len(Todo) : Todo'[i] = Todo[i] /\ Todo[i] \in Id
  <2>1. Todo \in Seq(Nat) /\ Len(log) + 1 \in Nat
    <3>1. Id \subseteq Nat
      BY DEF Id
    <3>2. Seq(Id) \subseteq Seq(Nat)
      BY <3>1, SeqMonotonic
    <3>. QED  BY <1>2, <1>7, <3>2
  <2>2. Len(Todo) \in Nat /\ \A i \in 1..Len(Todo) : Todo[i] \in Id
    BY <1>7, LenProperties, ElementOfSeq
  <2> DEFINE t == Todo
             u == Todo'
  <2>3. t \in Seq(Nat) /\ Len(log) + 1 \in Nat /\ u = Append(t, Len(log) + 1)
    BY <1>7, <2>1
  <2> HIDE DEF t, u
  <2>4. /\ Len(u) = Len(t) + 1 /\ u[Len(t) + 1] = Len(log) + 1
        /\ \A i \in 1..Len(t) : u[i] = t[i]
    BY <2>3, AppendProperties
  <2>. QED  BY <2>2, <2>4 DEF t, u
<1>9. ASSUME NEW k \in Id, NEW n \in Nat, Above(k, n, Todo) PROVE Above(k, n, Todo')
  <2>1. ASSUME NEW i \in 1..Len(Todo'), i > n PROVE k < Todo'[i]
    <3>1. CASE i = Len(Todo) + 1
      BY <1>2, <1>8, <3>1 DEF Id
    <3>2. CASE i # Len(Todo) + 1
      <4>1. i \in 1..Len(Todo)
        BY <1>8, <3>2
      <4>. QED  BY <1>8, <1>9, <2>1, <4>1 DEF Above
    <3>. QED  BY <3>1, <3>2
  <2>. QED  BY <2>1 DEF Above
<1>10. InOrder'
  <2>1. ASSUME NEW i \in 1..Len(Todo'), NEW j \in 1..Len(Todo'), i < j
        PROVE  Todo'[i] < Todo'[j]
    <3>1. i \in 1..Len(Todo) /\ Todo'[i] = Todo[i] /\ Todo[i] \in Id
      BY <1>8, <2>1
    <3>2. CASE j = Len(Todo) + 1
      BY <1>2, <1>8, <3>1, <3>2 DEF Id
    <3>3. CASE j # Len(Todo) + 1
      <4>1. j \in 1..Len(Todo) /\ Todo'[j] = Todo[j]
        BY <1>8, <3>3
      <4>. QED  BY <1>1, <2>1, <3>1, <4>1 DEF InOrder, Increasing
    <3>. QED  BY <3>2, <3>3
  <2>. QED  BY <2>1 DEF InOrder, Increasing
<1>11. InOneCall'
  <2>1. current' = current /\ current \in Seq(Id) /\ Len(current) \in Nat
    BY <1>1, LenProperties DEF TypeOK, Id
  <2>2. \A i \in 1..Len(current) : log'[current[i]] = log[current[i]]
    BY <1>3, <2>1, ElementOfSeq
  <2>3. Len(current) > 1 => /\ 1 \in 1..Len(current) /\ Len(current) \in 1..Len(current)
                            /\ \A i \in 1..(Len(current) - 1) : i \in 1..Len(current)
    BY <2>1
  <2>. QED  BY <1>1, <2>1, <2>2, <2>3 DEF InOneCall, Fifo!OneMessage
<1>12. Delivered' = Delivered
  BY <1>1 DEF Delivered
<1>13. Remembered'
  <2>1. Len(current') = Len(current) /\ Len(current) \in Nat
    BY <1>1, LenProperties DEF TypeOK
  <2>2. \A k \in Id : Past(k) => Past(k)'
    BY <1>1, <1>12 DEF Past
  <2>3. \A k \in Id : Above(k, Len(current), Todo) => Above(k, Len(current'), Todo')
    BY <1>9, <2>1
  <2>. QED  BY <1>1, <1>3, <2>2, <2>3, RememberedKept
<1>14. SuppressedWasSaid'
  BY <1>1, <1>3, <1>12, SuppressedKept
<1>. QED  BY <1>6, <1>10, <1>11, <1>13, <1>14 DEF OutboundInv

\* The messages in hand are gone, delivered or given up.
LEMMA SettledKeeps ==
    ASSUME OutboundInv, TypeOK', current' = <<>>,
           UNCHANGED <<log, queue, pending, said, suppressed, up>>,
           Delivered \cup gaveUp \cup Ids(current) \subseteq Delivered' \cup gaveUp'
    PROVE  OutboundInv'
<1>1. /\ TypeOK /\ InOrder /\ Remembered /\ SuppressedWasSaid
  BY DEF OutboundInv
<1>2. Todo' \in Seq(Id) /\ Todo = current \o Todo' /\ current \in Seq(Id)
  BY <1>1, CallEnds, TodoType
<1>3. Len(current) <= Len(current)
  BY <1>1, LenProperties DEF TypeOK
<1>4. /\ InOrder'
      /\ \A k \in Id : Above(k, Len(current), Todo) => Above(k, Len(current'), Todo')
  BY <1>1, <1>2, <1>3, Dropped
<1>5. InOneCall'
  BY DEF InOneCall
<1>6. \A k \in Id : Past(k) => Past(k)'
  <2>1. ASSUME NEW k \in Id, current = <<k>> PROVE k \in Delivered' \cup gaveUp'
    <3>1. Len(current) = 1 /\ current[1] = k
      BY <2>1
    <3>2. k \in Ids(current)
      BY <3>1 DEF Ids
    <3>. QED  BY <3>2
  <2>. QED  BY <2>1 DEF Past
<1>7. Id' = Id
  BY DEF Id
<1>8. Remembered'
  BY <1>1, <1>4, <1>6, <1>7, RememberedKept
<1>9. SuppressedWasSaid'
  BY <1>1, SuppressedKept
<1>. QED  BY <1>4, <1>5, <1>8, <1>9 DEF OutboundInv

LEMMA GotType ==
    ASSUME TypeOK, got' \in {got, Append(got, current)}, log' = log
    PROVE  got' \in Seq(Seq(Id)) /\ Id' = Id /\ Delivered \subseteq Delivered'
<1>1. got \in Seq(Seq(Id)) /\ current \in Seq(Id) /\ Id' = Id
  BY DEF TypeOK, Id
<1>2. CASE got' = got
  BY <1>1, <1>2 DEF Delivered
<1>3. CASE got' = Append(got, current)
  BY <1>1, <1>3, AppendProperties, DeliveredGrows
<1>. QED  BY <1>2, <1>3

LEMMA SentKeeps ==
    ASSUME OutboundInv, Sent
    PROVE  OutboundInv'
<1>1. TypeOK /\ got' = Append(got, current) /\ current' = <<>> /\ attempts' = 0
      /\ UNCHANGED <<log, queue, pending, failures, said, gaveUp, suppressed, up>>
  BY DEF OutboundInv, Sent
<1>2. Delivered \subseteq Delivered' /\ Ids(current) \subseteq Delivered'
  BY <1>1, DeliveredGrows
<1>3. got' \in Seq(Seq(Id)) /\ Id' = Id
  BY <1>1, GotType
<1>4. TypeOK'
  <2>1. current' \in Seq(Id) /\ attempts' \in 0..(MaxAttempts - 1)
    BY <1>1, EmptySeq, OutboundAssumption
  <2>. QED  BY <1>1, <1>3, <2>1 DEF TypeOK, Id
<1>. QED  BY <1>1, <1>2, <1>4, SettledKeeps

LEMMA SendFailsKeeps ==
    ASSUME OutboundInv, SendFails
    PROVE  OutboundInv'
<1>1. /\ TypeOK /\ InOneCall /\ InOrder /\ Remembered /\ SuppressedWasSaid
      /\ failures < MaxFailures /\ failures' = failures + 1
      /\ got' \in {got, Append(got, current)}
      /\ UNCHANGED <<log, queue, pending, said, suppressed, up>>
  BY DEF OutboundInv, SendFails
<1>2. got' \in Seq(Seq(Id)) /\ Id' = Id /\ Delivered \subseteq Delivered'
  BY <1>1, GotType
<1>3. failures' \in 0..MaxFailures
  BY <1>1, OutboundAssumption DEF TypeOK
<1>4. CASE attempts + 1 = MaxAttempts
  <2>1. gaveUp' = gaveUp \cup Ids(current) /\ current' = <<>> /\ attempts' = 0
    BY <1>4 DEF SendFails
  <2>2. Ids(current) \subseteq Id
    <3>1. current \in Seq(Id)
      BY <1>1 DEF TypeOK, Id
    <3>. QED  BY <3>1, ElementOfSeq DEF Ids
  <2>3. TypeOK'
    <3>1. current' \in Seq(Id)
      BY <2>1, EmptySeq
    <3>2. attempts' \in 0..(MaxAttempts - 1)
      BY <2>1, OutboundAssumption
    <3>3. gaveUp' \subseteq Id
      BY <1>1, <2>1, <2>2 DEF TypeOK, Id
    <3>. QED  BY <1>1, <1>2, <1>3, <3>1, <3>2, <3>3 DEF TypeOK, Id
  <2>4. Delivered \cup gaveUp \cup Ids(current) \subseteq Delivered' \cup gaveUp'
    BY <1>2, <2>1
  <2>. QED  BY <1>1, <2>1, <2>3, <2>4, SettledKeeps
<1>5. CASE attempts + 1 # MaxAttempts
  <2>1. attempts' = attempts + 1 /\ gaveUp' = gaveUp /\ current' = current
    BY <1>5 DEF SendFails
  <2>2. TypeOK'
    <3>1. attempts' \in 0..(MaxAttempts - 1)
      BY <1>1, <1>5, <2>1, OutboundAssumption DEF TypeOK
    <3>. QED  BY <1>1, <1>2, <1>3, <2>1, <3>1 DEF TypeOK, Id
  <2>3. Todo' = Todo
    BY <1>1, <2>1 DEF Todo
  <2>4. InOneCall' /\ InOrder'
    BY <1>1, <2>1, <2>3 DEF InOneCall, InOrder, Fifo!OneMessage
  <2>5. \A k \in Id : Past(k) => Past(k)'
    BY <1>1, <1>2, <2>1 DEF Past
  <2>6. \A k \in Id : Above(k, Len(current), Todo) => Above(k, Len(current'), Todo')
    BY <2>1, <2>3
  <2>7. Remembered'
    BY <1>1, <1>2, <2>5, <2>6, RememberedKept
  <2>8. SuppressedWasSaid'
    BY <1>1, <1>2, <2>1, SuppressedKept
  <2>. QED  BY <2>2, <2>4, <2>7, <2>8 DEF OutboundInv
<1>. QED  BY <1>4, <1>5

LEMMA StopKeeps ==
    ASSUME OutboundInv, Stop
    PROVE  /\ OutboundInv' /\ Todo' \in Seq(Id)
           /\ Todo = (current \o pending) \o Todo' /\ current \o pending \in Seq(Id)
<1>1. /\ TypeOK /\ InOrder /\ Remembered /\ SuppressedWasSaid
      /\ up' = FALSE /\ current' = <<>> /\ pending' = <<>> /\ attempts' = 0
      /\ UNCHANGED <<log, queue, failures, said, got, gaveUp, suppressed>>
  BY DEF OutboundInv, Stop
<1>2. queue \in Seq(Id) /\ current \in Seq(Id) /\ pending \in Seq(Id)
  BY <1>1, TodoType
<1>3. current \o pending \in Seq(Id) /\ Len(current \o pending) = Len(current) + Len(pending)
      /\ Len(current) \in Nat /\ Len(pending) \in Nat
  BY <1>2, Behind, Closed
<1>4. Todo' = queue
  <2>1. <<>> \o <<>> = <<>> /\ <<>> \o queue = queue
    BY <1>2, EmptySeq, ConcatEmptySeq
  <2>. QED  BY <1>1, <2>1 DEF Todo
<1>5. Todo = (current \o pending) \o Todo'
  BY <1>4 DEF Todo
<1>6. TypeOK'
  <2>1. /\ current' \in Seq(Id) /\ pending' \in Seq(Id) /\ Len(pending') <= 1
        /\ attempts' \in 0..(MaxAttempts - 1)
    BY <1>1, EmptySeq, OutboundAssumption
  <2>. QED  BY <1>1, <2>1 DEF TypeOK, Id
<1>7. /\ InOrder'
      /\ \A k \in Id : Above(k, Len(current), Todo) => Above(k, Len(current'), Todo')
  <2> DEFINE a == current \o pending
  <2>1. a \in Seq(Id) /\ Todo = a \o Todo' /\ Todo' \in Seq(Id) /\ Len(current) <= Len(a)
    BY <1>2, <1>3, <1>4, <1>5
  <2> HIDE DEF a
  <2>. QED  BY <1>1, <2>1, Dropped
<1>8. \A k \in Id : Past(k) => Past(k)'
  BY <1>1 DEF Past
<1>9. Id' = Id /\ Delivered' = Delivered
  BY <1>1 DEF Id, Delivered
<1>10. Remembered'
  BY <1>1, <1>7, <1>8, <1>9, RememberedKept
<1>11. SuppressedWasSaid'
  BY <1>1, <1>9, SuppressedKept
<1>12. InOneCall'
  BY <1>1 DEF InOneCall
<1>. QED  BY <1>2, <1>3, <1>4, <1>5, <1>6, <1>7, <1>10, <1>11, <1>12 DEF OutboundInv

LEMMA OutboundInitially ==
    ASSUME Init
    PROVE  OutboundInv
<1>1. Len(<<>>) = 0 /\ \A S : <<>> \in Seq(S)
  BY EmptySeq
<1>2. TypeOK
  BY <1>1, OutboundAssumption DEF Init, TypeOK
<1>3. Todo = <<>>
  <2>1. <<>> \o <<>> = <<>>
    BY <1>1, ConcatEmptySeq
  <2>. QED  BY <2>1, Zenon DEF Init, Todo
<1>4. InOrder
  BY <1>1, <1>3 DEF InOrder, Increasing
<1>5. InOneCall /\ Remembered /\ SuppressedWasSaid
  BY DEF Init, InOneCall, Remembered, SuppressedWasSaid
<1>. QED  BY <1>2, <1>4, <1>5 DEF OutboundInv

LEMMA OutboundStep ==
    ASSUME OutboundInv, [Next]_vars
    PROVE  OutboundInv'
<1>1. CASE \E item \in Item : Publish(item)
  BY <1>1, PublishKeeps
<1>2. CASE Take
  BY <1>2, TakeKeeps
<1>3. CASE Sent
  BY <1>3, SentKeeps
<1>4. CASE SendFails
  BY <1>4, SendFailsKeeps
<1>5. CASE Stop
  BY <1>5, StopKeeps
<1>6. CASE UNCHANGED vars
  <2>1. Todo' = Todo /\ Id' = Id /\ Delivered' = Delivered
    BY <1>6 DEF vars, Todo, Id, Delivered
  <2>2. TypeOK' /\ InOneCall' /\ InOrder'
    BY <1>6, <2>1 DEF vars, OutboundInv, TypeOK, InOneCall, InOrder, Fifo!OneMessage
  <2>3. \A s \in Stream, k \in Id : Remembers(s, k) => Remembers(s, k)'
    BY <1>6, <2>1 DEF vars, Remembers
  <2>4. Remembered'
    BY <1>6, <2>1, <2>3 DEF vars, OutboundInv, Remembered
  <2>5. SuppressedWasSaid'
    BY <1>6, <2>1 DEF vars, OutboundInv, SuppressedWasSaid
  <2>. QED  BY <2>2, <2>4, <2>5 DEF OutboundInv
<1>. QED  BY <1>1, <1>2, <1>3, <1>4, <1>5, <1>6 DEF Next

LEMMA OutboundAlways == Spec => []OutboundInv
<1>1. Init => OutboundInv
  BY OutboundInitially
<1>2. OutboundInv /\ [Next]_vars => OutboundInv'
  BY OutboundStep
<1>. QED  BY <1>1, <1>2, PTL DEF Spec

-----------------------------------------------------------------------------
(* What the dispatcher promises.                                           *)

\* The dispatcher never joins with a message waiting in `pending`, and counts
\* no more attempts than send_max_retries.
THEOREM OutboundTypes == Spec => []TypeOK
<1>1. OutboundInv => TypeOK
  BY DEF OutboundInv
<1>. QED  BY <1>1, OutboundAlways, PTL

\* _should_suppress_outbound passes over a late answer only when the same was
\* sent for the same source message before.
THEOREM OnlyRepetitionsSuppressed == Spec => []SuppressedWasSaid
<1>1. OutboundInv => SuppressedWasSaid
  BY DEF OutboundInv
<1>. QED  BY <1>1, OutboundAlways, PTL

-----------------------------------------------------------------------------
(* The refinement.                                                         *)

\* The messages in front of Todo can be delivered or passed over together.
LEMMA Front ==
    ASSUME TypeOK, NEW a \in Seq(Id), NEW b \in Seq(Id), Todo = a \o b, a # <<>>
    PROVE  /\ Len(a) \in 1..Len(Todo)
           /\ Fifo!First(Len(a)) = a /\ Fifo!Rest(Len(a)) = b
<1>1. /\ SubSeq(Todo, 1, Len(a)) = a /\ SubSeq(Todo, Len(a) + 1, Len(Todo)) = b
      /\ Len(Todo) = Len(a) + Len(b)
  BY PrefixAndRest
<1>2. Len(a) \in Nat /\ Len(b) \in Nat /\ Len(a) # 0
  BY LenProperties, EmptySeq
<1>. QED  BY <1>1, <1>2 DEF Fifo!First, Fifo!Rest, Todo

LEMMA TakeRefines ==
    ASSUME OutboundInv, Take
    PROVE  [Fifo!FNext]_(Fifo!fvars)
<1>1. PICK m \in Id, q \in Seq(Id) :
         /\ Todo = <<m>> \o q /\ current = <<>> /\ up
         /\ QueuesType' /\ InOneCall'
         /\ Moves \/ Hides(m) \/ Answers(m) \/ Suppresses(m)
  BY Taken DEF OutboundInv
<1>2. UNCHANGED <<log, got>> /\ TypeOK
  BY DEF Take, OutboundInv
<1>3. CASE Todo' = Todo
  BY <1>2, <1>3 DEF Fifo!fvars, Todo
<1>4. CASE Todo' \in Seq(Id) /\ Todo = <<m>> \o Todo'
  <2> DEFINE a == <<m>>
  <2>1. a \in Seq(Id) /\ a # <<>> /\ Todo = a \o Todo' /\ Todo' \in Seq(Id)
    BY <1>4
  <2> HIDE DEF a
  <2>2. Len(a) \in 1..Len(Todo) /\ Fifo!Rest(Len(a)) = Todo'
    BY <1>2, <2>1, Front
  <2>3. Fifo!FPass(Len(a))
    BY <1>2, <2>2 DEF Fifo!FPass, Todo
  <2>. QED  BY <2>2, <2>3 DEF Fifo!FNext, Todo
<1>. QED  BY <1>1, <1>3, <1>4 DEF Moves, Hides, Answers, Suppresses

\* A call that ends settles the messages in hand.
LEMMA CallRefines ==
    ASSUME OutboundInv, current # <<>>, log' = log,
           got' \in {got, Append(got, current)},
           \/ current' = <<>> /\ UNCHANGED <<pending, queue>>
           \/ UNCHANGED <<current, pending, queue>>
    PROVE  [Fifo!FNext]_(Fifo!fvars)
<1>1. TypeOK /\ Fifo!OneMessage(current)
  BY DEF OutboundInv, InOneCall
<1> DEFINE n == Len(current)
           rest == pending \o queue
<1>2. current \in Seq(Id) /\ rest \in Seq(Id) /\ Todo = current \o rest
  BY <1>1, TodoType
<1>3. n \in 1..Len(Todo) /\ Fifo!First(n) = current /\ Fifo!Rest(n) = rest
  BY <1>1, <1>2, Front
<1>4. CASE current' = <<>> /\ UNCHANGED <<pending, queue>>
  <2>1. <<>> \o pending = pending
    BY <1>1, ConcatEmptySeq DEF TypeOK
  <2>2. Todo' = rest
    BY <1>4, <2>1 DEF Todo
  <2>3. CASE got' = got
    <3>1. Fifo!FPass(n)
      BY <1>3, <2>2, <2>3 DEF Fifo!FPass, Todo
    <3>. QED  BY <1>3, <3>1 DEF Fifo!FNext, Todo
  <2>4. CASE got' = Append(got, current)
    <3>1. Fifo!FDeliver(n)
      BY <1>1, <1>3, <2>2, <2>4 DEF Fifo!FDeliver, Todo
    <3>. QED  BY <1>3, <3>1 DEF Fifo!FNext, Todo
  <2>. QED  BY <2>3, <2>4
<1>5. CASE UNCHANGED <<current, pending, queue>>
  <2>1. Todo' = Todo
    BY <1>5 DEF Todo
  <2>2. CASE got' = got
    BY <2>1, <2>2 DEF Fifo!fvars, Todo
  <2>3. CASE got' = Append(got, current)
    <3>1. Fifo!FRepeat(n)
      BY <1>1, <1>3, <2>1, <2>3 DEF Fifo!FRepeat, Todo
    <3>. QED  BY <1>3, <3>1 DEF Fifo!FNext, Todo
  <2>. QED  BY <2>2, <2>3
<1>. QED  BY <1>4, <1>5

LEMMA PublishRefines ==
    ASSUME OutboundInv, NEW item \in Item, Publish(item)
    PROVE  Fifo!FNext
<1>1. TypeOK /\ log' = Append(log, item) /\ queue' = Append(queue, Len(log) + 1)
      /\ UNCHANGED <<pending, current, got>>
  BY DEF OutboundInv, Publish
<1> DEFINE N == Nat
           e == Len(log) + 1
<1>2. /\ current \in Seq(N) /\ pending \in Seq(N) /\ queue \in Seq(N)
      /\ e \in N
  <2>1. Id \subseteq Nat
    BY DEF Id
  <2>2. Seq(Id) \subseteq Seq(Nat)
    BY <2>1, SeqMonotonic
  <2>. QED  BY <1>1, <2>2, TodoType
<1>3. current \o pending \o Append(queue, Len(log) + 1) = Append(Todo, Len(log) + 1)
  <2> HIDE DEF N, e
  <2>1. current \o pending \o Append(queue, e) = Append(current \o pending \o queue, e)
    BY <1>2, AppendLast
  <2>. QED  BY <2>1 DEF Todo, e
<1>4. Todo' = Append(Todo, Len(log) + 1)
  BY <1>1, <1>3 DEF Todo
<1>5. Fifo!FPublish(item)
  BY <1>1, <1>4 DEF Fifo!FPublish, Todo
<1>. QED  BY <1>5 DEF Fifo!FNext

LEMMA StopRefines ==
    ASSUME OutboundInv, Stop
    PROVE  [Fifo!FNext]_(Fifo!fvars)
<1> DEFINE a == current \o pending
<1>1. TypeOK /\ UNCHANGED <<log, got>>
  BY DEF OutboundInv, Stop
<1>2. a \in Seq(Id) /\ Todo' \in Seq(Id) /\ Todo = a \o Todo'
  BY StopKeeps
<1> HIDE DEF a
<1>3. CASE a = <<>>
  <2>1. Todo = Todo'
    BY <1>2, <1>3, ConcatEmptySeq
  <2>. QED  BY <1>1, <2>1 DEF Fifo!fvars, Todo
<1>4. CASE a # <<>>
  <2>1. Len(a) \in 1..Len(Todo) /\ Fifo!Rest(Len(a)) = Todo'
    BY <1>1, <1>2, <1>4, Front
  <2>2. Fifo!FPass(Len(a))
    BY <1>1, <2>1 DEF Fifo!FPass, Todo
  <2>. QED  BY <2>1, <2>2 DEF Fifo!FNext, Todo
<1>. QED  BY <1>3, <1>4

LEMMA OutboundStepRefines ==
    ASSUME OutboundInv, [Next]_vars
    PROVE  [Fifo!FNext]_(Fifo!fvars)
<1>1. CASE \E item \in Item : Publish(item)
  BY <1>1, PublishRefines
<1>2. CASE Take
  BY <1>2, TakeRefines
<1>3. CASE Sent
  BY <1>3, CallRefines DEF Sent
<1>4. CASE SendFails
  BY <1>4, CallRefines DEF SendFails
<1>5. CASE Stop
  BY <1>5, StopRefines
<1>6. CASE UNCHANGED vars
  BY <1>6 DEF vars, Fifo!fvars
<1>. QED  BY <1>1, <1>2, <1>3, <1>4, <1>5, <1>6 DEF Next

\* Whatever is published, joined, put back, repeated or given up: a channel is
\* handed the messages in the order of publication, and one call joins nothing
\* but consecutive pieces of one stream.
THEOREM DeliveryInOrder == Spec => ImplementsFifo
<1>1. Init => Fifo!FInit
  <2>1. <<>> \o <<>> = <<>>
    BY EmptySeq, ConcatEmptySeq
  <2>. QED  BY <2>1, Zenon DEF Init, Fifo!FInit
<1>2. OutboundInv /\ [Next]_vars => [Fifo!FNext]_(Fifo!fvars)
  BY OutboundStepRefines
<1>. QED  BY <1>1, <1>2, OutboundAlways, PTL DEF Spec, ImplementsFifo, Fifo!FSpec
=============================================================================
