------------------------- MODULE TurnHistoryProofs -------------------------
(***************************************************************************)
(* What a turn leaves in the history of its session, for every set of      *)
(* messages and every bound: a history a provider takes (HistoryLegal),    *)
(* without a message twice (NoRepeats) or an unanswered user message       *)
(* before another one (EveryTurnClosed), and which tells of a turn all it  *)
(* told before (ProgressKept).                                             *)
(***************************************************************************)
EXTENDS TurnCheckpointProofs

-----------------------------------------------------------------------------
(* Legal histories.                                                        *)

\* A message that is neither calls nor one of their results.
Plain(e) == e.kind \notin {"calls", "result", "cut"}

\* What Legal says of one place of a history.
Answered(log, k) ==
    log[k].kind = "calls" =>
        /\ k + log[k].no <= Len(log)
        /\ \A j \in 1..log[k].no : /\ log[k + j].kind \in {"result", "cut"}
                                  /\ log[k + j].of = log[k].of
                                  /\ log[k + j].at = log[k].at /\ log[k + j].no = j
Called(log, k) ==
    log[k].kind \in {"result", "cut"} =>
        /\ k > log[k].no
        /\ log[k - log[k].no].kind = "calls" /\ log[k - log[k].no].no >= log[k].no

LEMMA LegalPlaces ==
    ASSUME NEW log
    PROVE  Legal(log) <=> \A k \in 1..Len(log) : Answered(log, k) /\ Called(log, k)
BY DEF Legal, Answered, Called

LEMMA EntryNumbers == \A e \in Entry : e.no \in Nat
BY CheckpointAssumption DEF Entry

\* Nothing, and a single plain message, are legal histories.
LEMMA LegalShort ==
    /\ Legal(<<>>)
    /\ \A e \in Entry : Plain(e) => Legal(<<e>>)
BY DEF Legal, Plain

\* A legal history after a legal history.
LEMMA LegalConcat ==
    ASSUME NEW p \in Seq(Entry), NEW q \in Seq(Entry), Legal(p), Legal(q)
    PROVE  p \o q \in Seq(Entry) /\ Legal(p \o q)
<1>. DEFINE r == p \o q
<1>1. /\ Len(p) \in Nat /\ Len(q) \in Nat /\ r \in Seq(Entry) /\ Len(r) = Len(p) + Len(q)
      /\ \A i \in 1..Len(p) : r[i] = p[i]
      /\ \A i \in 1..Len(q) : r[Len(p) + i] = q[i]
  BY ConcatProperties, LenProperties
<1>. HIDE DEF r
<1>2. /\ \A i \in 1..Len(p) : p[i] \in Entry /\ p[i].no \in Nat
      /\ \A i \in 1..Len(q) : q[i] \in Entry /\ q[i].no \in Nat
  BY LenProperties, EntryNumbers
<1>3. ASSUME NEW k \in 1..Len(p) PROVE Answered(r, k) /\ Called(r, k)
  <2>1. Answered(p, k) /\ Called(p, k) /\ r[k] = p[k] /\ p[k].no \in Nat
    BY <1>1, <1>2, LegalPlaces
  <2>2. ASSUME p[k].kind = "calls"
        PROVE  k + p[k].no <= Len(r) /\ \A j \in 1..p[k].no : r[k + j] = p[k + j]
    <3>1. k + p[k].no <= Len(p)
      BY <2>1, <2>2 DEF Answered
    <3>2. ASSUME NEW j \in 1..p[k].no PROVE k + j \in 1..Len(p)
      BY <1>1, <2>1, <3>1
    <3>. QED  BY <1>1, <2>1, <3>1, <3>2
  <2>3. Answered(r, k)
    BY <2>1, <2>2 DEF Answered
  <2>4. ASSUME p[k].kind \in {"result", "cut"}
        PROVE  k > p[k].no /\ r[k - p[k].no] = p[k - p[k].no]
    <3>1. k > p[k].no
      BY <2>1, <2>4 DEF Called
    <3>2. k - p[k].no \in 1..Len(p)
      BY <1>1, <2>1, <3>1
    <3>. QED  BY <1>1, <3>1, <3>2
  <2>5. Called(r, k)
    BY <2>1, <2>4 DEF Called
  <2>. QED  BY <2>3, <2>5
<1>4. ASSUME NEW i \in 1..Len(q) PROVE Answered(r, Len(p) + i) /\ Called(r, Len(p) + i)
  <2>1. Answered(q, i) /\ Called(q, i) /\ r[Len(p) + i] = q[i] /\ q[i].no \in Nat
    BY <1>1, <1>2, LegalPlaces
  <2>2. ASSUME q[i].kind = "calls"
        PROVE  /\ Len(p) + i + q[i].no <= Len(r)
               /\ \A j \in 1..q[i].no : r[Len(p) + i + j] = q[i + j]
    <3>1. i + q[i].no <= Len(q)
      BY <2>1, <2>2 DEF Answered
    <3>2. ASSUME NEW j \in 1..q[i].no PROVE r[Len(p) + i + j] = q[i + j]
      <4>1. i + j \in 1..Len(q) /\ Len(p) + (i + j) = Len(p) + i + j
        BY <1>1, <2>1, <3>1
      <4>. QED  BY <1>1, <4>1
    <3>. QED  BY <1>1, <2>1, <3>1, <3>2
  <2>3. Answered(r, Len(p) + i)
    BY <2>1, <2>2 DEF Answered
  <2>4. Called(r, Len(p) + i)
    <3>1. ASSUME q[i].kind \in {"result", "cut"}
          PROVE  /\ Len(p) + i > q[i].no
                 /\ r[Len(p) + i - q[i].no] = q[i - q[i].no]
      <4>1. i > q[i].no
        BY <2>1, <3>1 DEF Called
      <4>2. i - q[i].no \in 1..Len(q) /\ Len(p) + (i - q[i].no) = Len(p) + i - q[i].no
        BY <1>1, <2>1, <4>1
      <4>3. r[Len(p) + (i - q[i].no)] = q[i - q[i].no]
        BY <1>1, <4>2
      <4>. QED  BY <1>1, <2>1, <4>1, <4>2, <4>3
    <3>. QED  BY <2>1, <3>1 DEF Called
  <2>. QED  BY <2>3, <2>4
<1>5. ASSUME NEW k \in 1..Len(r) PROVE Answered(r, k) /\ Called(r, k)
  <2>1. CASE k <= Len(p)
    BY <1>1, <1>3, <2>1
  <2>2. CASE k > Len(p)
    <3>1. k - Len(p) \in 1..Len(q) /\ Len(p) + (k - Len(p)) = k
      BY <1>1, <2>2
    <3>. QED  BY <1>4, <3>1
  <2>. QED  BY <1>1, <2>1, <2>2
<1>. QED  BY <1>1, <1>5, LegalPlaces DEF r

\* A plain message after a legal history.
LEMMA LegalAppend ==
    ASSUME NEW p \in Seq(Entry), Legal(p), NEW e \in Entry, Plain(e)
    PROVE  Append(p, e) \in Seq(Entry) /\ Legal(Append(p, e))
<1>1. <<e>> \in Seq(Entry) /\ Legal(<<e>>)
  BY LegalShort
<1>2. p \o <<e>> \in Seq(Entry) /\ Legal(p \o <<e>>)
  BY <1>1, LegalConcat
<1>3. Append(p, e) = p \o <<e>>
  BY AppendIsConcat
<1>. QED  BY <1>2, <1>3

\* The calls of an assistant message with a result for each.
LEMMA LegalBlock ==
    ASSUME NEW c \in Entry, c.kind = "calls", NEW q \in {Results(c), Cuts(c)}
    PROVE  /\ <<c>> \o q \in Seq(Entry) /\ Len(<<c>> \o q) = 1 + c.no
           /\ Legal(<<c>> \o q)
           /\ (<<c>> \o q)[1] = c
<1>. DEFINE b == <<c>> \o q
<1>1. /\ c.no \in Nat /\ <<c>> \in Seq(Entry) /\ Len(<<c>>) = 1 /\ <<c>>[1] = c
      /\ q \in Seq(Entry) /\ Len(q) = c.no
  BY BlockTypes, EntryNumbers
<1>2. ASSUME NEW j \in 1..c.no
      PROVE  /\ q[j].kind \in {"result", "cut"} /\ q[j].of = c.of /\ q[j].at = c.at
             /\ q[j].no = j
  <2>1. q[j] = Item("result", c.of, c.at, j) \/ q[j] = Item("cut", c.of, c.at, j)
    BY BlockTypes
  <2>. QED  BY <2>1 DEF Item
<1>3. /\ b \in Seq(Entry) /\ Len(b) = 1 + c.no /\ b[1] = c
      /\ \A j \in 1..c.no : b[1 + j] = q[j]
  <2>. HIDE DEF b
  <2>1. /\ b \in Seq(Entry) /\ Len(b) = Len(<<c>>) + Len(q)
        /\ \A i \in 1..Len(<<c>>) + Len(q) :
              b[i] = IF i <= Len(<<c>>) THEN <<c>>[i] ELSE q[i - Len(<<c>>)]
    BY <1>1, ConcatProperties DEF b
  <2>2. b[1] = c
    BY <1>1, <2>1
  <2>3. ASSUME NEW j \in 1..c.no PROVE b[1 + j] = q[j]
    <3>1. 1 + j \in 1..Len(<<c>>) + Len(q) /\ ~(1 + j <= Len(<<c>>)) /\ 1 + j - Len(<<c>>) = j
      BY <1>1
    <3>. QED  BY <2>1, <3>1
  <2>. QED  BY <1>1, <2>1, <2>2, <2>3
<1>. HIDE DEF b
<1>4. Answered(b, 1) /\ Called(b, 1)
  BY <1>1, <1>2, <1>3 DEF Answered, Called
<1>5. ASSUME NEW j \in 1..c.no PROVE Answered(b, 1 + j) /\ Called(b, 1 + j)
  <2>1. b[1 + j].kind \in {"result", "cut"} /\ b[1 + j].no = j
    BY <1>2, <1>3
  <2>2. 1 + j > j /\ 1 + j - j = 1 /\ c.no >= j
    BY <1>1
  <2>3. Answered(b, 1 + j)
    BY <2>1 DEF Answered
  <2>4. Called(b, 1 + j)
    BY <1>3, <2>1, <2>2 DEF Called
  <2>. QED  BY <2>3, <2>4
<1>6. ASSUME NEW k \in 1..Len(b) PROVE Answered(b, k) /\ Called(b, k)
  <2>1. k = 1 \/ (k - 1 \in 1..c.no /\ 1 + (k - 1) = k)
    BY <1>1, <1>3
  <2>. QED  BY <1>4, <1>5, <2>1
<1>. QED  BY <1>3, <1>6, LegalPlaces DEF b

-----------------------------------------------------------------------------
(* Legal sessions and turns.                                               *)

\* A checkpoint holds an assistant message.
Spoken(check) == check # Nothing => check.said.kind \in {"calls", "text"}
LegalSession(s) == Legal(s.log) /\ Spoken(s.check)

\* What a turn appended is a history; while its tools run, all but its last
\* message, their calls.
LegalTurn(t) ==
    IF t.pc = "tools" THEN Legal(SubSeq(t.work, 1, Len(t.work) - 1)) ELSE Legal(t.work)

LegalInv ==
    /\ LegalSession(file) /\ (mem # Nothing => LegalSession(mem))
    /\ LegalTurn(turn)

\* Recovery leaves a legal history: when the history already ends with a part of
\* what the checkpoint adds, it ends with all of it, because calls that are in the
\* history have their results there.
LEMMA LegalRestore ==
    ASSUME NEW s \in Saved, s.check # Nothing, LegalSession(s)
    PROVE  LegalSession(RestoreCheckpoint(s))
<1>. DEFINE r == Restored(s.check)
            c == s.check.said
            log == s.log
<1>1. /\ s.check \in Checkpoint /\ c \in Entry /\ c.kind \in {"calls", "text"}
      /\ log \in Seq(Entry) /\ Legal(log) /\ Len(log) \in Nat
  BY LenProperties DEF LegalSession, Spoken, Saved, Checkpoint
<1>2. PICK d \in 0..Len(r) :
        Fits(log, r, d) /\ RestoreCheckpoint(s).log = log \o SubSeq(r, d + 1, Len(r))
  BY RestoreAppends
<1>3. RestoreCheckpoint(s).check = Nothing
  BY RestoreAppends
<1>4. /\ r \in Seq(Entry) /\ Legal(r) /\ Len(r) \in Nat /\ r[1] = c
      /\ Len(r) = (IF c.kind = "calls" THEN 1 + c.no ELSE 1)
  <2>1. CASE c.kind = "calls"
    <3>1. r = <<c>> \o Results(c) \/ r = <<c>> \o Cuts(c)
      BY <2>1 DEF Restored
    <3>. QED  BY <1>1, <2>1, <3>1, LegalBlock, LenProperties
  <2>2. CASE c.kind = "text"
    <3>1. r = <<c>>
      BY <1>1, <2>2, ConcatEmptySeq DEF Restored
    <3>. QED  BY <1>1, <2>2, <3>1, LegalShort DEF Plain
  <2>. QED  BY <1>1, <2>1, <2>2
<1>5. d = 0 \/ d = Len(r)
  <2>. SUFFICES ASSUME d > 0, c.kind = "calls" PROVE d = Len(r)
    BY <1>1, <1>4
  <2>. DEFINE k == Len(log) - d + 1
  <2>. HIDE DEF r, c, log
  <2>1. k \in 1..Len(log) /\ Len(log) - k = d - 1 /\ k + 1 - 1 = k /\ d \in Nat
    BY <1>1, <1>2, <1>4 DEF Fits
  <2>2. log[k] = c
    <3>1. SubSeq(log, k, Len(log))[1] = log[k]
      <4>1. \A i \in k..Len(log) : log[i] \in Entry
        BY <1>1, <2>1, LenProperties
      <4>2. 1 \in 1..Len(log) - k + 1 /\ k + 1 - 1 = k /\ k \in Int /\ Len(log) \in Int
        BY <1>1, <2>1
      <4>3. \A i \in 1..Len(log) - k + 1 : SubSeq(log, k, Len(log))[i] = log[k + i - 1]
        BY <4>1, <4>2, SubSeqProperties
      <4>. QED  BY <4>2, <4>3
    <3>2. SubSeq(r, 1, d)[1] = r[1]
      <4>1. (\A i \in 1..d : r[i] \in Entry) /\ 1 \in 1..d - 1 + 1
        BY <1>4, <1>2, <2>1, LenProperties
      <4>2. \A i \in 1..d - 1 + 1 : SubSeq(r, 1, d)[i] = r[1 + i - 1]
        BY <2>1, <4>1, SubSeqProperties
      <4>. QED  BY <4>1, <4>2
    <3>. QED  BY <1>2, <1>4, <3>1, <3>2 DEF Fits
  <2>3. k + c.no <= Len(log) /\ c.no \in Nat
    BY <1>1, <2>1, <2>2, LegalPlaces, EntryNumbers DEF Answered
  <2>. QED  BY <1>1, <1>2, <1>4, <2>1, <2>3
<1>6. Legal(log \o SubSeq(r, d + 1, Len(r)))
  <2>. HIDE DEF r, c, log
  <2>1. CASE d = 0
    <3>1. SubSeq(r, d + 1, Len(r)) = r
      <4>1. SubSeq(r, 1, Len(r)) = r
        BY <1>4, SubSeqFull
      <4>2. d + 1 = 1
        BY <2>1
      <4>. QED  BY <4>1, <4>2
    <3>. QED  BY <1>1, <1>4, <3>1, LegalConcat
  <2>2. CASE d = Len(r)
    <3>1. SubSeq(r, d + 1, Len(r)) = <<>>
      BY <1>4, <2>2, SubSeqEmpty
    <3>. QED  BY <1>1, <3>1, ConcatEmptySeq
  <2>. QED  BY <1>5, <2>1, <2>2
<1>. QED  BY <1>2, <1>3, <1>6 DEF LegalSession, Spoken

\* Closing a turn leaves a legal history.
LEMMA LegalClose ==
    ASSUME NEW s \in Saved, LegalSession(s)
    PROVE  LegalSession(ClosePending(s))
<1>1. s.log \in Seq(Entry) /\ Legal(s.log) /\ ClosePending(s).check = s.check
  BY CloseAppends DEF Saved, LegalSession
<1>2. CASE ClosePending(s).log = s.log
  BY <1>1, <1>2 DEF LegalSession
<1>3. ASSUME NEW e \in Entry, e.kind = "closing", ClosePending(s).log = s.log \o <<e>>
      PROVE  LegalSession(ClosePending(s))
  <2>1. Plain(e) /\ s.log \o <<e>> = Append(s.log, e)
    BY <1>1, <1>3, AppendIsConcat DEF Plain
  <2>2. Legal(ClosePending(s).log)
    BY <1>1, <1>3, <2>1, LegalAppend
  <2>. QED  BY <1>1, <2>2 DEF LegalSession
<1>. QED  BY <1>2, <1>3, CloseAppends

\* Writing a plain message leaves a legal history.
LEMMA LegalWrite ==
    ASSUME NEW s \in Saved, LegalSession(s), NEW e \in Entry, Plain(e), NEW b \in BOOLEAN
    PROVE  LegalSession([s EXCEPT !.log = Append(@, e), !.open = b])
<1>. DEFINE t == [s EXCEPT !.log = Append(@, e), !.open = b]
<1>1. t.log = s.log \o <<e>> /\ t.check = s.check
  BY WriteOne
<1>2. s.log \in Seq(Entry) /\ Legal(s.log) /\ s.log \o <<e>> = Append(s.log, e)
  BY AppendIsConcat DEF Saved, LegalSession
<1>. HIDE DEF t
<1>3. Legal(t.log)
  BY <1>1, <1>2, LegalAppend
<1>. QED  BY <1>1, <1>3 DEF LegalSession, t

\* What is injected or closes the run is plain.
LEMMA LegalWork ==
    ASSUME TypeOK, turn.m \in Msg, NEW w \in Seq(Entry), Legal(w), NEW F \in FollowUps
    PROVE  Legal(Injected(w, F)) /\ Legal(Ending(w)) /\ Ending(w) \in Seq(Entry)
<1>1. Legal(Injected(w, F))
  BY WorkTypes, LegalAppend DEF Plain
<1>2. Legal(Ending(w))
  BY WorkTypes, LegalAppend DEF Plain
<1>. QED  BY <1>1, <1>2, WorkTypes

\* When the tools have ended, what the turn appended is a history again.
LEMMA LegalToolsDone ==
    ASSUME TypeInv, LegalTurn(turn), At("tools")
    PROVE  LET w == turn.work \o Results(Last(turn.work))
           IN  w \in Seq(Entry) /\ Legal(w)
<1>. DEFINE n == Len(turn.work)
            c == Last(turn.work)
            front == SubSeq(turn.work, 1, n - 1)
<1>1. turn.work \in Seq(Entry) /\ turn.work # <<>> /\ c \in Entry /\ c.kind = "calls"
  BY TurnFacts DEF Turn, TypeInv, TypeOK
<1>2. n \in Nat \ {0} /\ c = turn.work[n]
  BY <1>1, EmptySeq, LenProperties DEF Last
<1>3. front \in Seq(Entry) /\ Legal(front)
  <2>1. Legal(front)
    BY DEF LegalTurn, At
  <2>2. \A i \in 1..n - 1 : turn.work[i] \in Entry
    BY <1>1, <1>2, LenProperties
  <2>3. n - 1 \in Int
    BY <1>2
  <2>. QED  BY <2>1, <2>2, <2>3, SubSeqProperties
<1>4. turn.work = front \o <<c>>
  <2>1. SubSeq(turn.work, 1, n) = SubSeq(turn.work, 1, n - 1) \o <<turn.work[n]>>
    BY <1>1, <1>2, SubSeqRecursiveSecond
  <2>. QED  BY <1>1, <1>2, <2>1, SubSeqFull
<1>5. /\ <<c>> \in Seq(Entry) /\ Results(c) \in Seq(Entry)
      /\ <<c>> \o Results(c) \in Seq(Entry) /\ Legal(<<c>> \o Results(c))
  BY <1>1, BlockTypes, LegalBlock
<1>. HIDE DEF n, c, front
<1>6. turn.work \o Results(c) = front \o (<<c>> \o Results(c))
  BY <1>3, <1>4, <1>5, ConcatAssociative
<1>. QED  BY <1>3, <1>5, <1>6, LegalConcat DEF c

-----------------------------------------------------------------------------
(* The steps.                                                              *)

LEMMA LegalStep == TypeInv /\ LegalInv /\ [Next]_vars => LegalInv'
<1>. SUFFICES ASSUME TypeInv, LegalInv, [Next]_vars PROVE LegalInv'
  OBVIOUS
<1>. USE DEF At
<1>0. /\ TypeOK /\ Idle \in Turn /\ turn \in Turn /\ LegalSession(file) /\ LegalTurn(turn)
      /\ LegalTurn(Idle) /\ turn.work \in Seq(Entry)
  BY IdleType, TurnFacts, LegalShort DEF TypeInv, LegalInv, LegalTurn, Turn
<1>1. CASE UNCHANGED vars
  BY <1>1 DEF vars, LegalInv
<1>2. ASSUME ~At("idle")
      PROVE  /\ mem \in Saved /\ LegalSession(mem) /\ turn.m \in Msg
             /\ (~At("tools") => Legal(turn.work))
  BY <1>2, TurnFacts, NothingAssumption DEF LegalInv, LegalTurn
<1>3. LegalSession(Session) /\ Session \in Saved
  BY TurnFacts DEF LegalInv, Session
<1>4. ASSUME NEW s \in Saved, NEW next \in Turn, Save(s, next), LegalSession(s), LegalTurn(next)
      PROVE  LegalInv'
  <2>1. mem' = s /\ file' \in {s, file} /\ turn' \in {next, Idle}
    BY <1>0, <1>4, SaveTypes
  <2>. QED  BY <1>0, <1>4, <2>1 DEF LegalInv
<1>5. ASSUME NEW e \in Entry, e.kind \in {"calls", "text"}, NEW d \in BOOLEAN, ~At("idle"),
             NEW next \in Turn, SavePoint(Point(e, d), next), LegalTurn(next)
      PROVE  LegalInv'
  <2>. DEFINE s == [mem EXCEPT !.check = Point(e, d)]
  <2>1. mem \in Saved /\ LegalSession(mem)
    BY <1>2, <1>5
  <2>2. s \in Saved /\ s.log = mem.log /\ s.check = Point(e, d) /\ Point(e, d).said = e
    BY <2>1, PointTypes
  <2>3. Save(s, next)
    BY <1>5 DEF SavePoint
  <2>. HIDE DEF s
  <2>4. LegalSession(s)
    BY <1>5, <2>1, <2>2 DEF LegalSession, Spoken
  <2>. QED  BY <1>4, <1>5, <2>2, <2>3, <2>4
<1>6. ASSUME NEW m \in Msg, Begin(m) PROVE LegalInv'
  <2>1. LegalTurn(turn')
    BY <1>0, <1>6, LegalShort DEF Begin, LegalTurn, Idle
  <2>. QED  BY <1>0, <1>3, <1>6, <2>1 DEF Begin, LegalInv
<1>7. ASSUME NEW next, Interrupt(next), LegalTurn(next) PROVE LegalInv'
  <2>1. mem \in Saved /\ LegalSession(mem)
    BY <1>2, <1>7 DEF Interrupt, Running
  <2>2. mem.check # Nothing => LegalSession(RestoreCheckpoint(mem))
    BY <2>1, LegalRestore
  <2>3. LegalSession(mem') /\ LegalSession(file') /\ turn' = next
    BY <1>0, <1>7, <2>1, <2>2 DEF Interrupt
  <2>. QED  BY <1>7, <2>3 DEF LegalInv
<1>8. CASE Restore
  <2>. DEFINE next == [turn EXCEPT !.pc = "restored"]
  <2>1. mem \in Saved /\ LegalSession(mem) /\ Legal(turn.work)
    BY <1>2, <1>8 DEF Restore
  <2>2. next \in Turn /\ LegalTurn(next)
    BY <1>0, <2>1 DEF LegalTurn, Turn
  <2>3. \/ mem.check # Nothing /\ Save(RestoreCheckpoint(mem), next)
        \/ Save(ClosePending(mem), next)
        \/ turn' = next /\ UNCHANGED <<mem, file>>
    BY <1>8 DEF Restore
  <2>. HIDE DEF next
  <2>4. CASE mem.check # Nothing /\ Save(RestoreCheckpoint(mem), next)
    BY <1>4, <2>1, <2>2, <2>4, RestoreAppends, LegalRestore
  <2>5. CASE Save(ClosePending(mem), next)
    BY <1>4, <2>1, <2>2, <2>5, CloseAppends, LegalClose
  <2>6. CASE turn' = next /\ UNCHANGED <<mem, file>>
    BY <1>0, <2>1, <2>2, <2>6 DEF LegalInv
  <2>. QED  BY <2>3, <2>4, <2>5, <2>6
<1>9. CASE New
  <2>. DEFINE s == [Session EXCEPT !.log = <<>>]
  <2>1. s.log = <<>> /\ s.check = Session.check
    BY <1>3 DEF Saved
  <2>2. /\ turn' = Idle /\ (mem' = Nothing \/ mem' = s) /\ (file' = s \/ file' = file)
    BY <1>9 DEF New
  <2>. HIDE DEF s
  <2>3. LegalSession(s)
    BY <1>3, <2>1, LegalShort DEF LegalSession
  <2>. QED  BY <1>0, <2>2, <2>3 DEF LegalInv
<1>10. CASE RunCommand \/ RunCommandCut
  <2>. DEFINE a == Asked(turn.m)
              b == Item("reply", turn.m, 0, 0)
              asked == [mem EXCEPT !.log = Append(@, a), !.open = TRUE]
              replied == [asked EXCEPT !.log = Append(@, b)]
              closed == [replied EXCEPT !.open = FALSE]
  <2>1. /\ mem \in Saved /\ LegalSession(mem) /\ turn.m \in Msg
        /\ 0 \in 0..MaxIterations /\ 0 \in 0..MaxCalls
    BY <1>2, <1>10, CheckpointAssumption DEF RunCommand, RunCommandCut
  <2>2. a \in Entry /\ Plain(a) /\ b \in Entry /\ Plain(b)
    BY <2>1, EntryTypes DEF Asked, Plain
  <2>3. /\ mem' \in {closed, asked, replied, Nothing}
        /\ file' \in {replied, asked, file} /\ turn' = Idle
    BY <1>10 DEF RunCommand, RunCommandCut
  <2>. HIDE DEF a, b
  <2>4. asked \in Saved /\ asked.open = TRUE /\ LegalSession(asked)
    BY <2>1, <2>2, WriteOne, LegalWrite DEF Saved
  <2>. HIDE DEF asked
  <2>5. replied = [asked EXCEPT !.log = Append(@, b), !.open = TRUE]
        /\ closed = [asked EXCEPT !.log = Append(@, b), !.open = FALSE]
    BY <2>4 DEF Saved
  <2>. HIDE DEF replied, closed
  <2>6. LegalSession(replied) /\ LegalSession(closed)
    BY <2>2, <2>4, <2>5, LegalWrite
  <2>. QED  BY <1>0, <2>3, <2>4, <2>6 DEF LegalInv
<1>11. CASE BuildUser \/ BuildFollowup
  <2>. DEFINE a == Asked(turn.m)
              b == Item("followup", turn.m, 0, 0)
              s1 == [mem EXCEPT !.log = Append(@, a), !.open = TRUE]
              s2 == [mem EXCEPT !.log = Append(@, b)]
              next == [turn EXCEPT !.pc = "model"]
  <2>1. /\ mem \in Saved /\ LegalSession(mem) /\ Legal(turn.work) /\ turn.m \in Msg
        /\ 0 \in 0..MaxIterations /\ 0 \in 0..MaxCalls /\ mem.open \in BOOLEAN
    BY <1>2, <1>11, CheckpointAssumption DEF BuildUser, BuildFollowup, Saved
  <2>2. a \in Entry /\ Plain(a) /\ b \in Entry /\ Plain(b)
    BY <2>1, EntryTypes DEF Asked, Plain
  <2>3. Save(s1, next) \/ Save(s2, next)
    BY <1>11 DEF BuildUser, BuildFollowup
  <2>4. next \in Turn /\ LegalTurn(next)
    BY <1>0, <2>1 DEF LegalTurn, Turn
  <2>. HIDE DEF a, b, next
  <2>5. s2 = [mem EXCEPT !.log = Append(@, b), !.open = mem.open]
    BY <2>1 DEF Saved
  <2>. HIDE DEF s2
  <2>6. s1 \in Saved /\ LegalSession(s1) /\ s2 \in Saved /\ LegalSession(s2)
    BY <2>1, <2>2, <2>5, WriteOne, LegalWrite
  <2>. HIDE DEF s1
  <2>. QED  BY <1>4, <2>3, <2>4, <2>6
<1>12. ASSUME NEW w \in Seq(Entry), Legal(w), NEW F \in FollowUps, turn.m \in Msg
       PROVE  LegalTurn(Ran(w)) /\ LegalTurn(Iterate(w, F))
  BY <1>0, <1>12, TurnTypes, LegalWork DEF LegalTurn
<1>13. CASE CallTools
  <2>1. PICK n \in 1..MaxCalls :
          /\ Asking
          /\ SavePoint(Point(Calls(turn.m, turn.at, n), FALSE),
                       [turn EXCEPT !.pc = "tools", !.work = Append(@, Calls(turn.m, turn.at, n))])
    BY <1>13 DEF CallTools
  <2>. DEFINE c == Calls(turn.m, turn.at, n)
              next == [turn EXCEPT !.pc = "tools", !.work = Append(@, c)]
  <2>2. /\ c \in Entry /\ c.kind = "calls" /\ next \in Turn
        /\ SubSeq(Append(turn.work, c), 1, Len(Append(turn.work, c)) - 1) = turn.work
    BY <2>1, CallTypes
  <2>3. next.pc = "tools" /\ next.work = Append(turn.work, c)
    BY <1>0 DEF Turn
  <2>4. SavePoint(Point(c, FALSE), next) /\ ~At("idle") /\ Legal(turn.work)
    BY <1>2, <2>1 DEF Asking
  <2>. HIDE DEF c, next
  <2>5. LegalTurn(next)
    BY <2>2, <2>3, <2>4 DEF LegalTurn
  <2>. QED  BY <1>5, <2>2, <2>4, <2>5
<1>14. CASE ToolsDone
  <2>. DEFINE w == turn.work \o Results(Last(turn.work))
  <2>1. PICK F \in FollowUps :
          /\ turn.pc = "tools"
          /\ SavePoint(Point(Last(turn.work), TRUE), [Iterate(w, F) EXCEPT !.blank = FALSE])
    BY <1>14 DEF ToolsDone
  <2>. DEFINE next == [Iterate(w, F) EXCEPT !.blank = FALSE]
  <2>2. /\ turn.m \in Msg /\ turn.at < MaxIterations
        /\ Last(turn.work) \in Entry /\ Last(turn.work).kind = "calls"
        /\ w \in Seq(Entry) /\ Legal(w)
    BY <1>0, <2>1, TurnFacts, LegalToolsDone
  <2>. HIDE DEF w
  <2>3. Iterate(w, F) \in Turn /\ LegalTurn(Iterate(w, F))
    BY <1>0, <1>12, <2>2, TurnTypes
  <2>4. next \in Turn /\ LegalTurn(next)
    BY <2>3 DEF LegalTurn, Turn
  <2>. QED  BY <1>5, <2>1, <2>2, <2>4
<1>15. CASE Answer
  <2>. DEFINE t == Text(turn.m, turn.at)
              w == Append(turn.work, t)
  <2>1. PICK F \in FollowUps : Asking /\ SavePoint(Point(t, FALSE), EndOrIterate(w, F))
    BY <1>15 DEF Answer
  <2>2. /\ turn.m \in Msg /\ turn.at < MaxIterations /\ turn.pc = "model" /\ Legal(turn.work)
    BY <1>2, <2>1 DEF Asking
  <2>3. t \in Entry /\ t.kind = "text" /\ Plain(t)
    BY <1>0, <2>1, <2>2, WorkTypes DEF Plain
  <2>4. w \in Seq(Entry) /\ Legal(w)
    BY <1>0, <2>2, <2>3, LegalAppend
  <2>. HIDE DEF t, w
  <2>5. EndOrIterate(w, F) \in Turn /\ LegalTurn(EndOrIterate(w, F))
    BY <1>0, <1>12, <2>2, <2>4, TurnTypes DEF EndOrIterate
  <2>. QED  BY <1>5, <2>1, <2>2, <2>3, <2>5
<1>16. CASE ToolsFail \/ ToolsStopped
  <2>. DEFINE w == turn.work \o Results(Last(turn.work))
  <2>1. PICK F \in FollowUps :
          /\ turn.pc = "tools"
          /\ turn' \in {Ran(Ending(w)), Iterate(Ending(w), F)}
          /\ UNCHANGED <<file, mem>>
    BY <1>16 DEF ToolsFail, ToolsStopped, EndOrIterate, FollowUps
  <2>2. turn.m \in Msg /\ w \in Seq(Entry) /\ Legal(w)
    BY <1>0, <1>2, <2>1, LegalToolsDone
  <2>. HIDE DEF w
  <2>3. Ending(w) \in Seq(Entry) /\ Legal(Ending(w))
    BY <1>0, <2>2, LegalWork
  <2>4. LegalTurn(turn')
    BY <1>12, <2>1, <2>2, <2>3
  <2>. QED  BY <2>1, <2>4 DEF LegalInv
<1>17. CASE Truncated \/ Blank \/ NoAnswer \/ OutOfIterations
  <2>. DEFINE t == Text(turn.m, turn.at)
              u == Item("nudge", turn.m, turn.at, 0)
  <2>1. /\ turn.m \in Msg /\ turn.at \in 0..MaxIterations /\ Legal(turn.work)
        /\ {} \in FollowUps /\ 0 \in 0..MaxCalls /\ UNCHANGED <<file, mem>>
    BY <1>0, <1>2, <1>17, CheckpointAssumption
       DEF Truncated, Blank, NoAnswer, OutOfIterations, Asking, Turn, FollowUps
  <2>2. CASE Truncated
    <3>1. turn' = Iterate(turn.work \o <<t, u>>, {})
      BY <2>2 DEF Truncated
    <3>2. t \in Entry /\ Plain(t) /\ u \in Entry /\ Plain(u)
      BY <2>1, EntryTypes DEF Text, Plain
    <3>. HIDE DEF t, u
    <3>3. <<t, u>> \in Seq(Entry) /\ Legal(<<t, u>>)
      BY <3>2 DEF Legal, Plain
    <3>4. turn.work \o <<t, u>> \in Seq(Entry) /\ Legal(turn.work \o <<t, u>>)
      BY <1>0, <2>1, <3>3, LegalConcat
    <3>5. LegalTurn(turn')
      BY <1>12, <2>1, <3>1, <3>4
    <3>. QED  BY <2>1, <3>5 DEF LegalInv
  <2>3. CASE Blank
    <3>1. LegalTurn(Iterate(turn.work, {})) /\ Iterate(turn.work, {}).pc = "model"
      BY <1>0, <1>12, <2>1, TurnTypes
    <3>2. turn' = [Iterate(turn.work, {}) EXCEPT !.blank = TRUE]
      BY <2>3 DEF Blank
    <3>3. turn'.pc = "model" /\ turn'.work = Iterate(turn.work, {}).work
      BY <3>2 DEF Iterate, Turn
    <3>4. LegalTurn(turn')
      BY <3>1, <3>3 DEF LegalTurn
    <3>. QED  BY <2>1, <3>4 DEF LegalInv
  <2>4. CASE NoAnswer
    <3>1. PICK F \in FollowUps :
            turn' \in {Ran(Ending(turn.work)), Iterate(Ending(turn.work), F),
                       Iterate(turn.work, F)}
      BY <2>4 DEF NoAnswer, EndOrIterate
    <3>2. Ending(turn.work) \in Seq(Entry) /\ Legal(Ending(turn.work))
      BY <1>0, <2>1, LegalWork
    <3>3. LegalTurn(turn')
      BY <1>0, <1>12, <2>1, <3>1, <3>2
    <3>. QED  BY <2>1, <3>3 DEF LegalInv
  <2>5. CASE OutOfIterations
    <3>1. PICK F \in FollowUps :
            turn' = [Ran(Ending(Injected(turn.work, F))) EXCEPT !.heard = @ \cup F]
      BY <2>5 DEF OutOfIterations
    <3>. DEFINE w == Ending(Injected(turn.work, F))
    <3>2. w \in Seq(Entry) /\ Legal(w)
      <4>1. Injected(turn.work, F) \in Seq(Entry) /\ Legal(Injected(turn.work, F))
        BY <1>0, <2>1, WorkTypes, LegalWork
      <4>. QED  BY <1>0, <2>1, <4>1, LegalWork
    <3>3. turn' = [Ran(w) EXCEPT !.heard = @ \cup F]
      BY <3>1
    <3>. HIDE DEF w
    <3>4. turn'.pc = "ran" /\ turn'.work = w
      BY <1>0, <3>3 DEF Ran, Turn
    <3>. QED  BY <2>1, <3>2, <3>4 DEF LegalInv, LegalTurn
  <2>. QED  BY <1>17, <2>2, <2>3, <2>4, <2>5
<1>18. CASE SaveTurn
  <2>. DEFINE s == [log |-> Appended(mem.log, turn.work), check |-> Nothing,
                    open |-> mem.open /\ turn.m \notin User]
  <2>1. /\ mem \in Saved /\ mem.log \in Seq(Entry) /\ Legal(mem.log) /\ Legal(turn.work)
        /\ mem.open \in BOOLEAN
    BY <1>2, <1>18 DEF SaveTurn, Saved, LegalSession
  <2>2. Save(s, Idle)
    BY <1>18 DEF SaveTurn
  <2>3. /\ s.log = mem.log \o turn.work /\ s.check = Nothing
        /\ mem.log \o turn.work \in Seq(Entry) /\ Legal(mem.log \o turn.work)
    BY <1>0, <2>1, LegalConcat DEF Appended
  <2>4. s \in Saved
    BY <2>1, <2>3 DEF Saved
  <2>. HIDE DEF s
  <2>5. LegalSession(s)
    BY <2>3 DEF LegalSession, Spoken
  <2>. QED  BY <1>0, <1>4, <2>2, <2>4, <2>5
<1>19. CASE Cancel
  BY <1>0, <1>7, <1>19 DEF Cancel
<1>20. ASSUME NEW m \in Msg, CancelForNew(m) PROVE LegalInv'
  <2>. DEFINE next == [Idle EXCEPT !.m = m, !.pc = "clearing"]
  <2>1. LegalTurn(next)
    BY <1>0, LegalShort DEF LegalTurn, Idle
  <2>2. Interrupt(next)
    BY <1>20 DEF CancelForNew
  <2>. HIDE DEF next
  <2>. QED  BY <1>7, <2>1, <2>2
<1>21. CASE Fail \/ Exit \/ Flush \/ Invalidate
  BY <1>0, <1>21 DEF Fail, Exit, Flush, Invalidate, LegalInv
<1>. QED
  BY <1>1, <1>6, <1>8, <1>9, <1>10, <1>11, <1>13, <1>14, <1>15, <1>16, <1>17, <1>18, <1>19,
     <1>20, <1>21 DEF Next, Run

\* However turns end, whichever saves fail and whenever the process exits, the file
\* and the cached session hold a history in which all calls are answered in order:
\* no provider will reject it, so no later turn of the session is blocked.
THEOREM HistoryStaysLegal == Spec => []HistoryLegal
<1>1. Init => LegalInv
  BY IdleType, LegalShort DEF Init, LegalInv, LegalSession, Spoken, LegalTurn, Fresh
<1>2. LegalInv => HistoryLegal
  BY DEF LegalInv, LegalSession, HistoryLegal
<1>. QED  BY InitTypes, TypeStep, LegalStep, <1>1, <1>2, PTL DEF Spec
-----------------------------------------------------------------------------
(* Nothing is written twice.                                               *)

\* No message stands in a history twice.
Distinct(q) == \A j, k \in 1..Len(q) : q[j] = q[k] => j = k

\* No user message follows another one.
Separate(q) == \A k \in 1..Len(q) - 1 : ~(q[k].kind = "user" /\ q[k + 1].kind = "user")

\* What the run of a turn, or its recovery, leaves of the turn.
RunKinds == {"calls", "result", "cut", "text", "nudge"}

\* A history whose messages are all of S, and which recovery and the next turn can go
\* on from: its checkpoint belongs to a turn of which it holds no message of the run;
\* a user message it ends with is still to be closed.
SessionOnce(s, S) ==
    /\ Distinct(s.log) /\ Separate(s.log)
    /\ \A e \in Elements(s.log) : e.of \in S
    /\ s.check # Nothing =>
          /\ s.check.said.of \in S
          /\ \A e \in Elements(s.log) : e.of = s.check.said.of => e.kind \notin RunKinds
    /\ s.log # <<>> =>
          /\ Last(s.log).kind \notin {"injected", "nudge"}
          /\ Last(s.log).kind = "user" =>
                /\ s.open \/ s.check # Nothing
                /\ Item("closing", Last(s.log).of, 0, 0) \notin Elements(s.log)

\* What a run appended in the iterations before i, and what it took in.
WorkOnce(w, m, i, S) ==
    /\ Distinct(w)
    /\ \A e \in Elements(w) :
          /\ e.of \in S
          /\ \/ e.kind = "injected"
             \/ e.kind \in {"calls", "result", "text", "nudge"} /\ e.of = m /\ e.at < i

\* Before its message is written the session knows nothing of a turn.
Unheard(s, m) ==
    /\ \A e \in Elements(s.log) : e.of # m
    /\ s.check # Nothing => s.check.said.of # m

\* While it runs, the history holds nothing of its run yet, and the checkpoint
\* is a message of the run.
RunOnce(t, s, S) ==
    /\ \A e \in Elements(s.log) : e.of = t.m => e.kind \notin RunKinds
    /\ t.m \notin User => s.log # <<>> /\ Last(s.log).kind # "user"
    /\ s.check # Nothing => s.check.said \in Elements(t.work)
    /\ \A e \in Elements(t.work) : e \notin Elements(s.log)
    /\ t.pc = "model" => WorkOnce(t.work, t.m, t.at, S)
    /\ t.pc = "tools" => /\ WorkOnce(SubSeq(t.work, 1, Len(t.work) - 1), t.m, t.at, S)
                         /\ Last(t.work).of = t.m /\ Last(t.work).at = t.at
    /\ t.pc = "ran" => /\ WorkOnce(t.work, t.m, t.at + 1, S)
                       /\ \/ t.work = <<>> /\ t.m \in Subagent
                          \/ t.work # <<>> /\ Last(t.work).kind = "text"

TurnOnce(t, s, S) ==
    /\ t.pc \in {"begun", "restored"} => t.work = <<>> /\ Unheard(s, t.m)
    /\ t.pc = "restored" => s.check = Nothing /\ (s.log # <<>> => Last(s.log).kind # "user")
    /\ t.pc \in {"model", "tools", "ran"} => RunOnce(t, s, S)

OnceInv ==
    /\ SessionOnce(file, seen) /\ (mem # Nothing => SessionOnce(mem, seen))
    /\ TurnOnce(turn, mem, seen)

\* The messages of two histories, one after the other.
LEMMA ElementsConcat ==
    ASSUME NEW p \in Seq(Entry), NEW q \in Seq(Entry)
    PROVE  /\ p \o q \in Seq(Entry) /\ Elements(p \o q) = Elements(p) \cup Elements(q)
           /\ Elements(p) \subseteq Entry
<1>. DEFINE r == p \o q
<1>1. /\ Len(p) \in Nat /\ Len(q) \in Nat /\ r \in Seq(Entry) /\ Len(r) = Len(p) + Len(q)
      /\ \A i \in 1..Len(p) : r[i] = p[i]
      /\ \A i \in 1..Len(q) : r[Len(p) + i] = q[i]
  BY ConcatProperties, LenProperties
<1>. HIDE DEF r
<1>2. ASSUME NEW k \in 1..Len(r) PROVE r[k] \in Elements(p) \cup Elements(q)
  <2>1. CASE k <= Len(p)
    BY <1>1, <2>1 DEF Elements
  <2>2. CASE k > Len(p)
    <3>1. k - Len(p) \in 1..Len(q) /\ Len(p) + (k - Len(p)) = k
      BY <1>1, <2>2
    <3>. QED  BY <1>1, <3>1 DEF Elements
  <2>. QED  BY <1>1, <2>1, <2>2
<1>3. ASSUME NEW k \in 1..Len(p) PROVE p[k] \in Elements(r)
  BY <1>1, <1>3 DEF Elements
<1>4. ASSUME NEW k \in 1..Len(q) PROVE q[k] \in Elements(r)
  <2>1. Len(p) + k \in 1..Len(r) /\ r[Len(p) + k] = q[k]
    BY <1>1
  <2>. QED  BY <2>1 DEF Elements
<1>5. Elements(r) = Elements(p) \cup Elements(q)
  BY <1>2, <1>3, <1>4 DEF Elements
<1>6. Elements(p) \subseteq Entry
  BY LenProperties DEF Elements
<1>. QED  BY <1>1, <1>5, <1>6 DEF r

\* No message, and one.
LEMMA ShortSequences ==
    /\ Elements(<<>>) = {} /\ Distinct(<<>>) /\ Separate(<<>>)
    /\ \A e : Elements(<<e>>) = {e} /\ Distinct(<<e>>) /\ Separate(<<e>>) /\ Last(<<e>>) = e
BY DEF Elements, Distinct, Separate, Last

\* The last message is one of the history.
LEMMA LastElement ==
    ASSUME NEW q \in Seq(Entry), q # <<>>
    PROVE  Len(q) \in Nat \ {0} /\ Last(q) \in Elements(q) /\ Last(q) \in Entry
BY EmptySeq, LenProperties DEF Last, Elements

\* Two histories that share nothing, one after the other.
LEMMA DistinctConcat ==
    ASSUME NEW p \in Seq(Entry), NEW q \in Seq(Entry), Distinct(p), Distinct(q),
           \A e \in Elements(q) : e \notin Elements(p)
    PROVE  Distinct(p \o q)
<1>. DEFINE r == p \o q
<1>1. /\ Len(p) \in Nat /\ Len(q) \in Nat /\ r \in Seq(Entry) /\ Len(r) = Len(p) + Len(q)
      /\ \A i \in 1..Len(p) : r[i] = p[i]
      /\ \A i \in 1..Len(q) : r[Len(p) + i] = q[i]
  BY ConcatProperties, LenProperties
<1>. HIDE DEF r
<1>2. ASSUME NEW k \in 1..Len(r)
      PROVE  \/ k \in 1..Len(p) /\ r[k] = p[k] /\ r[k] \in Elements(p)
             \/ k - Len(p) \in 1..Len(q) /\ r[k] = q[k - Len(p)] /\ r[k] \in Elements(q)
  <2>1. CASE k <= Len(p)
    BY <1>1, <2>1 DEF Elements
  <2>2. CASE k > Len(p)
    <3>1. k - Len(p) \in 1..Len(q) /\ Len(p) + (k - Len(p)) = k
      BY <1>1, <2>2
    <3>. QED  BY <1>1, <3>1 DEF Elements
  <2>. QED  BY <1>1, <2>1, <2>2
<1>3. ASSUME NEW j \in 1..Len(r), NEW k \in 1..Len(r), r[j] = r[k] PROVE j = k
  <2>1. CASE j \in 1..Len(p) /\ k \in 1..Len(p)
    BY <1>1, <1>3, <2>1 DEF Distinct
  <2>2. CASE j - Len(p) \in 1..Len(q) /\ k - Len(p) \in 1..Len(q)
    <3>1. q[j - Len(p)] = q[k - Len(p)]
      <4>1. Len(p) + (j - Len(p)) = j /\ Len(p) + (k - Len(p)) = k
        BY <1>1
      <4>. QED  BY <1>1, <1>3, <2>2, <4>1
    <3>2. j - Len(p) = k - Len(p)
      BY <2>2, <3>1 DEF Distinct
    <3>. QED  BY <1>1, <3>2
  <2>. QED  BY <1>2, <1>3, <2>1, <2>2
<1>. QED  BY <1>3 DEF Distinct, r

\* No two user messages meet where two histories do.
LEMMA SeparateConcat ==
    ASSUME NEW p \in Seq(Entry), NEW q \in Seq(Entry), Separate(p), Separate(q),
           \/ p = <<>>
           \/ Last(p).kind # "user"
           \/ q # <<>> => q[1].kind # "user"
    PROVE  Separate(p \o q)
<1>. DEFINE r == p \o q
<1>1. /\ Len(p) \in Nat /\ Len(q) \in Nat /\ r \in Seq(Entry) /\ Len(r) = Len(p) + Len(q)
      /\ \A i \in 1..Len(p) : r[i] = p[i]
      /\ \A i \in 1..Len(q) : r[Len(p) + i] = q[i]
  BY ConcatProperties, LenProperties
<1>. HIDE DEF r
<1>2. ASSUME NEW k \in 1..Len(r) - 1, r[k].kind = "user", r[k + 1].kind = "user" PROVE FALSE
  <2>1. CASE k < Len(p)
    <3>1. k \in 1..Len(p) - 1 /\ k \in 1..Len(p) /\ k + 1 \in 1..Len(p)
      BY <1>1, <2>1
    <3>. QED  BY <1>1, <1>2, <3>1 DEF Separate
  <2>2. CASE k = Len(p)
    <3>1. Len(p) \in 1..Len(p) /\ 1 \in 1..Len(q) /\ q # <<>> /\ p # <<>>
      BY <1>1, <2>2, EmptySeq
    <3>2. r[k] = Last(p) /\ r[k + 1] = q[1]
      BY <1>1, <2>2, <3>1 DEF Last
    <3>. QED  BY <1>2, <3>1, <3>2
  <2>3. CASE k > Len(p)
    <3>1. /\ k - Len(p) \in 1..Len(q) - 1 /\ k - Len(p) \in 1..Len(q)
          /\ (k - Len(p)) + 1 \in 1..Len(q)
          /\ Len(p) + (k - Len(p)) = k /\ Len(p) + ((k - Len(p)) + 1) = k + 1
      BY <1>1, <2>3
    <3>2. r[k] = q[k - Len(p)] /\ r[k + 1] = q[(k - Len(p)) + 1]
      BY <1>1, <3>1
    <3>. QED  BY <1>2, <3>1, <3>2 DEF Separate
  <2>. QED  BY <1>1, <2>1, <2>2, <2>3
<1>. QED  BY <1>2 DEF Separate, r

\* Without user messages there is nothing to separate.
LEMMA NoUserSeparate ==
    ASSUME NEW q \in Seq(Entry), \A e \in Elements(q) : e.kind # "user"
    PROVE  Separate(q) /\ (q # <<>> => q[1].kind # "user")
<1>1. Len(q) \in Nat /\ \A k \in 1..Len(q) : q[k] \in Elements(q)
  BY LenProperties DEF Elements
<1>2. q # <<>> => 1 \in 1..Len(q)
  BY <1>1, EmptySeq
<1>3. \A k \in 1..Len(q) - 1 : k \in 1..Len(q)
  BY <1>1
<1>. QED  BY <1>1, <1>2, <1>3 DEF Separate

\* The last message of two histories, one after the other.
LEMMA LastConcat ==
    ASSUME NEW p \in Seq(Entry), NEW q \in Seq(Entry)
    PROVE  /\ q = <<>> => p \o q = p
           /\ q # <<>> => p \o q # <<>> /\ Last(p \o q) = Last(q)
<1>1. q = <<>> => p \o q = p
  BY ConcatEmptySeq
<1>2. ASSUME q # <<>> PROVE p \o q # <<>> /\ Last(p \o q) = Last(q)
  <2>. DEFINE r == p \o q
  <2>1. /\ Len(p) \in Nat /\ Len(q) \in Nat \ {0} /\ r \in Seq(Entry)
        /\ Len(r) = Len(p) + Len(q)
        /\ \A i \in 1..Len(q) : r[Len(p) + i] = q[i]
    BY <1>2, ConcatProperties, LenProperties, EmptySeq
  <2>. HIDE DEF r
  <2>2. Len(q) \in 1..Len(q) /\ Len(r) # 0
    BY <2>1
  <2>3. r # <<>>
    BY <2>1, <2>2, EmptySeq
  <2>. QED  BY <2>1, <2>2, <2>3 DEF Last, r
<1>. QED  BY <1>1, <1>2

\* Appending one message.
LEMMA AppendOnce ==
    ASSUME NEW p \in Seq(Entry), NEW e \in Entry
    PROVE  /\ Append(p, e) \in Seq(Entry) /\ Append(p, e) = p \o <<e>> /\ <<e>> \in Seq(Entry)
           /\ Elements(Append(p, e)) = Elements(p) \cup {e}
           /\ Append(p, e) # <<>> /\ Last(Append(p, e)) = e
           /\ Distinct(p) /\ e \notin Elements(p) => Distinct(Append(p, e))
<1>1. <<e>> \in Seq(Entry) /\ <<e>> # <<>> /\ Append(p, e) = p \o <<e>>
  BY AppendIsConcat
<1>2. Elements(<<e>>) = {e} /\ Distinct(<<e>>) /\ Last(<<e>>) = e
  BY ShortSequences
<1>3. Distinct(p) /\ e \notin Elements(p) => Distinct(p \o <<e>>)
  BY <1>1, <1>2, DistinctConcat
<1>. DEFINE q == <<e>>
<1>. HIDE DEF q
<1>4. /\ q \in Seq(Entry) /\ q # <<>> /\ Elements(q) = {e} /\ Last(q) = e
      /\ Append(p, e) = p \o q
  BY <1>1, <1>2 DEF q
<1>5. /\ p \o q \in Seq(Entry) /\ Elements(p \o q) = Elements(p) \cup Elements(q)
      /\ p \o q # <<>> /\ Last(p \o q) = Last(q)
  BY <1>4, ElementsConcat, LastConcat
<1>. QED  BY <1>1, <1>3, <1>4, <1>5

\* The last message of a sequence and the ones before it.
LEMMA FrontLast ==
    ASSUME NEW q \in Seq(Entry), q # <<>>
    PROVE  LET front == SubSeq(q, 1, Len(q) - 1)
           IN  front \in Seq(Entry) /\ q = front \o <<Last(q)>> /\ q = Append(front, Last(q))
<1>. DEFINE n == Len(q)
            front == SubSeq(q, 1, n - 1)
<1>1. n \in Nat \ {0} /\ Last(q) \in Entry /\ Last(q) = q[n]
  BY LastElement DEF Last
<1>2. front \in Seq(Entry)
  <2>1. \A i \in 1..n - 1 : q[i] \in Entry
    BY <1>1, LenProperties
  <2>2. n - 1 \in Int
    BY <1>1
  <2>. QED  BY <2>1, <2>2, SubSeqProperties
<1>3. q = front \o <<Last(q)>>
  <2>1. SubSeq(q, 1, n) = SubSeq(q, 1, n - 1) \o <<q[n]>>
    BY <1>1, SubSeqRecursiveSecond
  <2>. QED  BY <1>1, <2>1, SubSeqFull
<1>. HIDE DEF front
<1>4. q = Append(front, Last(q))
  BY <1>1, <1>2, <1>3, AppendIsConcat
<1>5. front = SubSeq(q, 1, Len(q) - 1)
  BY DEF front
<1>. QED  BY <1>2, <1>3, <1>4, <1>5, Zenon

\* The results of an assistant message are distinct messages of its turn and iteration.
LEMMA BlockOnce ==
    ASSUME NEW c \in Entry, NEW q \in {Results(c), Cuts(c)}
    PROVE  /\ q \in Seq(Entry) /\ Distinct(q)
           /\ \A e \in Elements(q) : e.kind \in {"result", "cut"} /\ e.of = c.of /\ e.at = c.at
           /\ q = Results(c) => \A e \in Elements(q) : e.kind = "result"
<1>1. /\ q \in Seq(Entry) /\ Len(q) = c.no
      /\ \A k \in 1..c.no : \/ q[k] = Item("result", c.of, c.at, k)
                            \/ q[k] = Item("cut", c.of, c.at, k) /\ q # Results(c)
  <2>1. CASE q = Results(c)
    BY <2>1, BlockTypes
  <2>2. CASE q = Cuts(c) /\ q # Results(c)
    BY <2>2, BlockTypes
  <2>. QED  BY <2>1, <2>2
<1>2. ASSUME NEW k \in 1..c.no
      PROVE  /\ q[k].kind \in {"result", "cut"} /\ q[k].of = c.of /\ q[k].at = c.at
             /\ q[k].no = k /\ (q = Results(c) => q[k].kind = "result")
  <2>1. CASE q[k] = Item("result", c.of, c.at, k)
    BY <2>1 DEF Item
  <2>2. CASE q[k] = Item("cut", c.of, c.at, k) /\ q # Results(c)
    BY <2>2 DEF Item
  <2>. QED  BY <1>1, <2>1, <2>2
<1>3. Distinct(q)
  BY <1>1, <1>2 DEF Distinct
<1>. QED  BY <1>1, <1>2, <1>3 DEF Elements

\* What recovery adds: distinct messages of the run of the checkpoint's turn, the
\* first its assistant message.
LEMMA RestoredOnce ==
    ASSUME NEW p \in Checkpoint, Spoken(p), p # Nothing
    PROVE  LET r == Restored(p)
           IN  /\ r \in Seq(Entry) /\ r # <<>> /\ Distinct(r)
               /\ \A e \in Elements(r) : e.kind \in {"calls", "text", "result", "cut"}
                                         /\ e.of = p.said.of
               /\ r[1] = p.said
<1>. DEFINE c == p.said
            r == Restored(p)
<1>1. c \in Entry /\ c.kind \in {"calls", "text"} /\ <<c>> \in Seq(Entry) /\ <<>> \in Seq(Entry)
  BY DEF Checkpoint, Spoken
<1>2. PICK q \in Seq(Entry) :
        /\ r = <<c>> \o q /\ Distinct(q)
        /\ \A e \in Elements(q) : e.kind \in {"result", "cut"} /\ e.of = c.of
  <2>1. CASE c.kind # "calls"
    <3>1. r = <<c>> \o <<>>
      BY <2>1 DEF Restored
    <3>. QED  BY <1>1, <3>1, ShortSequences
  <2>2. CASE c.kind = "calls" /\ p.done
    <3>1. r = <<c>> \o Results(c)
      BY <2>2 DEF Restored
    <3>. QED  BY <1>1, <3>1, BlockOnce
  <2>3. CASE c.kind = "calls" /\ ~p.done
    <3>1. r = <<c>> \o Cuts(c)
      BY <2>3 DEF Restored
    <3>. QED  BY <1>1, <3>1, BlockOnce
  <2>. QED  BY <2>1, <2>2, <2>3
<1>3. /\ Elements(<<c>>) = {c} /\ Distinct(<<c>>) /\ Len(<<c>>) = 1 /\ <<c>>[1] = c
  BY ShortSequences
<1>4. \A e \in Elements(q) : e \notin Elements(<<c>>)
  BY <1>1, <1>2, <1>3
<1>5. Distinct(<<c>> \o q) /\ Elements(<<c>> \o q) = {c} \cup Elements(q)
  BY <1>1, <1>2, <1>3, <1>4, DistinctConcat, ElementsConcat
<1>6. (<<c>> \o q)[1] = c
  <2>1. 1 \in 1..Len(<<c>>) + Len(q)
    BY <1>2, <1>3, LenProperties
  <2>. QED  BY <1>1, <1>2, <1>3, <2>1, ConcatProperties
<1>7. r \in Seq(Entry) /\ r # <<>>
  BY RestoredType
<1>8. \A e \in Elements(r) : e.kind \in {"calls", "text", "result", "cut"} /\ e.of = c.of
  BY <1>1, <1>2, <1>5
<1>. QED  BY <1>2, <1>5, <1>6, <1>7, <1>8

\* A session stays what it is when more messages are seen.
LEMMA SessionMonotone ==
    ASSUME NEW S, NEW T, S \subseteq T, NEW s, SessionOnce(s, S)
    PROVE  SessionOnce(s, T)
BY DEF SessionOnce

\* The same of the work of a run, and of later iterations.
LEMMA WorkMonotone ==
    ASSUME NEW S, NEW T, S \subseteq T, NEW w \in Seq(Entry), NEW m, NEW i \in Nat, NEW j \in Nat,
           i <= j, WorkOnce(w, m, i, S)
    PROVE  WorkOnce(w, m, j, T)
<1>1. ASSUME NEW e \in Elements(w), e.at < i PROVE e.at < j
  <2>1. e.at \in Nat
    <3>1. Elements(w) \subseteq Entry
      BY ElementsConcat
    <3>2. e.at \in 0..MaxIterations
      BY <3>1 DEF Entry
    <3>. QED  BY <3>2, CheckpointAssumption
  <2>. QED  BY <1>1, <2>1
<1>. QED  BY <1>1 DEF WorkOnce

\* Recovery adds what the history did not hold, and nothing of another turn.
LEMMA RestoreOnce ==
    ASSUME NEW s \in Saved, NEW S, s.check # Nothing, SessionOnce(s, S), Spoken(s.check)
    PROVE  LET t == RestoreCheckpoint(s)
           IN  /\ SessionOnce(t, S) /\ t.check = Nothing
               /\ t.log # <<>> /\ Last(t.log).kind # "user"
               /\ s.check.said \in Elements(t.log)
               /\ \A e \in Elements(t.log) : e \in Elements(s.log) \/ e.of = s.check.said.of
<1>. DEFINE r == Restored(s.check)
            c == s.check.said
            log == s.log
            t == RestoreCheckpoint(s)
<1>1. s.check \in Checkpoint /\ log \in Seq(Entry) /\ Len(log) \in Nat
  BY LenProperties DEF Saved
<1>2. /\ r \in Seq(Entry) /\ r # <<>> /\ Distinct(r) /\ r[1] = c
      /\ \A e \in Elements(r) : e.kind \in {"calls", "text", "result", "cut"} /\ e.of = c.of
  BY <1>1, RestoredOnce
<1>3. PICK d \in 0..Len(r) : Fits(log, r, d) /\ t.log = log \o SubSeq(r, d + 1, Len(r))
  BY RestoreAppends
<1>4. t.check = Nothing
  BY RestoreAppends
<1>5. /\ c.of \in S /\ \A e \in Elements(log) : e.of \in S
      /\ \A e \in Elements(log) : e.of = c.of => e.kind \notin RunKinds
      /\ Distinct(log) /\ Separate(log)
  BY DEF SessionOnce
<1>. HIDE DEF r, c, log, t
<1>6. Len(r) \in Nat \ {0} /\ r[1] \in Elements(r)
  BY <1>2, LastElement DEF Elements
<1>7. \A e \in Elements(r) : e \notin Elements(log)
  BY <1>2, <1>5 DEF RunKinds
<1>8. d = 0
  <2>. SUFFICES ASSUME d > 0 PROVE FALSE
    BY <1>6
  <2>. DEFINE k == Len(log) - d + 1
  <2>1. k \in 1..Len(log) /\ Len(log) - k = d - 1 /\ d \in Nat /\ d <= Len(r)
    BY <1>1, <1>3, <1>6 DEF Fits
  <2>2. SubSeq(log, k, Len(log))[1] = log[k]
    <3>1. \A i \in k..Len(log) : log[i] \in Entry
      BY <1>1, <2>1, LenProperties
    <3>2. 1 \in 1..Len(log) - k + 1 /\ k + 1 - 1 = k /\ k \in Int /\ Len(log) \in Int
      BY <1>1, <2>1
    <3>3. \A i \in 1..Len(log) - k + 1 : SubSeq(log, k, Len(log))[i] = log[k + i - 1]
      BY <3>1, <3>2, SubSeqProperties
    <3>. QED  BY <3>2, <3>3
  <2>3. SubSeq(r, 1, d)[1] = r[1]
    <3>1. (\A i \in 1..d : r[i] \in Entry) /\ 1 \in 1..d - 1 + 1
      BY <1>2, <2>1, LenProperties
    <3>2. \A i \in 1..d - 1 + 1 : SubSeq(r, 1, d)[i] = r[1 + i - 1]
      BY <2>1, <3>1, SubSeqProperties
    <3>. QED  BY <3>1, <3>2
  <2>4. log[k] = r[1]
    BY <1>3, <2>2, <2>3 DEF Fits
  <2>5. log[k] \in Elements(log)
    BY <2>1 DEF Elements
  <2>. QED  BY <1>6, <1>7, <2>4, <2>5
<1>9. t.log = log \o r
  <2>1. SubSeq(r, 1, Len(r)) = r
    BY <1>2, SubSeqFull
  <2>. QED  BY <1>3, <1>8, <2>1
<1>10. Distinct(t.log) /\ Elements(t.log) = Elements(log) \cup Elements(r)
  BY <1>1, <1>2, <1>5, <1>7, <1>9, DistinctConcat, ElementsConcat
<1>11. /\ t.log # <<>> /\ Last(t.log) = Last(r)
       /\ Last(r).kind \in {"calls", "text", "result", "cut"}
  BY <1>1, <1>2, <1>9, LastConcat, LastElement
<1>12. Separate(t.log)
  <2>1. Separate(r) /\ r[1].kind # "user"
    BY <1>2, <1>6, NoUserSeparate
  <2>. QED  BY <1>1, <1>2, <1>5, <1>9, <2>1, SeparateConcat
<1>13. \A e \in Elements(t.log) : e.of \in S
  BY <1>2, <1>5, <1>10
<1>14. SessionOnce(t, S)
  BY <1>4, <1>10, <1>11, <1>12, <1>13 DEF SessionOnce
<1>15. c \in Elements(t.log)
  BY <1>2, <1>6, <1>10
<1>16. \A e \in Elements(t.log) : e \in Elements(log) \/ e.of = c.of
  BY <1>2, <1>10
<1>. QED  BY <1>4, <1>11, <1>14, <1>15, <1>16 DEF t, c, log

\* A turn that was left open is closed once.
LEMMA CloseOnce ==
    ASSUME NEW s \in Saved, NEW S, s.check = Nothing, SessionOnce(s, S)
    PROVE  LET t == ClosePending(s)
           IN  /\ SessionOnce(t, S) /\ t.check = Nothing
               /\ t.log # <<>> => Last(t.log).kind # "user"
               /\ \A e \in Elements(t.log) : \E f \in Elements(s.log) : e.of = f.of
<1>. DEFINE log == s.log
            t == ClosePending(s)
<1>1. log \in Seq(Entry) /\ t.check = Nothing
  BY CloseAppends DEF Saved
<1>2. CASE log # <<>> /\ FromUser(Last(log))
  <2>. DEFINE e == Item("closing", Last(log).of, 0, 0)
  <2>1. Last(log) \in Elements(log) /\ Last(log) \in Entry
    BY <1>1, <1>2, LastElement
  <2>2. Last(log).kind = "user" /\ e \notin Elements(log)
    BY <1>2 DEF SessionOnce, FromUser
  <2>3. e \in Entry /\ e.kind = "closing" /\ e.of = Last(log).of
    BY <2>1, CheckpointAssumption DEF Entry, Item
  <2>4. t.log = Append(log, e)
    BY <1>1, <1>2 DEF ClosePending, Saved
  <2>. HIDE DEF e, log, t
  <2>5. /\ t.log # <<>> /\ Last(t.log) = e /\ Elements(t.log) = Elements(log) \cup {e}
        /\ Append(log, e) = log \o <<e>> /\ <<e>> \in Seq(Entry)
    BY <1>1, <2>3, <2>4, AppendOnce
  <2>6. Distinct(log) /\ Separate(log) /\ \A f \in Elements(log) : f.of \in S
    BY DEF SessionOnce, log
  <2>7. Distinct(t.log)
    BY <1>1, <2>2, <2>3, <2>4, <2>6, AppendOnce
  <2>8. Separate(t.log)
    <3>1. Separate(<<e>>) /\ <<e>>[1].kind # "user"
      BY <2>3, ShortSequences
    <3>. HIDE DEF e
    <3>. QED  BY <1>1, <2>4, <2>5, <2>6, <3>1, SeparateConcat
  <2>9. SessionOnce(t, S)
    BY <1>1, <2>1, <2>3, <2>5, <2>6, <2>7, <2>8 DEF SessionOnce
  <2>. QED  BY <1>1, <2>1, <2>3, <2>5, <2>9 DEF t, log
<1>3. CASE ~(log # <<>> /\ FromUser(Last(log)))
  <2>1. t = [s EXCEPT !.open = FALSE, !.log = log]
    BY <1>3, Zenon DEF ClosePending
  <2>2. t.log = log
    BY <2>1 DEF Saved
  <2>3. log # <<>> => Last(log).kind # "user"
    BY <1>3 DEF FromUser
  <2>4. SessionOnce(t, S)
    BY <1>1, <2>2, <2>3 DEF SessionOnce
  <2>. QED  BY <1>1, <2>2, <2>3, <2>4
<1>. QED  BY <1>2, <1>3

\* A message of a new turn is written after what is no open user message.
LEMMA WriteOnce ==
    ASSUME NEW s \in Saved, NEW S, s.check = Nothing, SessionOnce(s, S),
           NEW e \in Entry, e.of \in S, e.kind \in {"user", "followup", "reply"},
           e \notin Elements(s.log), NEW t \in Saved, t.log = Append(s.log, e),
           t.check = Nothing,
           e.kind = "user" =>
               /\ t.open /\ Unheard(s, e.of)
               /\ s.log # <<>> => Last(s.log).kind # "user"
    PROVE  SessionOnce(t, S)
<1>. DEFINE log == s.log
<1>1. /\ log \in Seq(Entry) /\ t.log = Append(log, e)
      /\ Distinct(log) /\ Separate(log) /\ \A f \in Elements(log) : f.of \in S
  BY AppendIsConcat DEF Saved, SessionOnce
<1>2. e.kind = "user" => \A f \in Elements(log) : f.of # e.of
  BY DEF Unheard
<1>. HIDE DEF log
<1>3. /\ t.log # <<>> /\ Last(t.log) = e /\ Elements(t.log) = Elements(log) \cup {e}
      /\ Append(log, e) = log \o <<e>> /\ <<e>> \in Seq(Entry)
  BY <1>1, AppendOnce
<1>4. Distinct(t.log)
  BY <1>1, AppendOnce DEF log
<1>5. Separate(t.log)
  <2>1. Separate(<<e>>) /\ <<e>>[1] = e
    BY ShortSequences
  <2>2. \/ log = <<>> \/ Last(log).kind # "user" \/ <<e>>[1].kind # "user"
    BY <2>1 DEF log
  <2>. DEFINE q == <<e>>
  <2>. HIDE DEF q
  <2>3. Separate(q) /\ q \in Seq(Entry)
        /\ (log = <<>> \/ Last(log).kind # "user" \/ (q # <<>> => q[1].kind # "user"))
    BY <1>3, <2>1, <2>2 DEF q
  <2>4. Separate(log \o q)
    BY <1>1, <2>3, SeparateConcat
  <2>. QED  BY <1>1, <1>3, <2>4 DEF q
<1>6. e.kind = "user" => Item("closing", e.of, 0, 0) \notin Elements(t.log)
  <2>1. Item("closing", e.of, 0, 0).of = e.of /\ Item("closing", e.of, 0, 0).kind = "closing"
    BY DEF Item
  <2>. QED  BY <1>2, <1>3, <2>1
<1>7. SessionOnce(t, S)
  BY <1>1, <1>3, <1>4, <1>5, <1>6 DEF SessionOnce
<1>. QED  BY <1>7

-----------------------------------------------------------------------------
(* The work of a run.                                                      *)

\* Distinct messages of the run that the work did not hold yet.
LEMMA WorkAdds ==
    ASSUME NEW w \in Seq(Entry), NEW q \in Seq(Entry), NEW m, NEW i, NEW S,
           WorkOnce(w, m, i, S), m \in S, Distinct(q),
           \A e \in Elements(q) : /\ e \notin Elements(w)
                                  /\ e.kind \in {"calls", "result", "text", "nudge"}
                                  /\ e.of = m /\ e.at < i
    PROVE  /\ WorkOnce(w \o q, m, i, S) /\ w \o q \in Seq(Entry)
           /\ Elements(w \o q) = Elements(w) \cup Elements(q)
<1>1. Distinct(w \o q) /\ Elements(w \o q) = Elements(w) \cup Elements(q) /\ w \o q \in Seq(Entry)
  BY DistinctConcat, ElementsConcat DEF WorkOnce
<1>. QED  BY <1>1 DEF WorkOnce

\* What is taken in was not seen before.
LEMMA InjectOnce ==
    ASSUME TypeInv, NEW w \in Seq(Entry), NEW m, NEW i, WorkOnce(w, m, i, seen),
           NEW F \in FollowUps
    PROVE  /\ WorkOnce(Injected(w, F), m, i, seen \cup F)
           /\ Elements(w) \subseteq Elements(Injected(w, F))
           /\ \A e \in Elements(Injected(w, F)) :
                 e \in Elements(w) \/ (e.kind = "injected" /\ e.of \notin seen)
<1>1. CASE Injected(w, F) = w
  BY <1>1 DEF WorkOnce
<1>2. CASE Injected(w, F) # w
  <2>. DEFINE f == CHOOSE f \in F : TRUE
  <2>1. F # {} /\ Injected(w, F) = Append(w, Heard(f))
    BY <1>2 DEF Injected
  <2>2. f \in F /\ f \notin seen /\ f \in Msg
    BY <2>1, FollowUpTypes DEF Msg
  <2>. HIDE DEF f
  <2>3. Heard(f) \in Entry /\ Heard(f).kind = "injected" /\ Heard(f).of = f
    BY <2>2, EntryTypes, CheckpointAssumption DEF Heard
  <2>4. Heard(f) \notin Elements(w)
    BY <2>2, <2>3 DEF WorkOnce
  <2>5. /\ Elements(Injected(w, F)) = Elements(w) \cup {Heard(f)}
        /\ Distinct(Injected(w, F))
    BY <2>1, <2>3, <2>4, AppendOnce DEF WorkOnce
  <2>. QED  BY <2>2, <2>3, <2>5 DEF WorkOnce
<1>. QED  BY <1>1, <1>2

\* The text that ends a run is the last one of its iteration.
LEMMA EndOnce ==
    ASSUME TypeInv, turn.m \in Msg, NEW S, turn.m \in S, NEW w \in Seq(Entry),
           WorkOnce(w, turn.m, turn.at + 1, S), Text(turn.m, turn.at) \notin Elements(w)
    PROVE  /\ WorkOnce(Ending(w), turn.m, turn.at + 1, S) /\ Ending(w) \in Seq(Entry)
           /\ Elements(w) \subseteq Elements(Ending(w))
           /\ \A e \in Elements(Ending(w)) : e \in Elements(w) \/ e = Text(turn.m, turn.at)
           /\ \/ Ending(w) = <<>> /\ turn.m \in Subagent
              \/ Ending(w) # <<>> /\ Last(Ending(w)).kind = "text"
<1>. DEFINE t == Text(turn.m, turn.at)
<1>1. turn.at \in 0..MaxIterations /\ 0 \in 0..MaxCalls /\ turn.at \in Nat
  BY CheckpointAssumption DEF TypeInv, TypeOK, Turn
<1>2. t \in Entry /\ t.kind = "text" /\ t.of = turn.m /\ t.at = turn.at /\ t.at < turn.at + 1
  BY <1>1, EntryTypes DEF Text
<1>3. CASE w = <<>> /\ turn.m \in Subagent
  BY <1>3 DEF Ending
<1>4. CASE ~(w = <<>> /\ turn.m \in Subagent)
  <2>1. Ending(w) = Append(w, t)
    BY <1>4 DEF Ending
  <2>. DEFINE q == <<t>>
  <2>. HIDE DEF t
  <2>2. /\ q \in Seq(Entry) /\ Elements(q) = {t} /\ Distinct(q) /\ Append(w, t) = w \o q
        /\ Append(w, t) # <<>> /\ Last(Append(w, t)) = t
    BY <1>2, ShortSequences, AppendOnce
  <2>. HIDE DEF q
  <2>3. t \notin Elements(w)
    BY DEF t
  <2>4. /\ WorkOnce(w \o q, turn.m, turn.at + 1, S) /\ w \o q \in Seq(Entry)
        /\ Elements(w \o q) = Elements(w) \cup Elements(q)
    BY <1>2, <2>2, <2>3, WorkAdds
  <2>. QED  BY <1>2, <2>1, <2>2, <2>4 DEF t
<1>. QED  BY <1>3, <1>4

-----------------------------------------------------------------------------
(* The steps.                                                              *)

\* A run that goes on or ends: what it adds is none of the history.
LEMMA RunOn ==
    ASSUME RunOnce(turn, mem, seen), SessionOnce(mem, seen), NEW next, NEW s, NEW S,
           s.log = mem.log, next.m = turn.m,
           s.check # Nothing => s.check.said \in Elements(next.work),
           \A e \in Elements(next.work) :
              \/ e \in Elements(turn.work)
              \/ e.of = turn.m /\ e.kind \in RunKinds
              \/ e.of \notin seen,
           next.pc = "model" => WorkOnce(next.work, next.m, next.at, S),
           next.pc = "tools" =>
              /\ WorkOnce(SubSeq(next.work, 1, Len(next.work) - 1), next.m, next.at, S)
              /\ Last(next.work).of = next.m /\ Last(next.work).at = next.at,
           next.pc = "ran" =>
              /\ WorkOnce(next.work, next.m, next.at + 1, S)
              /\ \/ next.work = <<>> /\ next.m \in Subagent
                 \/ next.work # <<>> /\ Last(next.work).kind = "text",
           next.pc \in {"model", "tools", "ran"}
    PROVE  TurnOnce(next, s, S)
<1>1. \A e \in Elements(next.work) : e \notin Elements(s.log)
  BY DEF RunOnce, SessionOnce
<1>. QED  BY <1>1 DEF RunOnce, TurnOnce

\* While tools run the work ends with their calls; the results follow.
LEMMA ToolsOnce ==
    ASSUME TypeInv, At("tools"), RunOnce(turn, mem, seen)
    PROVE  LET w == turn.work \o Results(Last(turn.work))
           IN  /\ w \in Seq(Entry) /\ WorkOnce(w, turn.m, turn.at + 1, seen)
               /\ Elements(turn.work) \subseteq Elements(w)
               /\ Last(turn.work) \in Elements(w)
               /\ \A e \in Elements(w) :
                     e \in Elements(turn.work) \/ (e.of = turn.m /\ e.kind \in RunKinds)
               /\ Text(turn.m, turn.at) \notin Elements(w) /\ w # <<>>
<1>. DEFINE c == Last(turn.work)
            front == SubSeq(turn.work, 1, Len(turn.work) - 1)
            b == <<c>> \o Results(c)
            w == turn.work \o Results(c)
<1>1. /\ turn.work \in Seq(Entry) /\ turn.work # <<>> /\ c \in Entry /\ c.kind = "calls"
      /\ turn.m \in Msg /\ turn.m \in seen /\ turn.at \in 0..MaxIterations
      /\ turn.at \in Nat
  BY TurnFacts, CheckpointAssumption DEF Turn, TypeInv, TypeOK, At
<1>2. WorkOnce(front, turn.m, turn.at, seen) /\ c.of = turn.m /\ c.at = turn.at
  BY DEF RunOnce, At
<1>3. front \in Seq(Entry) /\ turn.work = front \o <<c>>
  BY <1>1, FrontLast
<1>4. /\ <<c>> \in Seq(Entry) /\ Elements(<<c>>) = {c} /\ Distinct(<<c>>)
      /\ Results(c) \in Seq(Entry) /\ Distinct(Results(c))
      /\ \A e \in Elements(Results(c)) : e.kind = "result" /\ e.of = turn.m /\ e.at = turn.at
  BY <1>1, <1>2, ShortSequences, BlockOnce
<1>5. /\ b \in Seq(Entry) /\ Elements(b) = {c} \cup Elements(Results(c)) /\ Distinct(b)
      /\ w = front \o b
  <2>. HIDE DEF c, front
  <2>1. w = front \o b
    BY <1>3, <1>4, ConcatAssociative
  <2>2. \A e \in Elements(Results(c)) : e \notin Elements(<<c>>)
    BY <1>1, <1>4
  <2>. DEFINE p == <<c>>
              q == Results(c)
  <2>. HIDE DEF p, q
  <2>3. p \in Seq(Entry) /\ q \in Seq(Entry) /\ Distinct(p) /\ Distinct(q)
        /\ \A e \in Elements(q) : e \notin Elements(p)
    BY <1>4, <2>2 DEF p, q
  <2>4. Distinct(p \o q) /\ p \o q \in Seq(Entry) /\ Elements(p \o q) = Elements(p) \cup Elements(q)
    BY <2>3, DistinctConcat, ElementsConcat
  <2>. QED  BY <1>4, <2>1, <2>4 DEF p, q
<1>6. Elements(turn.work) = Elements(front) \cup {c}
  <2>. HIDE DEF c, front
  <2>. DEFINE p == <<c>>
  <2>. HIDE DEF p
  <2>1. p \in Seq(Entry) /\ Elements(p) = {c} /\ turn.work = front \o p
    BY <1>3, <1>4 DEF p
  <2>. QED  BY <1>3, <2>1, ElementsConcat
<1>. HIDE DEF c, front, b, w
<1>7. turn.at \in Nat /\ turn.at + 1 \in Nat /\ turn.at <= turn.at + 1 /\ turn.at < turn.at + 1
  BY <1>1
<1>8. WorkOnce(front, turn.m, turn.at + 1, seen)
  BY <1>2, <1>3, <1>7, WorkMonotone
<1>9. ASSUME NEW e \in Elements(b)
      PROVE  /\ e.kind \in {"calls", "result", "text", "nudge"} /\ e.kind # "text"
             /\ e.of = turn.m /\ e.at < turn.at + 1 /\ e \notin Elements(front)
  <2>1. e.kind \in {"calls", "result"} /\ e.of = turn.m /\ e.at = turn.at
    BY <1>1, <1>2, <1>4, <1>5
  <2>2. e \notin Elements(front)
    BY <1>2, <1>7, <2>1 DEF WorkOnce
  <2>. QED  BY <1>7, <2>1, <2>2
<1>10. /\ WorkOnce(w, turn.m, turn.at + 1, seen) /\ w \in Seq(Entry)
       /\ Elements(w) = Elements(front) \cup Elements(b)
  <2>1. /\ WorkOnce(front \o b, turn.m, turn.at + 1, seen) /\ front \o b \in Seq(Entry)
        /\ Elements(front \o b) = Elements(front) \cup Elements(b)
    <3>1. turn.m \in seen /\ b \in Seq(Entry) /\ Distinct(b)
      BY <1>1, <1>5
    <3>. QED  BY <1>3, <1>8, <1>9, <3>1, WorkAdds
  <2>. QED  BY <1>5, <2>1
<1>11. Text(turn.m, turn.at) \notin Elements(w)
  <2>1. Text(turn.m, turn.at).kind = "text" /\ Text(turn.m, turn.at).at = turn.at
    BY DEF Text, Item
  <2>2. Text(turn.m, turn.at) \notin Elements(front)
    BY <1>2, <1>7, <2>1 DEF WorkOnce
  <2>3. Text(turn.m, turn.at) \notin Elements(b)
    BY <1>9, <2>1
  <2>. QED  BY <1>10, <2>2, <2>3
<1>12. w # <<>>
  <2>1. c \in Elements(w)
    BY <1>5, <1>10
  <2>. QED  BY <2>1, ShortSequences
<1>13. \A e \in Elements(w) : e \in Elements(turn.work) \/ (e.of = turn.m /\ e.kind \in RunKinds)
  <2>1. \A e \in Elements(b) : e.of = turn.m /\ e.kind \in RunKinds
    BY <1>9 DEF RunKinds
  <2>. QED  BY <1>6, <1>10, <2>1
<1>. QED  BY <1>5, <1>6, <1>10, <1>11, <1>12, <1>13 DEF c, w

\* Every step keeps the invariant.
LEMMA OnceStep == TypeInv /\ LegalInv /\ OnceInv /\ [Next]_vars => OnceInv'
<1>. SUFFICES ASSUME TypeInv, LegalInv, OnceInv, [Next]_vars PROVE OnceInv'
  OBVIOUS
<1>. USE DEF At
<1>0. /\ TypeOK /\ Idle \in Turn /\ Idle.pc = "idle" /\ turn \in Turn /\ turn.work \in Seq(Entry)
      /\ SessionOnce(file, seen) /\ file \in Saved /\ file # Nothing
  BY IdleType, TurnFacts, NothingAssumption DEF TypeInv, OnceInv, Turn
<1>1. CASE UNCHANGED vars
  BY <1>1 DEF vars, OnceInv
<1>2. ASSUME ~At("idle")
      PROVE  /\ mem \in Saved /\ SessionOnce(mem, seen) /\ LegalSession(mem) /\ mem # Nothing
             /\ turn.m \in Msg /\ turn.m \in seen
  BY <1>2, TurnFacts, NothingAssumption DEF OnceInv, LegalInv
<1>3. SessionOnce(Session, seen) /\ Session \in Saved /\ Session # Nothing
  BY TurnFacts, NothingAssumption DEF OnceInv, Session
<1>4. ASSUME NEW s \in Saved, NEW next \in Turn, Save(s, next), seen \subseteq seen',
             SessionOnce(s, seen'), turn' = next => TurnOnce(next, s, seen')
      PROVE  OnceInv'
  <2>1. mem' = s /\ file' \in {s, file} /\ turn' \in {next, Idle}
    BY <1>0, <1>4, SaveTypes
  <2>2. SessionOnce(file', seen')
    BY <1>0, <1>4, <2>1, SessionMonotone
  <2>3. TurnOnce(Idle, s, seen')
    BY <1>0 DEF TurnOnce
  <2>. QED  BY <1>4, <2>1, <2>2, <2>3 DEF OnceInv
<1>5. ASSUME NEW e \in Entry, NEW d \in BOOLEAN, turn.pc \in {"model", "tools"},
             e.of = turn.m, e.kind \in {"calls", "text"},
             NEW next \in Turn, SavePoint(Point(e, d), next), seen \subseteq seen',
             next.m = turn.m, next.pc \in {"model", "tools", "ran"},
             e \in Elements(next.work),
             \A f \in Elements(next.work) :
                \/ f \in Elements(turn.work)
                \/ f.of = turn.m /\ f.kind \in RunKinds
                \/ f.of \notin seen,
             turn' = next =>
                /\ next.pc = "model" => WorkOnce(next.work, next.m, next.at, seen')
                /\ next.pc = "tools" =>
                      /\ WorkOnce(SubSeq(next.work, 1, Len(next.work) - 1), next.m, next.at, seen')
                      /\ Last(next.work).of = next.m /\ Last(next.work).at = next.at
                /\ next.pc = "ran" =>
                      /\ WorkOnce(next.work, next.m, next.at + 1, seen')
                      /\ \/ next.work = <<>> /\ next.m \in Subagent
                         \/ next.work # <<>> /\ Last(next.work).kind = "text"
      PROVE  OnceInv'
  <2>. DEFINE s == [mem EXCEPT !.check = Point(e, d)]
  <2>1. mem \in Saved /\ SessionOnce(mem, seen) /\ RunOnce(turn, mem, seen) /\ turn.m \in seen
    BY <1>2, <1>5 DEF OnceInv, TurnOnce
  <2>2. s \in Saved /\ s.log = mem.log /\ s.check = Point(e, d) /\ Point(e, d).said = e
        /\ s.open = mem.open /\ s.check # Nothing
    BY <2>1, PointTypes, NothingAssumption DEF Saved
  <2>3. Save(s, next)
    BY <1>5 DEF SavePoint
  <2>. HIDE DEF s
  <2>4. SessionOnce(s, seen)
    BY <1>5, <2>1, <2>2 DEF SessionOnce, RunOnce
  <2>5. SessionOnce(s, seen')
    BY <1>5, <2>4, SessionMonotone
  <2>6. turn' = next => TurnOnce(next, s, seen')
    <3>. HAVE turn' = next
    <3>. QED  BY <1>5, <2>1, <2>2, RunOn
  <2>. QED  BY <1>4, <1>5, <2>2, <2>3, <2>5, <2>6
<1>6. ASSUME UNCHANGED <<file, mem>>, turn.pc \in {"model", "tools"}, seen \subseteq seen',
             turn'.m = turn.m, turn'.pc \in {"model", "ran"},
             Elements(turn.work) \subseteq Elements(turn'.work),
             \A f \in Elements(turn'.work) :
                \/ f \in Elements(turn.work)
                \/ f.of = turn.m /\ f.kind \in RunKinds
                \/ f.of \notin seen,
             turn'.pc = "model" => WorkOnce(turn'.work, turn.m, turn'.at, seen'),
             turn'.pc = "ran" =>
                /\ WorkOnce(turn'.work, turn.m, turn'.at + 1, seen')
                /\ \/ turn'.work = <<>> /\ turn.m \in Subagent
                   \/ turn'.work # <<>> /\ Last(turn'.work).kind = "text"
      PROVE  OnceInv'
  <2>1. SessionOnce(mem, seen) /\ RunOnce(turn, mem, seen)
    BY <1>2, <1>6 DEF OnceInv, TurnOnce
  <2>2. SessionOnce(mem, seen') /\ SessionOnce(file, seen')
    BY <1>0, <1>6, <2>1, SessionMonotone
  <2>3. mem.check # Nothing => mem.check.said \in Elements(turn'.work)
    BY <1>6, <2>1 DEF RunOnce
  <2>4. TurnOnce(turn', mem, seen')
    BY <1>6, <2>1, <2>3, RunOn
  <2>. QED  BY <1>6, <2>2, <2>4 DEF OnceInv
<1>7. ASSUME NEW next, Interrupt(next), next.pc \in {"idle", "clearing"}, seen \subseteq seen'
      PROVE  OnceInv'
  <2>1. mem \in Saved /\ SessionOnce(mem, seen) /\ Spoken(mem.check)
    BY <1>2, <1>7 DEF Interrupt, Running, LegalSession
  <2>2. mem.check # Nothing => SessionOnce(RestoreCheckpoint(mem), seen)
    BY <2>1, RestoreOnce
  <2>3. SessionOnce(mem', seen) /\ SessionOnce(file', seen) /\ turn' = next
    BY <1>0, <1>7, <2>1, <2>2 DEF Interrupt
  <2>4. SessionOnce(mem', seen') /\ SessionOnce(file', seen')
    BY <1>7, <2>3, SessionMonotone
  <2>. QED  BY <1>7, <2>3, <2>4 DEF OnceInv, TurnOnce
<1>8. ASSUME NEW m \in Msg, Begin(m) PROVE OnceInv'
  <2>1. /\ mem' = Session /\ file' = file /\ turn'.pc = "begun" /\ turn'.m = m /\ turn'.work = <<>>
        /\ seen' = seen \cup {m} /\ m \notin seen
    BY <1>8 DEF Begin, Idle
  <2>2. SessionOnce(mem', seen') /\ SessionOnce(file', seen')
    BY <1>0, <1>3, <2>1, SessionMonotone
  <2>3. Unheard(mem', m)
    BY <1>3, <2>1 DEF Unheard, SessionOnce
  <2>. QED  BY <2>1, <2>2, <2>3 DEF OnceInv, TurnOnce
<1>9. CASE Restore
  <2>. DEFINE next == [turn EXCEPT !.pc = "restored"]
  <2>1. /\ mem \in Saved /\ SessionOnce(mem, seen) /\ Spoken(mem.check) /\ Unheard(mem, turn.m)
        /\ mem # Nothing
    BY <1>2, <1>9 DEF Restore, LegalSession, OnceInv, TurnOnce
  <2>2. /\ next \in Turn /\ next.pc = "restored" /\ next.m = turn.m /\ seen' = seen
        /\ next.work = <<>>
    BY <1>0, <1>9 DEF Turn, Restore, OnceInv, TurnOnce
  <2>3. \/ mem.check # Nothing /\ Save(RestoreCheckpoint(mem), next)
        \/ mem.check = Nothing /\ mem.open /\ Save(ClosePending(mem), next)
        \/ mem.check = Nothing /\ ~mem.open /\ turn' = next /\ UNCHANGED <<mem, file>>
    BY <1>9 DEF Restore
  <2>. HIDE DEF next
  <2>4. CASE mem.check # Nothing /\ Save(RestoreCheckpoint(mem), next)
    <3>. DEFINE t == RestoreCheckpoint(mem)
    <3>1. /\ t \in Saved /\ SessionOnce(t, seen) /\ t.check = Nothing
          /\ t.log # <<>> /\ Last(t.log).kind # "user"
          /\ \A e \in Elements(t.log) : e \in Elements(mem.log) \/ e.of = mem.check.said.of
      BY <2>1, <2>4, RestoreAppends, RestoreOnce
    <3>. HIDE DEF t
    <3>2. TurnOnce(next, t, seen)
      BY <2>1, <2>2, <2>4, <3>1 DEF TurnOnce, Unheard
    <3>. QED  BY <1>4, <2>2, <2>4, <3>1, <3>2 DEF t
  <2>5. CASE mem.check = Nothing /\ mem.open /\ Save(ClosePending(mem), next)
    <3>. DEFINE t == ClosePending(mem)
    <3>1. /\ t \in Saved /\ SessionOnce(t, seen) /\ t.check = Nothing
          /\ t.log # <<>> => Last(t.log).kind # "user"
          /\ \A e \in Elements(t.log) : \E f \in Elements(mem.log) : e.of = f.of
      BY <2>1, <2>5, CloseAppends, CloseOnce
    <3>. HIDE DEF t
    <3>2. TurnOnce(next, t, seen)
      BY <2>1, <2>2, <3>1 DEF TurnOnce, Unheard
    <3>. QED  BY <1>4, <2>2, <2>5, <3>1, <3>2 DEF t
  <2>6. CASE mem.check = Nothing /\ ~mem.open /\ turn' = next /\ UNCHANGED <<mem, file>>
    <3>1. mem.log # <<>> => Last(mem.log).kind # "user"
      BY <2>1, <2>6 DEF SessionOnce
    <3>. QED  BY <1>0, <2>1, <2>2, <2>6, <3>1 DEF OnceInv, TurnOnce
  <2>. QED  BY <2>3, <2>4, <2>5, <2>6
<1>10. CASE New
  <2>. DEFINE s == [Session EXCEPT !.log = <<>>]
  <2>1. s.log = <<>> /\ s.check = Session.check
    BY <1>3 DEF Saved
  <2>2. /\ turn' = Idle /\ (mem' = Nothing \/ mem' = s) /\ (file' = s \/ file' = file)
        /\ seen' = seen
    BY <1>10 DEF New
  <2>. HIDE DEF s
  <2>3. SessionOnce(s, seen)
    BY <1>3, <2>1, ShortSequences DEF SessionOnce
  <2>. QED  BY <1>0, <2>2, <2>3 DEF OnceInv, TurnOnce
<1>11. CASE RunCommand \/ RunCommandCut \/ BuildUser
  <2>. DEFINE a == Asked(turn.m)
              asked == [mem EXCEPT !.log = Append(@, a), !.open = TRUE]
  <2>1. /\ mem \in Saved /\ SessionOnce(mem, seen) /\ turn.m \in Msg /\ turn.m \in seen
        /\ 0 \in 0..MaxIterations /\ 0 \in 0..MaxCalls
        /\ Unheard(mem, turn.m) /\ mem.check = Nothing
        /\ mem.log # <<>> => Last(mem.log).kind # "user"
        /\ turn.pc = "restored" /\ seen' = seen
    BY <1>2, <1>11, CheckpointAssumption
       DEF RunCommand, RunCommandCut, BuildUser, OnceInv, TurnOnce
  <2>2. a \in Entry /\ a.kind = "user" /\ a.of = turn.m /\ a \notin Elements(mem.log)
    BY <2>1, EntryTypes DEF Asked, Unheard
  <2>. HIDE DEF a
  <2>3. /\ asked \in Saved /\ asked.open = TRUE /\ SessionOnce(asked, seen)
        /\ asked.check = Nothing /\ Elements(asked.log) = Elements(mem.log) \cup {a}
    <3>1. /\ asked \in Saved /\ asked.open = TRUE /\ asked.log = mem.log \o <<a>>
          /\ asked.check = Nothing
      BY <2>1, <2>2, WriteOne DEF Saved
    <3>. HIDE DEF asked
    <3>2. asked.log = Append(mem.log, a)
      BY <2>1, <2>2, <3>1, AppendIsConcat DEF Saved
    <3>3. a.of \in seen /\ a.kind \in {"user", "followup", "reply"} /\ Unheard(mem, a.of)
      BY <2>1, <2>2
    <3>4. SessionOnce(asked, seen)
      BY <2>1, <2>2, <3>1, <3>2, <3>3, WriteOnce
    <3>5. Elements(asked.log) = Elements(mem.log) \cup {a}
      BY <2>1, <2>2, <3>2, AppendOnce DEF Saved
    <3>. QED  BY <3>1, <3>4, <3>5
  <2>. HIDE DEF asked
  <2>4. CASE RunCommand \/ RunCommandCut
    <3>. DEFINE b == Item("reply", turn.m, 0, 0)
                replied == [asked EXCEPT !.log = Append(@, b)]
                closed == [replied EXCEPT !.open = FALSE]
    <3>1. b \in Entry /\ b.kind = "reply" /\ b.of = turn.m
      BY <2>1, EntryTypes
    <3>2. /\ mem' \in {closed, asked, replied, Nothing}
          /\ file' \in {replied, asked, file} /\ turn' = Idle
      BY <2>4 DEF RunCommand, RunCommandCut, asked, a
    <3>. HIDE DEF b
    <3>3. b \notin Elements(asked.log)
      BY <2>1, <2>2, <2>3, <3>1 DEF Unheard
    <3>4. replied = [asked EXCEPT !.log = Append(@, b), !.open = TRUE]
          /\ closed = [asked EXCEPT !.log = Append(@, b), !.open = FALSE]
      BY <2>3 DEF Saved
    <3>. HIDE DEF replied, closed
    <3>5. /\ replied.log = asked.log \o <<b>> /\ replied.check = Nothing
          /\ closed.log = asked.log \o <<b>> /\ closed.check = Nothing
      BY <2>3, <3>1, <3>4, WriteOne
    <3>6. /\ replied.log = Append(asked.log, b) /\ closed.log = Append(asked.log, b)
          /\ replied \in Saved /\ closed \in Saved
      BY <2>3, <3>1, <3>4, <3>5, WriteOne, AppendIsConcat DEF Saved
    <3>7. b.of \in seen /\ b.kind \in {"user", "followup", "reply"} /\ b.kind # "user"
      BY <2>1, <3>1
    <3>8. SessionOnce(replied, seen) /\ SessionOnce(closed, seen)
      BY <2>1, <2>3, <3>1, <3>3, <3>5, <3>6, <3>7, WriteOnce
    <3>. QED  BY <1>0, <2>1, <2>3, <3>2, <3>8 DEF OnceInv, TurnOnce
  <2>5. CASE BuildUser
    <3>. DEFINE next == [turn EXCEPT !.pc = "model"]
    <3>1. Save(asked, next) /\ turn.m \in User
      BY <2>5 DEF BuildUser, asked, a
    <3>2. next \in Turn /\ next.pc = "model" /\ next.m = turn.m /\ next.work = turn.work
      BY <1>0 DEF Turn
    <3>. HIDE DEF next
    <3>3. turn.work = <<>>
      BY <2>1 DEF OnceInv, TurnOnce
    <3>4. RunOnce(next, asked, seen)
      BY <2>1, <2>2, <2>3, <3>1, <3>2, <3>3, ShortSequences
         DEF RunOnce, Unheard, WorkOnce, RunKinds
    <3>. QED  BY <1>4, <2>1, <2>3, <3>1, <3>2, <3>4 DEF TurnOnce
  <2>. QED  BY <1>11, <2>4, <2>5
<1>12. CASE BuildFollowup
  <2>. DEFINE b == Item("followup", turn.m, 0, 0)
              s == [mem EXCEPT !.log = Append(@, b)]
              next == [turn EXCEPT !.pc = "model"]
  <2>1. /\ mem \in Saved /\ SessionOnce(mem, seen) /\ turn.m \in Msg /\ turn.m \in seen
        /\ mem.open \in BOOLEAN /\ 0 \in 0..MaxIterations /\ 0 \in 0..MaxCalls
        /\ Unheard(mem, turn.m) /\ mem.check = Nothing
        /\ turn.pc = "restored" /\ seen' = seen /\ turn.work = <<>>
    BY <1>2, <1>12, CheckpointAssumption DEF BuildFollowup, OnceInv, TurnOnce, Saved
  <2>2. b \in Entry /\ b.kind = "followup" /\ b.of = turn.m /\ b \notin Elements(mem.log)
    BY <2>1, EntryTypes DEF Unheard
  <2>3. Save(s, next)
    BY <1>12 DEF BuildFollowup
  <2>4. next \in Turn /\ next.pc = "model" /\ next.m = turn.m /\ next.work = turn.work
    BY <1>0 DEF Turn
  <2>. HIDE DEF b, next
  <2>5. s = [mem EXCEPT !.log = Append(@, b), !.open = mem.open]
    BY <2>1 DEF Saved
  <2>. HIDE DEF s
  <2>6. /\ s \in Saved /\ SessionOnce(s, seen) /\ s.check = Nothing
        /\ s.log # <<>> /\ Last(s.log) = b /\ Elements(s.log) = Elements(mem.log) \cup {b}
    <3>1. s \in Saved /\ s.log = mem.log \o <<b>> /\ s.check = Nothing
      BY <2>1, <2>2, <2>5, WriteOne
    <3>2. s.log = Append(mem.log, b)
      BY <2>1, <2>2, <3>1, AppendIsConcat DEF Saved
    <3>3. b.of \in seen /\ b.kind \in {"user", "followup", "reply"} /\ b.kind # "user"
      BY <2>1, <2>2
    <3>4. SessionOnce(s, seen)
      BY <2>1, <2>2, <3>1, <3>2, <3>3, WriteOnce
    <3>5. s.log # <<>> /\ Last(s.log) = b /\ Elements(s.log) = Elements(mem.log) \cup {b}
      BY <2>1, <2>2, <3>2, AppendOnce DEF Saved
    <3>. QED  BY <3>1, <3>4, <3>5
  <2>7. RunOnce(next, s, seen)
    BY <2>1, <2>2, <2>4, <2>6, ShortSequences DEF RunOnce, Unheard, WorkOnce, RunKinds
  <2>. QED  BY <1>4, <2>1, <2>3, <2>4, <2>6, <2>7 DEF TurnOnce
<1>13. ASSUME turn.pc \in {"model", "tools"}
       PROVE  /\ turn.m \in Msg /\ turn.m \in seen /\ RunOnce(turn, mem, seen)
              /\ turn.at \in 0..MaxIterations /\ turn.at \in Nat /\ turn.at + 1 \in Nat
              /\ turn.at <= turn.at + 1 /\ turn.at < turn.at + 1
              /\ turn.pc = "model" => WorkOnce(turn.work, turn.m, turn.at, seen)
              /\ turn.pc = "model" => WorkOnce(turn.work, turn.m, turn.at + 1, seen)
  <2>1. turn.at \in 0..MaxIterations /\ turn.at \in Nat /\ turn.at + 1 \in Nat
        /\ turn.at <= turn.at + 1 /\ turn.at < turn.at + 1
    BY <1>0, CheckpointAssumption DEF Turn
  <2>2. RunOnce(turn, mem, seen)
    BY <1>13 DEF OnceInv, TurnOnce
  <2>3. turn.pc = "model" => WorkOnce(turn.work, turn.m, turn.at, seen)
    BY <2>2 DEF RunOnce
  <2>4. turn.pc = "model" => WorkOnce(turn.work, turn.m, turn.at + 1, seen)
    BY <1>0, <2>1, <2>3, WorkMonotone
  <2>. QED  BY <1>2, <1>13, <2>1, <2>2, <2>3, <2>4
<1>14. ASSUME turn.pc = "model"
       PROVE  /\ Text(turn.m, turn.at) \in Entry /\ Text(turn.m, turn.at).kind = "text"
              /\ Text(turn.m, turn.at).of = turn.m /\ Text(turn.m, turn.at).at = turn.at
              /\ Text(turn.m, turn.at) \notin Elements(turn.work)
  <2>1. /\ Text(turn.m, turn.at) \in Entry /\ Text(turn.m, turn.at).kind = "text"
        /\ Text(turn.m, turn.at).of = turn.m /\ Text(turn.m, turn.at).at = turn.at
    BY <1>13, <1>14, EntryTypes, CheckpointAssumption DEF Text
  <2>. QED  BY <1>13, <1>14, <2>1 DEF WorkOnce
<1>15. CASE CallTools
  <2>1. PICK n \in 1..MaxCalls :
          /\ Asking
          /\ SavePoint(Point(Calls(turn.m, turn.at, n), FALSE),
                       [turn EXCEPT !.pc = "tools", !.work = Append(@, Calls(turn.m, turn.at, n))])
    BY <1>15 DEF CallTools
  <2>. DEFINE c == Calls(turn.m, turn.at, n)
              next == [turn EXCEPT !.pc = "tools", !.work = Append(@, c)]
  <2>2. /\ c \in Entry /\ c.kind = "calls" /\ next \in Turn
        /\ Last(Append(turn.work, c)) = c
        /\ SubSeq(Append(turn.work, c), 1, Len(Append(turn.work, c)) - 1) = turn.work
    BY <2>1, CallTypes
  <2>3. c.of = turn.m /\ c.at = turn.at
    BY DEF Calls, Item
  <2>4. /\ next.pc = "tools" /\ next.work = Append(turn.work, c) /\ next.m = turn.m
        /\ next.at = turn.at
    BY <1>0 DEF Turn
  <2>5. SavePoint(Point(c, FALSE), next) /\ turn.pc = "model" /\ seen' = seen
    BY <1>15, <2>1 DEF Asking, CallTools
  <2>. HIDE DEF c, next
  <2>6. Elements(next.work) = Elements(turn.work) \cup {c}
    BY <1>0, <2>2, <2>4, AppendOnce
  <2>7. \A f \in Elements(next.work) :
           f \in Elements(turn.work) \/ (f.of = turn.m /\ f.kind \in RunKinds)
    BY <2>2, <2>3, <2>6 DEF RunKinds
  <2>8. WorkOnce(SubSeq(next.work, 1, Len(next.work) - 1), next.m, next.at, seen)
    BY <1>13, <2>2, <2>4, <2>5
  <2>. QED  BY <1>5, <2>2, <2>3, <2>4, <2>5, <2>6, <2>7, <2>8
<1>16. ASSUME NEW w \in Seq(Entry), WorkOnce(w, turn.m, turn.at + 1, seen), NEW F \in FollowUps,
              turn.pc \in {"model", "tools"},
              \A f \in Elements(w) : f \in Elements(turn.work)
                                     \/ (f.of = turn.m /\ f.kind \in RunKinds)
       PROVE  LET next == Iterate(w, F)
              IN  /\ next.m = turn.m /\ next.pc = "model" /\ next.at = turn.at + 1
                  /\ \A S : seen \cup F \subseteq S => WorkOnce(next.work, turn.m, next.at, S)
                  /\ Elements(w) \subseteq Elements(next.work)
                  /\ \A f \in Elements(next.work) :
                        \/ f \in Elements(turn.work)
                        \/ f.of = turn.m /\ f.kind \in RunKinds
                        \/ f.of \notin seen
  <2>1. /\ Iterate(w, F).pc = "model" /\ Iterate(w, F).m = turn.m
        /\ Iterate(w, F).work = Injected(w, F) /\ Injected(w, F) \in Seq(Entry)
    BY <1>0, <1>13, <1>16, TurnTypes, WorkTypes
  <2>2. Iterate(w, F).at = turn.at + 1
    BY <1>0 DEF Iterate, Turn
  <2>3. /\ WorkOnce(Injected(w, F), turn.m, turn.at + 1, seen \cup F)
        /\ Elements(w) \subseteq Elements(Injected(w, F))
        /\ \A e \in Elements(Injected(w, F)) : e \in Elements(w) \/ e.of \notin seen
    BY <1>16, InjectOnce
  <2>4. ASSUME NEW S, seen \cup F \subseteq S
        PROVE  WorkOnce(Injected(w, F), turn.m, turn.at + 1, S)
    BY <1>13, <1>16, <2>1, <2>3, <2>4, WorkMonotone
  <2>. QED  BY <1>16, <2>1, <2>2, <2>3, <2>4
<1>17. ASSUME NEW w \in Seq(Entry)
       PROVE  Ran(w).m = turn.m /\ Ran(w).pc = "ran" /\ Ran(w).work = w /\ Ran(w).at = turn.at
  BY <1>0 DEF Ran, Turn
<1>18. CASE ToolsDone
  <2>. DEFINE c == Last(turn.work)
              w == turn.work \o Results(c)
  <2>1. PICK F \in FollowUps :
          /\ turn.pc = "tools"
          /\ SavePoint(Point(c, TRUE), [Iterate(w, F) EXCEPT !.blank = FALSE])
          /\ seen' = seen \cup turn'.heard
    BY <1>18 DEF ToolsDone
  <2>. DEFINE next == [Iterate(w, F) EXCEPT !.blank = FALSE]
  <2>2. /\ turn.at < MaxIterations /\ c \in Entry /\ c.kind = "calls"
        /\ c.of = turn.m /\ c.at = turn.at
    BY <1>13, <2>1, TurnFacts DEF RunOnce
  <2>3. /\ w \in Seq(Entry) /\ WorkOnce(w, turn.m, turn.at + 1, seen) /\ c \in Elements(w)
        /\ \A f \in Elements(w) : f \in Elements(turn.work)
                                  \/ (f.of = turn.m /\ f.kind \in RunKinds)
    BY <1>13, <2>1, ToolsOnce
  <2>. HIDE DEF w, c
  <2>4. Iterate(w, F) \in Turn /\ Iterate(w, F).heard = turn.heard \cup F
    BY <1>0, <1>13, <2>1, <2>2, <2>3, TurnTypes
  <2>5. /\ next \in Turn /\ next.m = Iterate(w, F).m /\ next.pc = Iterate(w, F).pc
        /\ next.at = Iterate(w, F).at /\ next.work = Iterate(w, F).work
        /\ next.heard = turn.heard \cup F
    BY <2>4 DEF Turn
  <2>6. /\ next.m = turn.m /\ next.pc = "model" /\ next.at = turn.at + 1
        /\ \A S : seen \cup F \subseteq S => WorkOnce(next.work, turn.m, next.at, S)
        /\ c \in Elements(next.work)
        /\ \A f \in Elements(next.work) :
              \/ f \in Elements(turn.work)
              \/ f.of = turn.m /\ f.kind \in RunKinds
              \/ f.of \notin seen
    BY <1>16, <2>1, <2>3, <2>5
  <2>7. SavePoint(Point(c, TRUE), next)
    BY <2>1
  <2>. HIDE DEF next
  <2>8. turn' = next => seen \cup F \subseteq seen'
    BY <2>1, <2>5
  <2>9. turn' = next => WorkOnce(next.work, next.m, next.at, seen')
    BY <2>6, <2>8
  <2>. QED  BY <1>5, <2>1, <2>2, <2>5, <2>6, <2>7, <2>9
<1>19. CASE Answer
  <2>. DEFINE t == Text(turn.m, turn.at)
              w == Append(turn.work, t)
  <2>1. PICK F \in FollowUps : /\ Asking /\ SavePoint(Point(t, FALSE), EndOrIterate(w, F))
                               /\ seen' = seen \cup F
    BY <1>19 DEF Answer
  <2>2. /\ turn.pc = "model" /\ turn.at < MaxIterations /\ turn.m \in Msg /\ turn.m \in seen
    BY <1>13, <2>1 DEF Asking
  <2>3. /\ t \in Entry /\ t.kind = "text" /\ t.of = turn.m /\ t.at = turn.at
        /\ t \notin Elements(turn.work)
    BY <1>14, <2>2
  <2>. HIDE DEF t
  <2>4. /\ w \in Seq(Entry) /\ Elements(w) = Elements(turn.work) \cup {t} /\ w # <<>>
        /\ Last(w) = t /\ Distinct(w)
    BY <1>0, <1>13, <2>2, <2>3, AppendOnce DEF WorkOnce
  <2>5. WorkOnce(w, turn.m, turn.at + 1, seen)
    BY <1>13, <2>2, <2>3, <2>4 DEF WorkOnce
  <2>6. \A f \in Elements(w) : f \in Elements(turn.work)
                               \/ (f.of = turn.m /\ f.kind \in RunKinds)
    BY <2>3, <2>4 DEF RunKinds
  <2>. HIDE DEF w
  <2>. DEFINE next == EndOrIterate(w, F)
  <2>7. CASE F = {}
    <3>1. /\ next = Ran(w) /\ next \in Turn /\ next.m = turn.m /\ next.pc = "ran"
          /\ next.work = w /\ next.at = turn.at
      BY <1>0, <1>17, <2>2, <2>4, <2>7, TurnTypes DEF EndOrIterate
    <3>2. SavePoint(Point(t, FALSE), next) /\ seen' = seen
      BY <2>1, <2>7
    <3>. HIDE DEF next
    <3>. QED  BY <1>5, <2>2, <2>3, <2>4, <2>5, <2>6, <3>1, <3>2
  <2>8. CASE F # {}
    <3>1. next = Iterate(w, F) /\ next \in Turn
      BY <1>0, <2>1, <2>2, <2>4, <2>8, TurnTypes DEF EndOrIterate
    <3>. HIDE DEF next
    <3>2. /\ next.m = turn.m /\ next.pc = "model" /\ next.at = turn.at + 1
          /\ WorkOnce(next.work, turn.m, next.at, seen')
          /\ t \in Elements(next.work)
          /\ \A f \in Elements(next.work) :
                \/ f \in Elements(turn.work)
                \/ f.of = turn.m /\ f.kind \in RunKinds
                \/ f.of \notin seen
      <4>1. /\ next.m = turn.m /\ next.pc = "model" /\ next.at = turn.at + 1
            /\ \A S : seen \cup F \subseteq S => WorkOnce(next.work, turn.m, next.at, S)
            /\ Elements(w) \subseteq Elements(next.work)
            /\ \A f \in Elements(next.work) :
                  \/ f \in Elements(turn.work)
                  \/ f.of = turn.m /\ f.kind \in RunKinds
                  \/ f.of \notin seen
        BY <1>16, <2>2, <2>4, <2>5, <2>6, <3>1
      <4>. QED  BY <2>1, <2>4, <4>1
    <3>3. SavePoint(Point(t, FALSE), next) /\ seen \subseteq seen'
      BY <2>1 DEF next
    <3>. QED  BY <1>5, <2>2, <2>3, <3>1, <3>2, <3>3
  <2>. QED  BY <2>7, <2>8
<1>20. ASSUME NEW w \in Seq(Entry), WorkOnce(w, turn.m, turn.at + 1, seen),
              turn.pc \in {"model", "tools"}, Elements(turn.work) \subseteq Elements(w),
              \A f \in Elements(w) : f \in Elements(turn.work)
                                     \/ (f.of = turn.m /\ f.kind \in RunKinds),
              UNCHANGED <<file, mem>>
       PROVE  /\ \A F \in FollowUps :
                    /\ seen' = seen \cup F
                    /\ turn'.work = Iterate(w, F).work /\ turn'.pc = "model"
                    /\ turn'.m = turn.m /\ turn'.at = turn.at + 1
                    => OnceInv'
              /\ /\ turn' = Ran(w) /\ seen \subseteq seen'
                 /\ \/ w = <<>> /\ turn.m \in Subagent
                    \/ w # <<>> /\ Last(w).kind = "text"
                 => OnceInv'
  <2>1. ASSUME NEW F \in FollowUps, seen' = seen \cup F, turn'.work = Iterate(w, F).work,
               turn'.pc = "model", turn'.m = turn.m, turn'.at = turn.at + 1
        PROVE  OnceInv'
    <3>1. /\ WorkOnce(turn'.work, turn.m, turn'.at, seen')
          /\ Elements(w) \subseteq Elements(turn'.work)
          /\ \A f \in Elements(turn'.work) :
                \/ f \in Elements(turn.work)
                \/ f.of = turn.m /\ f.kind \in RunKinds
                \/ f.of \notin seen
      BY <1>16, <1>20, <2>1
    <3>. QED  BY <1>6, <1>20, <2>1, <3>1
  <2>2. ASSUME turn' = Ran(w), seen \subseteq seen',
               \/ w = <<>> /\ turn.m \in Subagent
               \/ w # <<>> /\ Last(w).kind = "text"
        PROVE  OnceInv'
    <3>1. turn'.m = turn.m /\ turn'.pc = "ran" /\ turn'.work = w /\ turn'.at = turn.at
      BY <1>17, <2>2
    <3>2. WorkOnce(w, turn.m, turn.at + 1, seen')
      BY <1>13, <1>20, <2>2, WorkMonotone
    <3>. QED  BY <1>6, <1>20, <2>2, <3>1, <3>2
  <2>. QED  BY <2>1, <2>2
<1>21. ASSUME NEW w \in Seq(Entry), WorkOnce(w, turn.m, turn.at + 1, seen),
              turn.pc \in {"model", "tools"}, Text(turn.m, turn.at) \notin Elements(w),
              \A f \in Elements(w) : f \in Elements(turn.work)
                                     \/ (f.of = turn.m /\ f.kind \in RunKinds)
       PROVE  /\ Ending(w) \in Seq(Entry) /\ WorkOnce(Ending(w), turn.m, turn.at + 1, seen)
              /\ Elements(w) \subseteq Elements(Ending(w))
              /\ \A f \in Elements(Ending(w)) :
                    f \in Elements(turn.work) \/ (f.of = turn.m /\ f.kind \in RunKinds)
              /\ \/ Ending(w) = <<>> /\ turn.m \in Subagent
                 \/ Ending(w) # <<>> /\ Last(Ending(w)).kind = "text"
  <2>1. Text(turn.m, turn.at).of = turn.m /\ Text(turn.m, turn.at).kind \in RunKinds
    BY DEF Text, Item, RunKinds
  <2>. QED  BY <1>13, <1>21, <2>1, EndOnce
<1>22. CASE ToolsFail \/ ToolsStopped
  <2>. DEFINE w == turn.work \o Results(Last(turn.work))
  <2>1. PICK F \in FollowUps :
          /\ turn.pc = "tools"
          /\ turn' \in {Ran(Ending(w)), Iterate(Ending(w), F)}
          /\ UNCHANGED <<file, mem>> /\ seen' = seen \cup F
    <3>1. CASE ToolsFail
      BY <3>1 DEF ToolsFail, EndOrIterate
    <3>2. CASE ToolsStopped
      BY <3>2 DEF ToolsStopped, FollowUps
    <3>. QED  BY <1>22, <3>1, <3>2
  <2>2. /\ w \in Seq(Entry) /\ WorkOnce(w, turn.m, turn.at + 1, seen)
        /\ Elements(turn.work) \subseteq Elements(w)
        /\ \A f \in Elements(w) : f \in Elements(turn.work)
                                  \/ (f.of = turn.m /\ f.kind \in RunKinds)
        /\ Text(turn.m, turn.at) \notin Elements(w)
    BY <1>13, <2>1, ToolsOnce
  <2>. HIDE DEF w
  <2>. DEFINE v == Ending(w)
  <2>3. /\ v \in Seq(Entry) /\ WorkOnce(v, turn.m, turn.at + 1, seen)
        /\ Elements(turn.work) \subseteq Elements(v)
        /\ \A f \in Elements(v) :
              f \in Elements(turn.work) \/ (f.of = turn.m /\ f.kind \in RunKinds)
        /\ \/ v = <<>> /\ turn.m \in Subagent
           \/ v # <<>> /\ Last(v).kind = "text"
    BY <1>21, <2>1, <2>2
  <2>4. turn' = Ran(v) \/ turn' = Iterate(v, F)
    BY <2>1
  <2>. HIDE DEF v
  <2>5. turn' = Iterate(v, F) => turn'.pc = "model" /\ turn'.m = turn.m /\ turn'.at = turn.at + 1
    BY <1>16, <2>1, <2>3
  <2>. QED  BY <1>20, <2>1, <2>3, <2>4, <2>5
<1>23. CASE Truncated
  <2>. DEFINE t == Text(turn.m, turn.at)
              u == Item("nudge", turn.m, turn.at, 0)
              q == <<t, u>>
  <2>1. /\ turn' = Iterate(turn.work \o q, {}) /\ turn.pc = "model"
        /\ UNCHANGED <<file, mem, seen>> /\ {} \in FollowUps
    BY <1>23 DEF Truncated, Asking, FollowUps
  <2>2. /\ t \in Entry /\ t.kind = "text" /\ t.of = turn.m /\ t.at = turn.at
        /\ u \in Entry /\ u.kind = "nudge" /\ u.of = turn.m /\ u.at = turn.at
    BY <1>13, <1>14, <2>1, EntryTypes, CheckpointAssumption
  <2>. HIDE DEF t, u
  <2>3. q \in Seq(Entry) /\ Distinct(q) /\ Elements(q) = {t, u}
    <3>1. Distinct(q)
      BY <2>2 DEF Distinct
    <3>2. Elements(q) = {t, u}
      BY DEF Elements
    <3>. QED  BY <2>2, <3>1, <3>2
  <2>. HIDE DEF q
  <2>4. \A e \in Elements(q) : /\ e \notin Elements(turn.work)
                               /\ e.kind \in {"calls", "result", "text", "nudge"}
                               /\ e.of = turn.m /\ e.at < turn.at + 1
    <3>1. \A e \in {t, u} : /\ e.kind \in {"calls", "result", "text", "nudge"}
                            /\ e.kind # "injected"
                            /\ e.of = turn.m /\ e.at = turn.at
      BY <2>2
    <3>2. \A e \in {t, u} : e \notin Elements(turn.work) /\ e.at < turn.at + 1
      BY <1>13, <2>1, <3>1 DEF WorkOnce
    <3>. QED  BY <2>3, <3>1, <3>2
  <2>5. /\ WorkOnce(turn.work \o q, turn.m, turn.at + 1, seen) /\ turn.work \o q \in Seq(Entry)
        /\ Elements(turn.work \o q) = Elements(turn.work) \cup Elements(q)
    BY <1>0, <1>13, <2>1, <2>3, <2>4, WorkAdds
  <2>. DEFINE w == turn.work \o q
  <2>. HIDE DEF w
  <2>6. /\ w \in Seq(Entry) /\ WorkOnce(w, turn.m, turn.at + 1, seen)
        /\ Elements(turn.work) \subseteq Elements(w)
        /\ \A f \in Elements(w) : f \in Elements(turn.work)
                                  \/ (f.of = turn.m /\ f.kind \in RunKinds)
        /\ turn' = Iterate(w, {})
    BY <2>1, <2>4, <2>5 DEF w, RunKinds
  <2>7. turn'.pc = "model" /\ turn'.m = turn.m /\ turn'.at = turn.at + 1
    BY <1>16, <2>1, <2>6
  <2>. QED  BY <1>20, <2>1, <2>6, <2>7
<1>24. CASE Blank
  <2>. DEFINE next == Iterate(turn.work, {})
  <2>1. /\ turn' = [next EXCEPT !.blank = TRUE] /\ turn.pc = "model"
        /\ UNCHANGED <<file, mem, seen>> /\ {} \in FollowUps
    BY <1>24 DEF Blank, Asking, FollowUps
  <2>2. next.pc = "model" /\ next.m = turn.m /\ next.at = turn.at + 1
    BY <1>0, <1>13, <1>16, <2>1
  <2>3. /\ turn'.work = next.work /\ turn'.pc = next.pc /\ turn'.m = next.m
        /\ turn'.at = next.at
    BY <1>0, <2>1 DEF Iterate, Turn
  <2>. HIDE DEF next
  <2>4. turn'.work = Iterate(turn.work, {}).work
    BY <2>3 DEF next
  <2>. QED  BY <1>0, <1>13, <1>20, <2>1, <2>2, <2>3, <2>4
<1>25. CASE NoAnswer
  <2>1. PICK F \in FollowUps :
          /\ turn' \in {Ran(Ending(turn.work)), Iterate(Ending(turn.work), F),
                        Iterate(turn.work, F)}
          /\ turn.pc = "model" /\ UNCHANGED <<file, mem>> /\ seen' = seen \cup F
    BY <1>25 DEF NoAnswer, EndOrIterate, Asking
  <2>. DEFINE v == Ending(turn.work)
  <2>2. /\ v \in Seq(Entry) /\ WorkOnce(v, turn.m, turn.at + 1, seen)
        /\ Elements(turn.work) \subseteq Elements(v)
        /\ \A f \in Elements(v) :
              f \in Elements(turn.work) \/ (f.of = turn.m /\ f.kind \in RunKinds)
        /\ \/ v = <<>> /\ turn.m \in Subagent
           \/ v # <<>> /\ Last(v).kind = "text"
    BY <1>0, <1>13, <1>14, <1>21, <2>1
  <2>3. turn' = Ran(v) \/ turn' = Iterate(v, F) \/ turn' = Iterate(turn.work, F)
    BY <2>1
  <2>. HIDE DEF v
  <2>4. CASE turn' = Ran(v)
    BY <1>20, <2>1, <2>2, <2>4
  <2>5. CASE turn' = Iterate(v, F)
    <3>1. turn'.pc = "model" /\ turn'.m = turn.m /\ turn'.at = turn.at + 1
      BY <1>16, <2>1, <2>2, <2>5
    <3>. QED  BY <1>20, <2>1, <2>2, <2>5, <3>1
  <2>6. CASE turn' = Iterate(turn.work, F)
    <3>1. turn'.pc = "model" /\ turn'.m = turn.m /\ turn'.at = turn.at + 1
      BY <1>0, <1>13, <1>16, <2>1, <2>6
    <3>. QED  BY <1>0, <1>13, <1>20, <2>1, <2>6, <3>1
  <2>. QED  BY <2>3, <2>4, <2>5, <2>6
<1>26. CASE OutOfIterations
  <2>1. PICK F \in FollowUps :
          /\ turn' = [Ran(Ending(Injected(turn.work, F))) EXCEPT !.heard = @ \cup F]
          /\ turn.pc = "model" /\ UNCHANGED <<file, mem>> /\ seen' = seen \cup F
    BY <1>26 DEF OutOfIterations
  <2>. DEFINE w == Injected(turn.work, F)
              v == Ending(w)
  <2>2. /\ w \in Seq(Entry) /\ WorkOnce(w, turn.m, turn.at + 1, seen')
        /\ Elements(turn.work) \subseteq Elements(w)
        /\ \A e \in Elements(w) :
              e \in Elements(turn.work) \/ (e.kind = "injected" /\ e.of \notin seen)
    BY <1>0, <1>13, <2>1, WorkTypes, InjectOnce
  <2>3. /\ Text(turn.m, turn.at) \notin Elements(w) /\ turn.m \in seen'
        /\ Text(turn.m, turn.at).of = turn.m /\ Text(turn.m, turn.at).kind \in RunKinds
    BY <1>13, <1>14, <2>1, <2>2 DEF RunKinds
  <2>. HIDE DEF w
  <2>4. /\ WorkOnce(v, turn.m, turn.at + 1, seen') /\ v \in Seq(Entry)
        /\ Elements(w) \subseteq Elements(v)
        /\ \A e \in Elements(v) : e \in Elements(w) \/ e = Text(turn.m, turn.at)
        /\ \/ v = <<>> /\ turn.m \in Subagent
           \/ v # <<>> /\ Last(v).kind = "text"
    BY <1>13, <2>1, <2>2, <2>3, EndOnce
  <2>5. turn' = [Ran(v) EXCEPT !.heard = @ \cup F]
    BY <2>1 DEF w
  <2>. HIDE DEF v
  <2>6. turn'.pc = "ran" /\ turn'.work = v /\ turn'.m = turn.m /\ turn'.at = turn.at
    BY <1>0, <2>5 DEF Ran, Turn
  <2>7. /\ Elements(turn.work) \subseteq Elements(v)
        /\ \A f \in Elements(v) : \/ f \in Elements(turn.work)
                                  \/ f.of = turn.m /\ f.kind \in RunKinds
                                  \/ f.of \notin seen
    BY <2>2, <2>3, <2>4
  <2>. QED  BY <1>6, <2>1, <2>4, <2>6, <2>7
<1>27. CASE SaveTurn
  <2>. DEFINE s == [log |-> Appended(mem.log, turn.work), check |-> Nothing,
                    open |-> mem.open /\ turn.m \notin User]
  <2>1. /\ mem \in Saved /\ mem.log \in Seq(Entry) /\ SessionOnce(mem, seen)
        /\ RunOnce(turn, mem, seen) /\ mem.open \in BOOLEAN /\ turn.m \in Msg
        /\ seen' = seen /\ turn.pc = "ran"
    BY <1>2, <1>27 DEF SaveTurn, Saved, OnceInv, TurnOnce
  <2>2. Save(s, Idle)
    BY <1>27 DEF SaveTurn
  <2>3. /\ s.log = mem.log \o turn.work /\ s.check = Nothing
        /\ s.log \in Seq(Entry) /\ Elements(s.log) = Elements(mem.log) \cup Elements(turn.work)
    BY <1>0, <2>1, ElementsConcat DEF Appended
  <2>4. s \in Saved
    BY <2>1, <2>3 DEF Saved
  <2>. HIDE DEF s
  <2>5. /\ Distinct(mem.log) /\ Separate(mem.log) /\ \A e \in Elements(mem.log) : e.of \in seen
        /\ Distinct(turn.work) /\ \A e \in Elements(turn.work) : e.of \in seen /\ e.kind # "user"
        /\ \A e \in Elements(turn.work) : e \notin Elements(mem.log)
    BY <2>1 DEF SessionOnce, RunOnce, WorkOnce
  <2>6. Distinct(s.log) /\ Separate(s.log)
    <3>1. Separate(turn.work) /\ (turn.work # <<>> => turn.work[1].kind # "user")
      BY <1>0, <2>5, NoUserSeparate
    <3>. QED  BY <1>0, <2>1, <2>3, <2>5, <3>1, DistinctConcat, SeparateConcat
  <2>7. s.log # <<>> => Last(s.log).kind \notin {"injected", "nudge", "user"}
    <3>1. CASE turn.work = <<>>
      <4>1. s.log = mem.log /\ turn.m \in Subagent
        BY <1>0, <2>1, <2>3, <3>1, LastConcat DEF RunOnce
      <4>2. turn.m \notin User
        BY <4>1, CheckpointAssumption
      <4>. QED  BY <2>1, <4>1, <4>2 DEF RunOnce, SessionOnce
    <3>2. CASE turn.work # <<>>
      <4>1. Last(s.log) = Last(turn.work)
        BY <1>0, <2>1, <2>3, <3>2, LastConcat
      <4>. QED  BY <2>1, <3>2, <4>1 DEF RunOnce
    <3>. QED  BY <3>1, <3>2
  <2>8. SessionOnce(s, seen)
    BY <2>3, <2>5, <2>6, <2>7 DEF SessionOnce
  <2>9. TurnOnce(Idle, s, seen')
    BY <1>0 DEF TurnOnce
  <2>. QED  BY <1>0, <1>4, <2>1, <2>2, <2>4, <2>8, <2>9
<1>28. CASE Cancel
  BY <1>0, <1>7, <1>28 DEF Cancel
<1>29. ASSUME NEW m \in Msg, CancelForNew(m) PROVE OnceInv'
  <2>. DEFINE next == [Idle EXCEPT !.m = m, !.pc = "clearing"]
  <2>1. next.pc = "clearing"
    BY DEF Idle
  <2>2. Interrupt(next) /\ seen \subseteq seen'
    BY <1>29 DEF CancelForNew
  <2>. HIDE DEF next
  <2>. QED  BY <1>7, <2>1, <2>2
<1>30. CASE Fail \/ Exit \/ Invalidate
  BY <1>0, <1>30 DEF Fail, Exit, Invalidate, OnceInv, TurnOnce
<1>31. CASE Flush
  BY <1>0, <1>31 DEF Flush, OnceInv
<1>. QED
  BY <1>1, <1>8, <1>9, <1>10, <1>11, <1>12, <1>15, <1>18, <1>19, <1>22, <1>23, <1>24, <1>25,
     <1>26, <1>27, <1>28, <1>29, <1>30, <1>31 DEF Next, Run

\* The invariants hold at the start.
LEMMA InitOnce == Init => LegalInv /\ OnceInv
<1>1. Init => LegalInv
  BY IdleType, LegalShort DEF Init, LegalInv, LegalSession, Spoken, LegalTurn, Fresh
<1>2. Init => OnceInv
  BY IdleType, ShortSequences DEF Init, OnceInv, SessionOnce, TurnOnce, Fresh
<1>. QED  BY <1>1, <1>2

\* However turns end, whichever saves fail and whenever the process exits, no message
\* stands twice in the history of the file or of the cached session: a turn that was
\* saved is not restored from its checkpoint as well, nor restored a second time.
THEOREM NothingTwice == Spec => []NoRepeats
<1>1. OnceInv => NoRepeats
  BY DEF OnceInv, SessionOnce, Distinct, NoRepeats
<1>. QED  BY InitTypes, TypeStep, LegalStep, OnceStep, InitOnce, <1>1, PTL DEF Spec

\* A user message whose turn left no answer is closed before the next one is written,
\* so no history holds two user messages side by side.
THEOREM TurnsAreClosed == Spec => []EveryTurnClosed
<1>1. OnceInv => EveryTurnClosed
  BY DEF OnceInv, SessionOnce, Separate, EveryTurnClosed
<1>. QED  BY InitTypes, TypeStep, LegalStep, OnceStep, InitOnce, <1>1, PTL DEF Spec

-----------------------------------------------------------------------------
(* What a session tells of a turn never goes back.                         *)

\* All messages are kept; the checkpoint becomes history, or one of the same turn that
\* is no earlier takes its place.
Passes(s, t) ==
    /\ Elements(s.log) \subseteq Elements(t.log)
    /\ s.check # Nothing =>
          \/ s.check.said \in Elements(t.log)
          \/ /\ t.check # Nothing /\ t.check.said.of = s.check.said.of
             /\ t.check.said.at >= s.check.said.at

LEMMA PassesAdvances ==
    ASSUME NEW s \in Saved, NEW t \in Saved, Spoken(s.check), Passes(s, t)
    PROVE  Advances(s, t)
<1>1. /\ s.log \in Seq(Entry) /\ t.log \in Seq(Entry)
      /\ Elements(s.log) \subseteq Entry /\ Elements(t.log) \subseteq Entry
      /\ s.check # Nothing => s.check.said \in Entry
      /\ t.check # Nothing => t.check.said \in Entry
  BY ElementsConcat DEF Saved, Checkpoint
<1>2. \A e \in Entry : e.at \in Nat
  BY CheckpointAssumption DEF Entry
<1>3. ASSUME NEW m \in Msg, NEW i \in Reached(s, m)
      PROVE  \E j \in Reached(t, m) : j >= i
  <2>1. ASSUME NEW e \in Elements(t.log), e.of = m, e.kind \in {"calls", "text"}
        PROVE  e.at \in Reached(t, m) /\ e.at >= e.at
    <3>1. e.at \in Nat
      BY <1>1, <1>2
    <3>. QED  BY <2>1, <3>1 DEF Reached
  <2>2. CASE \E e \in Elements(s.log) : e.of = m /\ e.kind \in {"calls", "text"} /\ i = e.at
    BY <2>1, <2>2 DEF Passes
  <2>3. CASE s.check # Nothing /\ s.check.said.of = m /\ i = s.check.said.at
    <3>1. CASE s.check.said \in Elements(t.log)
      BY <2>1, <2>3, <3>1 DEF Spoken
    <3>2. CASE /\ t.check # Nothing /\ t.check.said.of = s.check.said.of
               /\ t.check.said.at >= s.check.said.at
      BY <2>3, <3>2 DEF Reached
    <3>. QED  BY <2>3, <3>1, <3>2 DEF Passes
  <2>4. \/ \E e \in Elements(s.log) : e.of = m /\ e.kind \in {"calls", "text"} /\ i = e.at
        \/ s.check # Nothing /\ s.check.said.of = m /\ i = s.check.said.at
    BY <1>3 DEF Reached
  <2>. QED  BY <2>2, <2>3, <2>4
<1>. QED  BY <1>3 DEF Advances

\* A history that grows, with its checkpoint left as it is.
LEMMA GrownPasses ==
    ASSUME NEW s \in Saved, NEW t \in Saved, Extends(s, t), t.check = s.check
    PROVE  Passes(s, t)
<1>1. s.log \in Seq(Entry) /\ t.log \in Seq(Entry) /\ Len(s.log) \in Nat /\ Len(t.log) \in Nat
  BY LenProperties DEF Saved
<1>2. ASSUME NEW k \in 1..Len(s.log) PROVE s.log[k] \in Elements(t.log)
  <2>1. k \in 1..Len(t.log) /\ 1 + k - 1 = k /\ k \in 1..Len(s.log) - 1 + 1
    BY <1>1 DEF Extends
  <2>2. \A i \in 1..Len(s.log) : t.log[i] \in Entry
    BY <1>1, LenProperties DEF Extends
  <2>3. SubSeq(t.log, 1, Len(s.log))[k] = t.log[1 + k - 1]
    BY <1>1, <2>1, <2>2, SubSeqProperties
  <2>. QED  BY <2>1, <2>3 DEF Extends, Elements
<1>3. s.check # Nothing => s.check.said.at >= s.check.said.at
  BY CheckpointAssumption DEF Saved, Checkpoint, Entry
<1>. QED  BY <1>2, <1>3 DEF Passes, Elements

\* A step that saves the new session, or fails to, keeps what the old one told.
LEMMA AdvancesBySaving ==
    ASSUME TypeInv, mem \in Saved, Spoken(mem.check), mem' \in Saved, Passes(mem, mem'),
           file' \in {mem', file}
    PROVE  Keeps(Advances)
<1>1. mem # Nothing /\ mem' # Nothing
  BY NothingAssumption
<1>2. Session = mem /\ Session' = mem'
  BY <1>1 DEF Session
<1>3. Advances(mem, mem')
  BY PassesAdvances
<1>. QED  BY <1>2, <1>3 DEF Keeps

\* No step but /new forgets how far a turn came.
LEMMA AdvanceStep == TypeInv /\ LegalInv /\ OnceInv /\ [Next]_vars => [Keeps(Advances)]_vars
<1>. SUFFICES ASSUME TypeInv, LegalInv, OnceInv, Next PROVE Keeps(Advances)
  BY DEF vars
<1>. USE DEF At
<1>0. TypeOK /\ Idle \in Turn
  BY IdleType DEF TypeInv
<1>1. ASSUME ~At("idle") PROVE mem \in Saved /\ Spoken(mem.check) /\ mem # Nothing
  BY <1>1, TurnFacts, NothingAssumption DEF LegalInv, LegalSession
<1>2. ASSUME NEW s \in Saved, Extends(s, s) PROVE Passes(s, s)
  BY <1>2, GrownPasses
<1>3. ASSUME ~At("idle"), mem' = mem, file' = file PROVE Keeps(Advances)
  BY <1>1, <1>2, <1>3, ExtendsItself, AdvancesBySaving
<1>4. ASSUME NEW s \in Saved, NEW next, ~At("idle"), Save(s, next), Passes(mem, s)
      PROVE  Keeps(Advances)
  <2>1. mem \in Saved /\ mem' = s /\ file' \in {s, file}
    BY <1>1, <1>4 DEF Save
  <2>. QED  BY <1>1, <1>4, <2>1, AdvancesBySaving
<1>5. ASSUME NEW e \in Entry, NEW d \in BOOLEAN, NEW next, turn.pc \in {"model", "tools"},
             SavePoint(Point(e, d), next), e.of = turn.m, e.at = turn.at
      PROVE  Keeps(Advances)
  <2>. DEFINE s == [mem EXCEPT !.check = Point(e, d)]
  <2>1. mem \in Saved /\ Spoken(mem.check) /\ RunOnce(turn, mem, seen) /\ mem.log \in Seq(Entry)
        /\ turn.at \in Nat /\ turn.work \in Seq(Entry)
    BY <1>0, <1>1, <1>5, CheckpointAssumption DEF OnceInv, TurnOnce, Saved, TypeOK, Turn
  <2>2. s \in Saved /\ s.log = mem.log /\ s.check = Point(e, d) /\ Point(e, d).said = e
        /\ s.check # Nothing
    BY <2>1, PointTypes, NothingAssumption
  <2>3. Save(s, next)
    BY <1>5 DEF SavePoint
  <2>. HIDE DEF s
  <2>4. ASSUME mem.check # Nothing
        PROVE  mem.check.said.of = turn.m /\ mem.check.said.at <= turn.at
    <3>. DEFINE c == mem.check.said
    <3>1. c \in Elements(turn.work) /\ c.kind \in {"calls", "text"} /\ c \in Entry
      BY <2>1, <2>4, ElementsConcat DEF RunOnce, Spoken
    <3>2. c.at \in Nat
      BY <3>1, CheckpointAssumption DEF Entry
    <3>. HIDE DEF c
    <3>3. CASE turn.pc = "model"
      <4>1. c.of = turn.m /\ c.at < turn.at
        BY <2>1, <3>1, <3>3 DEF RunOnce, WorkOnce
      <4>. QED  BY <2>1, <3>2, <4>1 DEF c
    <3>4. CASE turn.pc = "tools"
      <4>1. /\ WorkOnce(SubSeq(turn.work, 1, Len(turn.work) - 1), turn.m, turn.at, seen)
            /\ Last(turn.work).of = turn.m /\ Last(turn.work).at = turn.at
        BY <2>1, <3>4 DEF RunOnce
      <4>. DEFINE front == SubSeq(turn.work, 1, Len(turn.work) - 1)
      <4>2. turn.work # <<>> /\ Last(turn.work) \in Entry
        BY <1>0, <2>1, <3>4, LastElement DEF TypeOK
      <4>3. front \in Seq(Entry) /\ turn.work = Append(front, Last(turn.work))
        BY <2>1, <4>2, FrontLast
      <4>. HIDE DEF front
      <4>4. Elements(turn.work) = Elements(front) \cup {Last(turn.work)}
        BY <4>2, <4>3, AppendOnce
      <4>5. CASE c = Last(turn.work)
        BY <2>1, <4>1, <4>5 DEF c
      <4>6. CASE c \in Elements(front)
        <5>1. c.of = turn.m /\ c.at < turn.at
          BY <3>1, <4>1, <4>6 DEF WorkOnce, front
        <5>. QED  BY <2>1, <3>2, <5>1 DEF c
      <4>. QED  BY <3>1, <4>4, <4>5, <4>6
    <3>. QED  BY <1>5, <3>3, <3>4
  <2>5. Passes(mem, s)
    <3>1. mem.check # Nothing => turn.at >= mem.check.said.at
      <4>1. mem.check # Nothing => mem.check.said.at \in Nat
        BY <2>1, CheckpointAssumption DEF Saved, Checkpoint, Entry
      <4>. QED  BY <2>1, <2>4, <4>1
    <3>. QED  BY <1>5, <2>2, <2>4, <3>1 DEF Passes
  <2>. QED  BY <1>4, <1>5, <2>2, <2>3, <2>5
<1>6. ASSUME NEW m \in Msg, Begin(m) PROVE Keeps(Advances)
  <2>1. Session \in Saved /\ Session # Nothing /\ mem' = Session /\ file' = file
        /\ Spoken(Session.check)
    BY <1>6, TurnFacts, NothingAssumption DEF Begin, LegalInv, LegalSession, Session
  <2>2. Session' = Session
    BY <2>1 DEF Session
  <2>3. Advances(Session, Session)
    BY <1>2, <2>1, ExtendsItself, PassesAdvances
  <2>. QED  BY <2>1, <2>2, <2>3 DEF Keeps
<1>7. ASSUME mem \in Saved, Spoken(mem.check), SessionOnce(mem, seen), mem.check # Nothing
      PROVE  RestoreCheckpoint(mem) \in Saved /\ Passes(mem, RestoreCheckpoint(mem))
  <2>. DEFINE t == RestoreCheckpoint(mem)
  <2>1. t \in Saved /\ Extends(mem, t) /\ mem.check.said \in Elements(t.log)
    BY <1>7, RestoreAppends, RestoreOnce
  <2>. HIDE DEF t
  <2>2. Elements(mem.log) \subseteq Elements(t.log)
    <3>. DEFINE u == [t EXCEPT !.check = mem.check]
    <3>1. u \in Saved /\ u.log = t.log /\ u.check = mem.check
      BY <1>7, <2>1 DEF Saved
    <3>. HIDE DEF u
    <3>2. Extends(mem, u)
      BY <2>1, <3>1 DEF Extends
    <3>. QED  BY <1>7, <3>1, <3>2, GrownPasses DEF Passes
  <2>3. Passes(mem, t)
    BY <2>1, <2>2 DEF Passes
  <2>. QED  BY <2>1, <2>3 DEF t
<1>8. ASSUME NEW next, Interrupt(next) PROVE Keeps(Advances)
  <2>1. mem \in Saved /\ Spoken(mem.check) /\ SessionOnce(mem, seen) /\ ~At("idle")
    BY <1>1, <1>8 DEF Interrupt, Running, OnceInv
  <2>2. CASE mem.check = Nothing
    BY <1>3, <1>8, <2>1, <2>2 DEF Interrupt
  <2>3. CASE mem.check # Nothing
    <3>1. mem' = RestoreCheckpoint(mem) /\ file' \in {mem', file}
      BY <1>8, <2>3 DEF Interrupt
    <3>. QED  BY <1>7, <2>1, <2>3, <3>1, AdvancesBySaving
  <2>. QED  BY <2>2, <2>3
<1>9. CASE Restore
  <2>1. mem \in Saved /\ Spoken(mem.check) /\ SessionOnce(mem, seen) /\ ~At("idle")
    BY <1>1, <1>9 DEF Restore, OnceInv
  <2>2. CASE mem.check # Nothing
    <3>1. RestoreCheckpoint(mem) \in Saved /\ Passes(mem, RestoreCheckpoint(mem))
      BY <1>7, <2>1, <2>2
    <3>. QED  BY <1>4, <1>9, <2>1, <2>2, <3>1 DEF Restore
  <2>3. CASE mem.check = Nothing /\ mem.open
    <3>1. ClosePending(mem) \in Saved /\ Passes(mem, ClosePending(mem))
      BY <2>1, CloseAppends, GrownPasses
    <3>. QED  BY <1>4, <1>9, <2>1, <2>3, <3>1 DEF Restore
  <2>4. CASE mem.check = Nothing /\ ~mem.open
    BY <1>3, <1>9, <2>1, <2>4 DEF Restore
  <2>. QED  BY <2>2, <2>3, <2>4
<1>10. CASE RunCommand \/ RunCommandCut
  <2>. DEFINE a == Asked(turn.m)
              b == Item("reply", turn.m, 0, 0)
              asked == [mem EXCEPT !.log = Append(@, a), !.open = TRUE]
              replied == [asked EXCEPT !.log = Append(@, b)]
              closed == [replied EXCEPT !.open = FALSE]
  <2>1. mem \in Saved /\ Spoken(mem.check) /\ mem # Nothing
        /\ turn.m \in Msg /\ 0 \in 0..MaxIterations /\ 0 \in 0..MaxCalls
    BY <1>1, <1>10, TurnFacts, CheckpointAssumption DEF RunCommand, RunCommandCut
  <2>2. a \in Entry /\ b \in Entry
    BY <2>1, EntryTypes DEF Asked
  <2>3. /\ mem' \in {closed, asked, replied, Nothing}
        /\ file' \in {replied, asked, file}
    BY <1>10 DEF RunCommand, RunCommandCut
  <2>. HIDE DEF a, b
  <2>4. asked \in Saved /\ asked.open = TRUE /\ Extends(mem, asked) /\ asked.check = mem.check
    BY <2>1, <2>2, WriteOne DEF Saved
  <2>. HIDE DEF asked
  <2>5. replied = [asked EXCEPT !.log = Append(@, b), !.open = TRUE]
        /\ closed = [asked EXCEPT !.log = Append(@, b), !.open = FALSE]
    BY <2>4 DEF Saved
  <2>. HIDE DEF replied, closed
  <2>6. /\ replied \in Saved /\ Extends(asked, replied) /\ replied.check = mem.check
        /\ closed \in Saved /\ Extends(asked, closed) /\ closed.check = mem.check
    BY <2>2, <2>4, <2>5, WriteOne
  <2>7. Extends(mem, replied) /\ Extends(mem, closed)
    BY <2>1, <2>4, <2>6, ExtendsTwice
  <2>8. Advances(mem, asked) /\ Advances(mem, replied) /\ Advances(mem, closed)
    BY <2>1, <2>4, <2>6, <2>7, GrownPasses, PassesAdvances
  <2>9. Session = mem /\ (mem' = Nothing \/ Session' = mem')
    BY <2>1 DEF Session
  <2>. QED  BY <2>3, <2>8, <2>9 DEF Keeps
<1>11. CASE BuildUser \/ BuildFollowup
  <2>. DEFINE a == Asked(turn.m)
              b == Item("followup", turn.m, 0, 0)
              s1 == [mem EXCEPT !.log = Append(@, a), !.open = TRUE]
              s2 == [mem EXCEPT !.log = Append(@, b)]
              next == [turn EXCEPT !.pc = "model"]
  <2>1. /\ mem \in Saved /\ mem.open \in BOOLEAN /\ turn.m \in Msg /\ ~At("idle")
        /\ 0 \in 0..MaxIterations /\ 0 \in 0..MaxCalls
    BY <1>11, TurnFacts, CheckpointAssumption DEF BuildUser, BuildFollowup, Saved
  <2>2. a \in Entry /\ b \in Entry
    BY <2>1, EntryTypes DEF Asked
  <2>3. Save(s1, next) \/ Save(s2, next)
    BY <1>11 DEF BuildUser, BuildFollowup
  <2>. HIDE DEF a, b, next
  <2>4. s2 = [mem EXCEPT !.log = Append(@, b), !.open = mem.open]
    BY <2>1 DEF Saved
  <2>. HIDE DEF s2
  <2>5. /\ s1 \in Saved /\ Extends(mem, s1) /\ s1.check = mem.check
        /\ s2 \in Saved /\ Extends(mem, s2) /\ s2.check = mem.check
    BY <2>1, <2>2, <2>4, WriteOne
  <2>. HIDE DEF s1
  <2>6. Passes(mem, s1) /\ Passes(mem, s2)
    BY <2>1, <2>5, GrownPasses
  <2>. QED  BY <1>4, <2>1, <2>3, <2>5, <2>6
<1>12. CASE CallTools \/ ToolsDone \/ Answer
  <2>1. \E e \in Entry, d \in BOOLEAN : \E next :
           /\ turn.pc \in {"model", "tools"} /\ SavePoint(Point(e, d), next)
           /\ e.of = turn.m /\ e.at = turn.at
    <3>1. CASE CallTools
      <4>1. PICK n \in 1..MaxCalls : \E next :
              Asking /\ SavePoint(Point(Calls(turn.m, turn.at, n), FALSE), next)
        BY <3>1 DEF CallTools
      <4>2. /\ Calls(turn.m, turn.at, n) \in Entry
            /\ Calls(turn.m, turn.at, n).of = turn.m /\ Calls(turn.m, turn.at, n).at = turn.at
        BY <4>1, CallTypes DEF Calls, Item
      <4>3. turn.pc = "model"
        BY <4>1 DEF Asking
      <4>. QED  BY <4>1, <4>2, <4>3, Zenon
    <3>2. CASE ToolsDone
      <4>1. PICK next : At("tools") /\ SavePoint(Point(Last(turn.work), TRUE), next)
        BY <3>2 DEF ToolsDone
      <4>2. Last(turn.work) \in Entry /\ Last(turn.work).of = turn.m /\ Last(turn.work).at = turn.at
        BY <4>1, TurnFacts DEF OnceInv, TurnOnce, RunOnce
      <4>. QED  BY <4>1, <4>2, Zenon
    <3>3. CASE Answer
      <4>1. PICK next : Asking /\ SavePoint(Point(Text(turn.m, turn.at), FALSE), next)
        BY <3>3 DEF Answer
      <4>2. turn.m \in Msg /\ {} \in FollowUps /\ <<>> \in Seq(Entry) /\ turn.pc = "model"
        BY <4>1, TurnFacts DEF Asking, FollowUps
      <4>3. /\ Text(turn.m, turn.at) \in Entry
            /\ Text(turn.m, turn.at).of = turn.m /\ Text(turn.m, turn.at).at = turn.at
        BY <1>0, <4>2, WorkTypes DEF Text, Item
      <4>. QED  BY <4>1, <4>2, <4>3, Zenon
    <3>. QED  BY <1>12, <3>1, <3>2, <3>3
  <2>. QED  BY <1>5, <2>1
<1>13. CASE \/ ToolsFail \/ ToolsStopped \/ Truncated \/ Blank \/ NoAnswer \/ OutOfIterations
            \/ Fail
  BY <1>3, <1>13 DEF ToolsFail, ToolsStopped, Truncated, Blank, NoAnswer, OutOfIterations,
     Fail, Asking, Running
<1>14. CASE SaveTurn
  <2>. DEFINE s == [log |-> Appended(mem.log, turn.work), check |-> Nothing,
                    open |-> mem.open /\ turn.m \notin User]
  <2>1. /\ mem \in Saved /\ mem.log \in Seq(Entry) /\ turn.work \in Seq(Entry)
        /\ mem.open \in BOOLEAN /\ ~At("idle") /\ RunOnce(turn, mem, seen)
    BY <1>14, TurnFacts DEF SaveTurn, Saved, Turn, OnceInv, TurnOnce
  <2>2. Save(s, Idle)
    BY <1>14 DEF SaveTurn
  <2>3. /\ s.log = mem.log \o turn.work /\ mem.log \o turn.work \in Seq(Entry)
        /\ Elements(s.log) = Elements(mem.log) \cup Elements(turn.work)
    BY <2>1, ElementsConcat DEF Appended
  <2>4. s \in Saved
    BY <2>1, <2>3 DEF Saved
  <2>. HIDE DEF s
  <2>5. Passes(mem, s)
    BY <2>1, <2>3 DEF Passes, RunOnce
  <2>. QED  BY <1>4, <2>1, <2>2, <2>4, <2>5
<1>15. CASE Exit \/ Invalidate
  BY <1>15 DEF Exit, Invalidate, Keeps
<1>16. CASE Flush
  <2>1. mem \in Saved /\ mem' = mem /\ Spoken(mem.check) /\ file' = mem
    BY <1>16, TurnFacts DEF Flush, LegalInv, LegalSession
  <2>. QED  BY <1>2, <2>1, ExtendsItself, AdvancesBySaving
<1>17. CASE New
  BY <1>17 DEF Keeps
<1>. QED
  BY <1>6, <1>8, <1>9, <1>10, <1>11, <1>12, <1>13, <1>14, <1>15, <1>16, <1>17
     DEF Next, Run, Cancel, CancelForNew

\* Only /new forgets how far a turn came: a checkpoint is replaced by one of the same
\* turn that is no earlier, or becomes history, whichever save fails.
THEOREM ProgressIsKept == Spec => ProgressKept
BY InitTypes, TypeStep, LegalStep, OnceStep, AdvanceStep, InitOnce, PTL DEF Spec, ProgressKept
=============================================================================
