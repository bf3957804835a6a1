------------------------ MODULE TurnCheckpointProofs ------------------------
(***************************************************************************)
(* Proofs about TurnCheckpoint, for every set of messages and every bound. *)
(***************************************************************************)
EXTENDS TurnCheckpoint, SequenceTheorems, WellFoundedInduction, TLAPS

-----------------------------------------------------------------------------
(* Recovery.                                                               *)

\* A set of naturals has a least element.
LEMMA LeastElement ==
    ASSUME NEW T, T \subseteq Nat, T # {}
    PROVE  \E x \in T : \A y \in T : x <= y
<1>. DEFINE R == {ss \in Nat \X Nat : ss[1] < ss[2]}
<1>1. IsWellFoundedOn(R, Nat)
  BY NatLessThanWellFounded DEF OpToRel
<1>2. \E x \in T : \A y \in T : <<y, x>> \notin R
  <2>. HIDE DEF R
  <2>. QED  BY <1>1, WFMin
<1>3. PICK x \in T : \A y \in T : <<y, x>> \notin R
  BY <1>2
<1>4. ASSUME NEW y \in T PROVE x <= y
  <2>1. x \in Nat /\ y \in Nat
    OBVIOUS
  <2>2. y < x => <<y, x>> \in R
    BY <2>1
  <2>. QED  BY <2>1, <2>2, <1>3
<1>. QED  BY <1>4

\* The overlap that recovery looks for exists: no message always fits.
LEMMA OverlapFits ==
    ASSUME NEW log \in Seq(Entry), NEW r \in Seq(Entry)
    PROVE  Overlap(log, r) \in 0..Len(r) /\ Fits(log, r, Overlap(log, r))
<1>. DEFINE T == {n \in 0..Len(r) : Fits(log, r, Len(r) - n)}
<1>1. Fits(log, r, 0)
  <2>1. Len(log) \in Nat /\ Len(r) \in Nat
    BY LenProperties
  <2>2. SubSeq(log, Len(log) - 0 + 1, Len(log)) = <<>> /\ SubSeq(r, 1, 0) = <<>>
    BY <2>1, SubSeqEmpty
  <2>. QED  BY <2>1, <2>2 DEF Fits
<1>2. Len(r) \in T
  BY <1>1, LenProperties
<1>3. PICK x \in T : \A y \in T : x <= y
  <2>1. T \subseteq Nat
    BY LenProperties
  <2>. HIDE DEF T
  <2>. QED  BY <2>1, <1>2, LeastElement
<1>4. /\ Len(r) - x \in 0..Len(r) /\ Fits(log, r, Len(r) - x)
      /\ \A k \in 0..Len(r) : Fits(log, r, k) => k <= Len(r) - x
  <2>1. Len(r) \in Nat /\ x \in 0..Len(r) /\ Fits(log, r, Len(r) - x)
    BY <1>3, LenProperties
  <2>2. ASSUME NEW k \in 0..Len(r), Fits(log, r, k) PROVE k <= Len(r) - x
    <3>1. Len(r) - k \in 0..Len(r) /\ Len(r) - (Len(r) - k) = k
      BY <2>1
    <3>2. Len(r) - k \in T
      BY <3>1, <2>2
    <3>3. x <= Len(r) - k
      BY <3>2, <1>3
    <3>. QED  BY <3>3, <2>1
  <2>. QED  BY <2>1, <2>2
<1>. QED  BY <1>4 DEF Overlap

\* Results and error results are a history of their own, one for each call.
LEMMA BlockTypes ==
    ASSUME NEW c \in Entry
    PROVE  /\ Results(c) \in Seq(Entry) /\ Len(Results(c)) = c.no
           /\ \A k \in 1..c.no : Results(c)[k] = Item("result", c.of, c.at, k)
           /\ Cuts(c) \in Seq(Entry) /\ Len(Cuts(c)) = c.no
           /\ \A k \in 1..c.no : Cuts(c)[k] = Item("cut", c.of, c.at, k)
<1>1. c.no \in Nat /\ c.no <= MaxCalls /\ c.of \in Msg /\ c.at \in 0..MaxIterations
  BY CheckpointAssumption DEF Entry
<1>2. ASSUME NEW k \in 1..c.no
      PROVE  Item("result", c.of, c.at, k) \in Entry /\ Item("cut", c.of, c.at, k) \in Entry
  BY <1>1, CheckpointAssumption DEF Entry, Item
<1>3. Results(c) \in [1..c.no -> Entry] /\ Cuts(c) \in [1..c.no -> Entry]
  BY <1>2 DEF Results, Cuts
<1>. QED  BY <1>1, <1>3 DEF Results, Cuts

\* What a checkpoint adds is a history.
LEMMA RestoredType ==
    ASSUME NEW p \in Checkpoint
    PROVE  Restored(p) \in Seq(Entry) /\ Restored(p) # <<>>
<1>1. p.said \in Entry /\ p.done \in BOOLEAN
  BY DEF Checkpoint
<1>2. <<p.said>> \in Seq(Entry) /\ Len(<<p.said>>) = 1 /\ <<>> \in Seq(Entry)
  BY <1>1
<1>3. Restored(p) \in Seq(Entry) /\ Len(Restored(p)) >= 1
  <2>1. CASE p.said.kind # "calls"
    BY <2>1, <1>2, ConcatProperties DEF Restored
  <2>2. CASE p.said.kind = "calls" /\ p.done
    BY <2>2, <1>1, <1>2, ConcatProperties, BlockTypes, LenProperties DEF Restored
  <2>3. CASE p.said.kind = "calls" /\ ~p.done
    BY <2>3, <1>1, <1>2, ConcatProperties, BlockTypes, LenProperties DEF Restored
  <2>. QED  BY <2>1, <2>2, <2>3
<1>. QED  BY <1>3, EmptySeq

\* A log that another one was appended to is a prefix of the result.
LEMMA PrefixConcat ==
    ASSUME NEW q \in Seq(Entry), NEW r \in Seq(Entry)
    PROVE  /\ q \o r \in Seq(Entry)
           /\ Len(q) <= Len(q \o r)
           /\ q = SubSeq(q \o r, 1, Len(q))
<1>1. /\ q \o r \in Seq(Entry) /\ Len(q) \in Nat /\ Len(r) \in Nat
      /\ Len(q \o r) = Len(q) + Len(r)
      /\ \A i \in 1..Len(q) : (q \o r)[i] = q[i]
  BY ConcatProperties, LenProperties
<1>2. q = SubSeq(q \o r, 1, Len(q))
  <2>1. CASE Len(q) = 0
    BY <2>1, <1>1, SubSeqEmpty, EmptySeq
  <2>2. CASE Len(q) > 0
    <3>1. SubSeq(q \o r, 1, Len(q)) = SubSeq(q, 1, Len(q))
      BY <2>2, <1>1, SubSeqOfConcat1
    <3>. QED  BY <3>1, SubSeqFull
  <2>. QED  BY <2>1, <2>2, <1>1
<1>. QED  BY <1>1, <1>2

\* Restoring a checkpoint only appends to the history.
LEMMA RestoreAppends ==
    ASSUME NEW s \in Saved, s.check # Nothing
    PROVE  /\ RestoreCheckpoint(s) \in Saved
           /\ RestoreCheckpoint(s).check = Nothing
           /\ Extends(s, RestoreCheckpoint(s))
           /\ \E d \in 0..Len(Restored(s.check)) :
                 /\ Fits(s.log, Restored(s.check), d)
                 /\ RestoreCheckpoint(s).log =
                      s.log \o SubSeq(Restored(s.check), d + 1, Len(Restored(s.check)))
<1>. DEFINE r == Restored(s.check)
            d == Overlap(s.log, r)
            t == SubSeq(r, d + 1, Len(r))
<1>1. s.log \in Seq(Entry) /\ s.check \in Checkpoint
  BY DEF Saved
<1>2. r \in Seq(Entry) /\ Len(r) \in Nat
  BY <1>1, RestoredType, LenProperties
<1>3. d \in 0..Len(r) /\ Fits(s.log, r, d)
  BY <1>1, <1>2, OverlapFits
<1>4. t \in Seq(Entry)
  <2>1. \A i \in d + 1..Len(r) : r[i] \in Entry
    BY <1>2, <1>3, LenProperties
  <2>. QED  BY <2>1, <1>2, <1>3, SubSeqProperties
<1>5. RestoreCheckpoint(s) = [log |-> s.log \o t, check |-> Nothing, open |-> FALSE]
  BY DEF RestoreCheckpoint
<1>6. RestoreCheckpoint(s) \in Saved /\ Extends(s, RestoreCheckpoint(s))
  <2>. HIDE DEF t
  <2>1. s.log \o t \in Seq(Entry) /\ Len(s.log) <= Len(s.log \o t)
        /\ s.log = SubSeq(s.log \o t, 1, Len(s.log))
    BY <1>1, <1>4, PrefixConcat
  <2>. QED  BY <2>1, <1>5 DEF Saved, Extends
<1>7. RestoreCheckpoint(s).log = s.log \o t /\ RestoreCheckpoint(s).check = Nothing
  <2>. HIDE DEF t
  <2>. QED  BY <1>5
<1>. QED  BY <1>3, <1>6, <1>7

\* Closing a turn only appends to the history.
LEMMA CloseAppends ==
    ASSUME NEW s \in Saved
    PROVE  /\ ClosePending(s) \in Saved /\ ClosePending(s).check = s.check
           /\ Extends(s, ClosePending(s))
           /\ \/ ClosePending(s).log = s.log
              \/ \E e \in Entry : e.kind = "closing" /\ ClosePending(s).log = s.log \o <<e>>
<1>1. s.log \in Seq(Entry) /\ Len(s.log) \in Nat
  BY LenProperties DEF Saved
<1>2. CASE s.log # <<>> /\ FromUser(Last(s.log))
  <2>. DEFINE e == Item("closing", Last(s.log).of, 0, 0)
  <2>1. Last(s.log) \in Entry
    BY <1>1, <1>2, EmptySeq, LenProperties DEF Last
  <2>2. e \in Entry /\ e.kind = "closing"
    BY <2>1, CheckpointAssumption DEF Entry, Item
  <2>3. Append(s.log, e) = s.log \o <<e>> /\ <<e>> \in Seq(Entry)
    BY <1>1, <2>2, AppendIsConcat
  <2>4. ClosePending(s) = [s EXCEPT !.open = FALSE, !.log = s.log \o <<e>>]
    BY <1>2, <2>3 DEF ClosePending
  <2>. HIDE DEF e
  <2>5. s.log \o <<e>> \in Seq(Entry) /\ Len(s.log) <= Len(s.log \o <<e>>)
        /\ s.log = SubSeq(s.log \o <<e>>, 1, Len(s.log))
    BY <1>1, <2>3, PrefixConcat
  <2>6. ClosePending(s) = [log |-> s.log \o <<e>>, check |-> s.check, open |-> FALSE]
    BY <2>4 DEF Saved
  <2>7. ClosePending(s).log = s.log \o <<e>> /\ ClosePending(s).check = s.check
    BY <2>6
  <2>8. ClosePending(s) \in Saved
    BY <2>5, <2>6 DEF Saved
  <2>9. Extends(s, ClosePending(s))
    BY <2>5, <2>7 DEF Extends
  <2>. QED  BY <2>2, <2>7, <2>8, <2>9
<1>3. CASE ~(s.log # <<>> /\ FromUser(Last(s.log)))
  <2>1. ClosePending(s) = [s EXCEPT !.open = FALSE, !.log = s.log]
    BY <1>3, Zenon DEF ClosePending
  <2>2. ClosePending(s) \in Saved /\ ClosePending(s).log = s.log
        /\ ClosePending(s).check = s.check
    BY <2>1 DEF Saved
  <2>. QED  BY <1>1, <2>2, SubSeqFull DEF Extends
<1>. QED  BY <1>2, <1>3

-----------------------------------------------------------------------------
(* Types.                                                                  *)

TypeInv == TypeOK /\ (At("tools") => turn.at < MaxIterations)

\* The entries a turn makes.
LEMMA EntryTypes ==
    ASSUME NEW m \in Msg, NEW i \in 0..MaxIterations, NEW n \in 0..MaxCalls,
           NEW k \in {"user", "injected", "followup", "reply", "calls", "text", "nudge"}
    PROVE  Item(k, m, i, n) \in Entry /\ Item(k, m, i, n).kind = k /\ Item(k, m, i, n).of = m
           /\ Item(k, m, i, n).at = i /\ Item(k, m, i, n).no = n
BY DEF Entry, Item

\* A follow-up is a user message or a subagent's result that was not seen.
LEMMA FollowUpTypes ==
    ASSUME NEW F \in FollowUps
    PROVE  F \subseteq Msg /\ (F # {} => (CHOOSE f \in F : TRUE) \in (User \cup Subagent) \ seen)
BY DEF FollowUps, Msg

\* What injecting a follow-up and ending a turn leave of its work.
LEMMA WorkTypes ==
    ASSUME TypeOK, turn.m \in Msg, NEW w \in Seq(Entry), NEW F \in FollowUps
    PROVE  /\ \/ Injected(w, F) = w
              \/ \E e \in Entry : e.kind = "injected" /\ Injected(w, F) = Append(w, e)
           /\ Ending(w) = w \/ Ending(w) = Append(w, Text(turn.m, turn.at))
           /\ Text(turn.m, turn.at) \in Entry /\ Text(turn.m, turn.at).kind = "text"
           /\ Injected(w, F) \in Seq(Entry) /\ Ending(w) \in Seq(Entry)
<1>1. turn.at \in 0..MaxIterations /\ 0 \in 0..MaxIterations /\ 0 \in 0..MaxCalls
  BY CheckpointAssumption DEF TypeOK, Turn
<1>2. Text(turn.m, turn.at) \in Entry /\ Text(turn.m, turn.at).kind = "text"
  BY <1>1, EntryTypes DEF Text
<1>3. Ending(w) = w \/ Ending(w) = Append(w, Text(turn.m, turn.at))
  BY DEF Ending
<1>4. \/ Injected(w, F) = w
      \/ \E e \in Entry : e.kind = "injected" /\ Injected(w, F) = Append(w, e)
  <2>1. CASE F = {}
    BY <2>1 DEF Injected
  <2>2. CASE F # {}
    <3>1. Heard(CHOOSE f \in F : TRUE) \in Entry /\ Heard(CHOOSE f \in F : TRUE).kind = "injected"
      BY <2>2, <1>1, FollowUpTypes, EntryTypes DEF Heard, Msg
    <3>. QED  BY <3>1 DEF Injected
  <2>. QED  BY <2>1, <2>2
<1>. QED  BY <1>2, <1>3, <1>4, AppendProperties

\* A turn that goes on or ends is a turn.
LEMMA TurnTypes ==
    ASSUME TypeOK, turn.m \in Msg, NEW w \in Seq(Entry), NEW F \in FollowUps
    PROVE  /\ Ran(w) \in Turn /\ Ran(w).pc = "ran" /\ Ran(w).m = turn.m /\ Ran(w).work = w
           /\ Ran(w).heard = turn.heard
           /\ turn.at < MaxIterations => Iterate(w, F) \in Turn
           /\ Iterate(w, F).pc = "model" /\ Iterate(w, F).m = turn.m
           /\ Iterate(w, F).work = Injected(w, F) /\ Iterate(w, F).heard = turn.heard \cup F
<1>1. turn \in Turn /\ Injected(w, F) \in Seq(Entry) /\ F \subseteq Msg
  BY WorkTypes, FollowUpTypes DEF TypeOK
<1>2. turn.at < MaxIterations => turn.at + 1 \in 0..MaxIterations
  BY <1>1, CheckpointAssumption DEF Turn
<1>. QED  BY <1>1, <1>2 DEF Ran, Iterate, Turn

\* What a save changes.
LEMMA SaveTypes ==
    ASSUME TypeOK, NEW s \in Saved, NEW next \in Turn, Save(s, next)
    PROVE  /\ mem' = s /\ mem' # Nothing /\ file' \in {s, file}
           /\ \/ turn' = next /\ file' = s
              \/ turn' = Idle /\ file' = file
           /\ file' \in Saved /\ faults' \in 0..FaultLimit
BY CheckpointAssumption, NothingAssumption DEF Save, TypeOK

\* Idle is a turn without work.
LEMMA IdleType == Idle \in Turn /\ Idle.pc = "idle" /\ Idle.work = <<>> /\ Idle.at = 0
BY CheckpointAssumption, EmptySeq DEF Idle, Turn

\* What the invariant says of a turn in progress.
LEMMA TurnFacts ==
    ASSUME TypeInv
    PROVE  /\ file \in Saved /\ turn \in Turn /\ seen \subseteq Msg
           /\ mem # Nothing => mem \in Saved
           /\ ~At("idle") => turn.m \in seen /\ turn.m \in Msg /\ mem \in Saved
           /\ Session \in Saved
           /\ At("tools") => /\ turn.at \in 0..MaxIterations /\ turn.at < MaxIterations
                            /\ Last(turn.work) \in Entry /\ Last(turn.work).kind = "calls"
                            /\ turn.work \o Results(Last(turn.work)) \in Seq(Entry)
<1>1. CASE At("tools")
  <2>1. turn.work \in Seq(Entry) /\ Len(turn.work) \in Nat \ {0}
    BY <1>1, EmptySeq DEF TypeInv, TypeOK, Turn
  <2>2. Last(turn.work) \in Entry
    BY <2>1, LenProperties DEF Last
  <2>3. turn.work \o Results(Last(turn.work)) \in Seq(Entry)
    BY <2>1, <2>2, BlockTypes, ConcatProperties
  <2>. QED  BY <1>1, <2>2, <2>3 DEF TypeInv, TypeOK, Turn, Session, At
<1>2. CASE ~At("tools")
  BY <1>2 DEF TypeInv, TypeOK, Session, At
<1>. QED  BY <1>1, <1>2

\* Checkpoints.
LEMMA PointTypes ==
    ASSUME NEW s \in Saved, NEW e \in Entry, NEW d \in BOOLEAN
    PROVE  /\ Point(e, d) \in Checkpoint /\ Point(e, d).said = e /\ Point(e, d).done = d
           /\ [s EXCEPT !.check = Point(e, d)] \in Saved
           /\ [s EXCEPT !.check = Point(e, d)].check = Point(e, d)
           /\ [s EXCEPT !.check = Point(e, d)].log = s.log
<1>1. Point(e, d) \in Checkpoint /\ Point(e, d).said = e /\ Point(e, d).done = d
  BY DEF Point, Checkpoint
<1>. QED  BY <1>1 DEF Saved

\* The calls a model answer may hold.
LEMMA CallTypes ==
    ASSUME TypeInv, Asking, NEW n \in 1..MaxCalls
    PROVE  LET c == Calls(turn.m, turn.at, n)
           IN  /\ c \in Entry /\ c.kind = "calls" /\ c.no = n
               /\ Append(turn.work, c) \in Seq(Entry) /\ Append(turn.work, c) # <<>>
               /\ Last(Append(turn.work, c)) = c
               /\ SubSeq(Append(turn.work, c), 1, Len(Append(turn.work, c)) - 1) = turn.work
               /\ [turn EXCEPT !.pc = "tools", !.work = Append(@, c)] \in Turn
<1>. DEFINE c == Calls(turn.m, turn.at, n)
<1>1. turn \in Turn /\ turn.m \in Msg /\ turn.at \in 0..MaxIterations /\ turn.work \in Seq(Entry)
  BY TurnFacts DEF Asking, At, Turn
<1>2. n \in 0..MaxCalls
  BY CheckpointAssumption
<1>3. c \in Entry /\ c.kind = "calls" /\ c.no = n
  BY <1>1, <1>2, EntryTypes DEF Calls
<1>. HIDE DEF c
<1>4. /\ Append(turn.work, c) \in Seq(Entry) /\ Len(Append(turn.work, c)) = Len(turn.work) + 1
      /\ Append(turn.work, c)[Len(turn.work) + 1] = c /\ Len(turn.work) \in Nat
  BY <1>1, <1>3, AppendProperties, LenProperties
<1>5. Append(turn.work, c) # <<>>
  <2>1. Len(<<>>) = 0
    OBVIOUS
  <2>2. Len(Append(turn.work, c)) > 0
    BY <1>4
  <2>3. Append(turn.work, c) = <<>> => Len(Append(turn.work, c)) = Len(<<>>)
    OBVIOUS
  <2>. QED  BY <2>1, <2>2, <2>3
<1>6. SubSeq(Append(turn.work, c), 1, Len(turn.work)) = turn.work
  <2>1. Append(turn.work, c) = turn.work \o <<c>> /\ <<c>> \in Seq(Entry)
    BY <1>1, <1>3, AppendIsConcat
  <2>. QED  BY <1>1, <2>1, PrefixConcat
<1>7. [turn EXCEPT !.pc = "tools", !.work = Append(@, c)] \in Turn
  BY <1>1, <1>4 DEF Turn
<1>8. Len(Append(turn.work, c)) - 1 = Len(turn.work)
  BY <1>4
<1>. QED  BY <1>3, <1>4, <1>5, <1>6, <1>7, <1>8 DEF c, Last

\* Every step keeps the types.
LEMMA TypeStep == TypeInv /\ [Next]_vars => TypeInv'
<1>. SUFFICES ASSUME TypeInv, [Next]_vars PROVE TypeInv'
  OBVIOUS
<1>. USE DEF At
<1>0. TypeOK /\ Idle \in Turn /\ Idle.pc = "idle"
  BY IdleType DEF TypeInv
<1>1. CASE UNCHANGED vars
  BY <1>1 DEF vars, TypeInv, TypeOK, Last
<1>2. ASSUME NEW m \in Msg, Begin(m) PROVE TypeInv'
  <2>1. turn' \in Turn /\ turn'.pc = "begun" /\ turn'.m = m
    BY <1>0, <1>2 DEF Begin, Turn
  <2>2. Session \in Saved /\ Session # Nothing
    BY TurnFacts, NothingAssumption
  <2>. QED  BY <1>0, <1>2, <2>1, <2>2 DEF Begin, TypeInv, TypeOK
<1>3. ASSUME NEW m \in Msg, CancelForNew(m) PROVE TypeInv'
  <2>1. turn' \in Turn /\ turn'.pc = "clearing" /\ turn'.m = m
    BY <1>0, <1>3 DEF CancelForNew, Interrupt, Turn
  <2>2. mem \in Saved /\ mem # Nothing
    BY <1>0, <1>3, TurnFacts DEF CancelForNew, Interrupt, Running, TypeOK
  <2>3. mem.check # Nothing => RestoreCheckpoint(mem) \in Saved
    BY <2>2, RestoreAppends
  <2>4. mem' \in Saved /\ mem' # Nothing /\ file' \in Saved /\ faults' \in 0..FaultLimit
    BY <1>0, <1>3, <2>2, <2>3, NothingAssumption, CheckpointAssumption
       DEF CancelForNew, Interrupt, TypeOK
  <2>. QED  BY <1>0, <1>3, <2>1, <2>4 DEF CancelForNew, Interrupt, TypeInv, TypeOK
<1>4. CASE Restore
  <2>. DEFINE next == [turn EXCEPT !.pc = "restored"]
  <2>1. next \in Turn /\ next.pc = "restored" /\ next.m = turn.m
    BY <1>0 DEF TypeOK, Turn
  <2>2. mem \in Saved /\ mem # Nothing /\ turn.m \in seen
    BY <1>0, <1>4, TurnFacts DEF Restore, TypeOK
  <2>3. mem.check # Nothing => RestoreCheckpoint(mem) \in Saved
    BY <2>2, RestoreAppends
  <2>4. ClosePending(mem) \in Saved
    BY <2>2, CloseAppends
  <2>. HIDE DEF next
  <2>5. \/ mem.check # Nothing /\ Save(RestoreCheckpoint(mem), next)
        \/ Save(ClosePending(mem), next)
        \/ turn' = next /\ UNCHANGED <<mem, file, faults>>
    BY <1>4 DEF Restore, next
  <2>6. /\ mem' \in Saved /\ mem' # Nothing /\ file' \in Saved /\ faults' \in 0..FaultLimit
        /\ turn' \in {next, Idle}
    <3>1. CASE mem.check # Nothing /\ Save(RestoreCheckpoint(mem), next)
      BY <3>1, <1>0, <2>1, <2>3, SaveTypes
    <3>2. CASE Save(ClosePending(mem), next)
      BY <3>2, <1>0, <2>1, <2>4, SaveTypes
    <3>3. CASE turn' = next /\ UNCHANGED <<mem, file, faults>>
      BY <3>3, <1>0, <2>2 DEF TypeOK
    <3>. QED  BY <2>5, <3>1, <3>2, <3>3
  <2>. QED  BY <1>0, <1>4, <2>1, <2>2, <2>6 DEF Restore, TypeInv, TypeOK
<1>5. CASE New
  <2>1. [Session EXCEPT !.log = <<>>] \in Saved
    BY TurnFacts, EmptySeq DEF Saved
  <2>. QED  BY <1>0, <1>5, <2>1, CheckpointAssumption DEF New, TypeInv, TypeOK
<1>6. CASE RunCommand \/ RunCommandCut
  <2>. DEFINE asked == [mem EXCEPT !.log = Append(@, Asked(turn.m)), !.open = TRUE]
              reply == Item("reply", turn.m, 0, 0)
              replied == [asked EXCEPT !.log = Append(@, reply)]
  <2>1. mem \in Saved /\ turn.m \in Msg /\ 0 \in 0..MaxIterations /\ 0 \in 0..MaxCalls
    BY <1>6, TurnFacts, CheckpointAssumption DEF RunCommand, RunCommandCut
  <2>2. Asked(turn.m) \in Entry /\ reply \in Entry
    BY <2>1, EntryTypes DEF Asked
  <2>. HIDE DEF reply
  <2>3. asked \in Saved
    BY <2>1, <2>2, AppendProperties DEF Saved
  <2>4. replied \in Saved /\ [replied EXCEPT !.open = FALSE] \in Saved
    <3>. HIDE DEF asked
    <3>. QED  BY <2>2, <2>3, AppendProperties DEF Saved
  <2>5. /\ turn' = Idle /\ seen' = seen
        /\ mem' \in {[replied EXCEPT !.open = FALSE], asked, replied, Nothing}
        /\ file' \in {replied, asked, file}
        /\ exits' \in 0..ExitLimit /\ faults' \in 0..FaultLimit
    BY <1>0, <1>6, CheckpointAssumption DEF RunCommand, RunCommandCut, TypeOK, reply
  <2>. HIDE DEF asked, replied
  <2>6. /\ mem' \in Saved \cup {Nothing} /\ file' \in Saved
    BY <1>0, <2>3, <2>4, <2>5 DEF TypeOK
  <2>. QED  BY <1>0, <2>5, <2>6 DEF TypeInv, TypeOK
<1>7. CASE BuildUser \/ BuildFollowup
  <2>. DEFINE next == [turn EXCEPT !.pc = "model"]
              s1 == [mem EXCEPT !.log = Append(@, Asked(turn.m)), !.open = TRUE]
              s2 == [mem EXCEPT !.log = Append(@, Item("followup", turn.m, 0, 0))]
  <2>1. /\ mem \in Saved /\ turn.m \in Msg /\ turn.m \in seen
        /\ 0 \in 0..MaxIterations /\ 0 \in 0..MaxCalls
    BY <1>7, TurnFacts, CheckpointAssumption DEF BuildUser, BuildFollowup
  <2>2. next \in Turn /\ next.pc = "model" /\ next.m = turn.m
    BY <1>0 DEF TypeOK, Turn
  <2>3. Asked(turn.m) \in Entry /\ Item("followup", turn.m, 0, 0) \in Entry
    BY <2>1, EntryTypes DEF Asked
  <2>4. s1 \in Saved /\ s2 \in Saved
    BY <2>1, <2>3, AppendProperties DEF Saved
  <2>5. (Save(s1, next) \/ Save(s2, next)) /\ seen' = seen /\ exits' = exits
    BY <1>7 DEF BuildUser, BuildFollowup
  <2>. HIDE DEF next, s1, s2
  <2>6. /\ mem' \in Saved /\ mem' # Nothing /\ file' \in Saved /\ faults' \in 0..FaultLimit
        /\ turn' \in {next, Idle}
    BY <1>0, <2>2, <2>4, <2>5, SaveTypes
  <2>. QED  BY <1>0, <2>1, <2>2, <2>5, <2>6 DEF TypeInv, TypeOK
<1>8. CASE CallTools
  <2>1. PICK n \in 1..MaxCalls :
          /\ Asking
          /\ SavePoint(Point(Calls(turn.m, turn.at, n), FALSE),
                       [turn EXCEPT !.pc = "tools", !.work = Append(@, Calls(turn.m, turn.at, n))])
          /\ UNCHANGED <<seen, exits>>
    BY <1>8 DEF CallTools
  <2>. DEFINE c == Calls(turn.m, turn.at, n)
              w == Append(turn.work, c)
              next == [turn EXCEPT !.pc = "tools", !.work = w]
              s == [mem EXCEPT !.check = Point(c, FALSE)]
  <2>2. /\ c \in Entry /\ c.kind = "calls" /\ w # <<>> /\ Last(w) = c /\ next \in Turn
    BY <2>1, CallTypes
  <2>3. next.pc = "tools" /\ next.m = turn.m /\ next.work = w /\ next.at = turn.at
    BY <1>0 DEF TypeOK, Turn
  <2>4. /\ mem \in Saved /\ turn.m \in seen /\ turn.at < MaxIterations
    BY <2>1, TurnFacts DEF Asking
  <2>5. Save(s, next)
    BY <2>1 DEF SavePoint
  <2>. HIDE DEF c, w, next, s
  <2>6. s \in Saved
    BY <2>2, <2>4, PointTypes DEF s
  <2>7. /\ mem' \in Saved /\ mem' # Nothing /\ file' \in Saved /\ faults' \in 0..FaultLimit
        /\ turn' \in {next, Idle}
    BY <1>0, <2>2, <2>5, <2>6, SaveTypes
  <2>. QED  BY <1>0, <2>1, <2>2, <2>3, <2>4, <2>7 DEF TypeInv, TypeOK
<1>9. CASE ToolsDone
  <2>. DEFINE c == Last(turn.work)
              w == turn.work \o Results(c)
              s == [mem EXCEPT !.check = Point(c, TRUE)]
  <2>1. PICK F \in FollowUps :
          /\ turn.pc = "tools"
          /\ SavePoint(Point(c, TRUE), [Iterate(w, F) EXCEPT !.blank = FALSE])
          /\ seen' = seen \cup turn'.heard
          /\ UNCHANGED exits
    BY <1>9 DEF ToolsDone
  <2>. DEFINE next == [Iterate(w, F) EXCEPT !.blank = FALSE]
  <2>2. /\ mem \in Saved /\ turn.m \in seen /\ turn.m \in Msg /\ seen \subseteq Msg
        /\ turn.at < MaxIterations
        /\ c \in Entry /\ w \in Seq(Entry)
    BY <2>1, TurnFacts
  <2>. HIDE DEF c, w
  <2>3. Iterate(w, F) \in Turn /\ Iterate(w, F).pc = "model" /\ Iterate(w, F).m = turn.m
    BY <1>0, <2>2, TurnTypes
  <2>4. next \in Turn /\ next.pc = "model" /\ next.m = turn.m
    BY <2>3 DEF Turn
  <2>5. s \in Saved
    BY <2>2, PointTypes
  <2>6. Save(s, next)
    BY <2>1 DEF SavePoint
  <2>. HIDE DEF next, s
  <2>7. /\ mem' \in Saved /\ mem' # Nothing /\ file' \in Saved /\ faults' \in 0..FaultLimit
        /\ turn' \in {next, Idle}
    BY <1>0, <2>4, <2>5, <2>6, SaveTypes
  <2>8. turn' \in Turn /\ turn'.heard \subseteq Msg
    BY <1>0, <2>4, <2>7 DEF Turn
  <2>9. seen' \subseteq Msg /\ turn.m \in seen'
    BY <2>1, <2>2, <2>8
  <2>10. turn'.pc # "tools" /\ (turn'.pc # "idle" => turn'.m = turn.m)
    BY <1>0, <2>4, <2>7
  <2>11. exits' = exits
    BY <2>1
  <2>. QED  BY <1>0, <2>7, <2>8, <2>9, <2>10, <2>11 DEF TypeInv, TypeOK
<1>10. ASSUME NEW w \in Seq(Entry), NEW F \in FollowUps, turn.m \in seen, mem # Nothing,
              turn' \in Turn, turn'.m = turn.m, turn'.pc \in {"model", "ran"},
              seen' = seen \/ seen' = seen \cup F,
              UNCHANGED <<file, mem, exits, faults>>
       PROVE  TypeInv'
  <2>1. seen' \subseteq Msg
    BY <1>0, <1>10, FollowUpTypes DEF TypeOK
  <2>. QED  BY <1>0, <1>10, <2>1 DEF TypeInv, TypeOK
<1>11. CASE ToolsFail \/ ToolsStopped
  <2>. DEFINE w == turn.work \o Results(Last(turn.work))
  <2>1. PICK F \in FollowUps :
          /\ turn.pc = "tools"
          /\ turn' \in {Ran(Ending(w)), Iterate(Ending(w), F)}
          /\ seen' = seen \/ seen' = seen \cup F
          /\ UNCHANGED <<file, mem, exits, faults>>
    BY <1>11 DEF ToolsFail, ToolsStopped, EndOrIterate, FollowUps
  <2>2. /\ mem # Nothing /\ turn.m \in seen /\ turn.m \in Msg
        /\ turn.at < MaxIterations /\ w \in Seq(Entry)
    BY <1>0, <2>1, TurnFacts DEF TypeOK
  <2>. HIDE DEF w
  <2>3. Ending(w) \in Seq(Entry)
    BY <1>0, <2>2, WorkTypes
  <2>4. turn' \in Turn /\ turn'.m = turn.m /\ turn'.pc \in {"model", "ran"}
    BY <1>0, <2>1, <2>2, <2>3, TurnTypes
  <2>. QED  BY <1>10, <2>1, <2>2, <2>4
<1>12. CASE Answer
  <2>. DEFINE t == Text(turn.m, turn.at)
              w == Append(turn.work, t)
              s == [mem EXCEPT !.check = Point(t, FALSE)]
  <2>1. PICK F \in FollowUps :
          /\ Asking
          /\ SavePoint(Point(t, FALSE), EndOrIterate(w, F))
          /\ seen' = seen \cup F
          /\ UNCHANGED exits
    BY <1>12 DEF Answer
  <2>. DEFINE next == EndOrIterate(w, F)
  <2>2. /\ mem \in Saved /\ turn.m \in seen /\ turn.m \in Msg /\ turn.at < MaxIterations
        /\ turn.work \in Seq(Entry) /\ {} \in FollowUps
    BY <2>1, TurnFacts DEF Asking, Turn, FollowUps
  <2>3. t \in Entry
    BY <1>0, <2>2, WorkTypes
  <2>4. w \in Seq(Entry) /\ s \in Saved
    BY <2>2, <2>3, AppendProperties, PointTypes
  <2>. HIDE DEF t, w, s
  <2>5. next \in Turn /\ next.pc \in {"model", "ran"} /\ next.m = turn.m
    BY <1>0, <2>2, <2>4, TurnTypes DEF EndOrIterate
  <2>6. Save(s, next)
    BY <2>1 DEF SavePoint, s
  <2>. HIDE DEF next
  <2>7. /\ mem' \in Saved /\ mem' # Nothing /\ file' \in Saved /\ faults' \in 0..FaultLimit
        /\ turn' \in {next, Idle}
    BY <1>0, <2>4, <2>5, <2>6, SaveTypes
  <2>8. seen' \subseteq Msg /\ exits' = exits /\ seen \subseteq seen'
    BY <1>0, <2>1, FollowUpTypes DEF TypeOK
  <2>. QED  BY <1>0, <2>2, <2>5, <2>7, <2>8 DEF TypeInv, TypeOK
<1>13. CASE Truncated \/ Blank \/ NoAnswer
  <2>. DEFINE t == Text(turn.m, turn.at)
              u == Item("nudge", turn.m, turn.at, 0)
  <2>1. /\ Asking /\ mem # Nothing /\ turn.m \in seen /\ turn.m \in Msg
        /\ turn.at < MaxIterations /\ turn.at \in 0..MaxIterations
        /\ turn.work \in Seq(Entry) /\ {} \in FollowUps /\ 0 \in 0..MaxCalls
    BY <1>0, <1>13, TurnFacts, CheckpointAssumption
       DEF Truncated, Blank, NoAnswer, Asking, Turn, FollowUps, TypeOK
  <2>2. t \in Entry /\ u \in Entry
    BY <2>1, EntryTypes DEF Text
  <2>3. turn.work \o <<t, u>> \in Seq(Entry)
    BY <2>1, <2>2, ConcatProperties
  <2>4. CASE Truncated
    <3>1. turn' = Iterate(turn.work \o <<t, u>>, {})
      BY <2>4 DEF Truncated
    <3>. HIDE DEF t, u
    <3>2. turn' \in Turn /\ turn'.m = turn.m /\ turn'.pc = "model"
      BY <1>0, <2>1, <2>3, <3>1, TurnTypes
    <3>3. seen' = seen /\ UNCHANGED <<file, mem, exits, faults>>
      BY <2>4 DEF Truncated
    <3>. QED  BY <1>10, <2>1, <3>2, <3>3
  <2>5. CASE Blank
    <3>1. Iterate(turn.work, {}) \in Turn /\ Iterate(turn.work, {}).m = turn.m
          /\ Iterate(turn.work, {}).pc = "model"
      BY <1>0, <2>1, TurnTypes
    <3>2. turn' \in Turn /\ turn'.m = turn.m /\ turn'.pc = "model"
      BY <2>5, <3>1 DEF Blank, Turn
    <3>3. seen' = seen /\ UNCHANGED <<file, mem, exits, faults>>
      BY <2>5 DEF Blank
    <3>. QED  BY <1>10, <2>1, <3>2, <3>3
  <2>6. CASE NoAnswer
    <3>1. PICK F \in FollowUps :
            /\ turn' \in {Ran(Ending(turn.work)), Iterate(Ending(turn.work), F),
                         Iterate(turn.work, F)}
            /\ seen' = seen \cup F
            /\ UNCHANGED <<file, mem, exits, faults>>
      BY <2>6 DEF NoAnswer, EndOrIterate
    <3>2. Ending(turn.work) \in Seq(Entry)
      BY <1>0, <2>1, WorkTypes
    <3>3. turn' \in Turn /\ turn'.m = turn.m /\ turn'.pc \in {"model", "ran"}
      BY <1>0, <2>1, <3>1, <3>2, TurnTypes
    <3>. QED  BY <1>10, <2>1, <3>1, <3>3
  <2>. QED  BY <1>13, <2>4, <2>5, <2>6
<1>14. CASE OutOfIterations
  <2>1. PICK F \in FollowUps :
          /\ turn.pc = "model"
          /\ turn' = [Ran(Ending(Injected(turn.work, F))) EXCEPT !.heard = @ \cup F]
          /\ seen' = seen \cup F
          /\ UNCHANGED <<file, mem, exits, faults>>
    BY <1>14 DEF OutOfIterations
  <2>2. /\ mem # Nothing /\ turn.m \in seen /\ turn.m \in Msg /\ turn.work \in Seq(Entry)
    BY <1>0, <2>1, TurnFacts DEF TypeOK, Turn
  <2>3. Ending(Injected(turn.work, F)) \in Seq(Entry) /\ F \subseteq Msg
    BY <1>0, <2>2, WorkTypes, FollowUpTypes
  <2>. DEFINE w == Ending(Injected(turn.work, F))
  <2>. HIDE DEF w
  <2>4. Ran(w) \in Turn /\ Ran(w).pc = "ran" /\ Ran(w).m = turn.m
    BY <1>0, <2>2, <2>3, TurnTypes DEF w
  <2>5. turn' \in Turn /\ turn'.m = turn.m /\ turn'.pc = "ran"
    BY <2>1, <2>3, <2>4 DEF w, Turn
  <2>. QED  BY <1>10, <2>1, <2>2, <2>5
<1>15. CASE SaveTurn
  <2>. DEFINE s == [log |-> Appended(mem.log, turn.work), check |-> Nothing,
                    open |-> mem.open /\ turn.m \notin User]
  <2>1. Save(s, Idle) /\ seen' = seen /\ exits' = exits
    BY <1>15 DEF SaveTurn
  <2>2. s \in Saved
    <3>1. mem.log \in Seq(Entry) /\ turn.work \in Seq(Entry) /\ mem.open \in BOOLEAN
      BY <1>15, TurnFacts DEF SaveTurn, Saved, Turn
    <3>2. Appended(mem.log, turn.work) \in Seq(Entry)
      BY <3>1, ConcatProperties DEF Appended
    <3>. QED  BY <3>1, <3>2 DEF Saved
  <2>. HIDE DEF s
  <2>3. /\ mem' \in Saved /\ mem' # Nothing /\ file' \in Saved /\ faults' \in 0..FaultLimit
        /\ turn' = Idle
    BY <1>0, <2>1, <2>2, SaveTypes
  <2>. QED  BY <1>0, <2>1, <2>3 DEF TypeInv, TypeOK
<1>16. CASE Cancel
  <2>1. mem \in Saved /\ mem # Nothing
    BY <1>0, <1>16, TurnFacts DEF Cancel, Interrupt, Running, TypeOK
  <2>2. mem.check # Nothing => RestoreCheckpoint(mem) \in Saved
    BY <2>1, RestoreAppends
  <2>3. mem' \in Saved /\ mem' # Nothing /\ file' \in Saved /\ faults' \in 0..FaultLimit
    BY <1>0, <1>16, <2>1, <2>2, NothingAssumption, CheckpointAssumption
       DEF Cancel, Interrupt, TypeOK
  <2>. QED  BY <1>0, <1>16, <2>3 DEF Cancel, Interrupt, TypeInv, TypeOK
<1>17. CASE Fail \/ Exit \/ Flush \/ Invalidate
  BY <1>0, <1>17, CheckpointAssumption DEF Fail, Exit, Flush, Invalidate, TypeInv, TypeOK
<1>. QED
  BY <1>1, <1>2, <1>3, <1>4, <1>5, <1>6, <1>7, <1>8, <1>9, <1>11, <1>12, <1>13, <1>14,
     <1>15, <1>16, <1>17 DEF Next, Run

\* The first state is well formed.
LEMMA InitTypes == Init => TypeInv
<1>. SUFFICES ASSUME Init PROVE TypeInv
  OBVIOUS
<1>1. Fresh \in Saved /\ Idle \in Turn /\ Idle.pc = "idle"
  BY IdleType, EmptySeq DEF Fresh, Saved
<1>. QED  BY <1>1, CheckpointAssumption DEF Init, TypeInv, TypeOK, At

\* The session file, the cache and the turn in progress are always well formed,
\* and a turn never exceeds its iterations.
THEOREM CheckpointTypeCorrect == Spec => []TypeOK
BY InitTypes, TypeStep, PTL DEF Spec, TypeInv

-----------------------------------------------------------------------------
(* The history only grows.                                                 *)

\* Appending entries extends a session.
LEMMA ExtendsByConcat ==
    ASSUME NEW s \in Saved, NEW t \in Saved, NEW r \in Seq(Entry), t.log = s.log \o r
    PROVE  Extends(s, t)
<1>1. s.log \in Seq(Entry)
  BY DEF Saved
<1>. QED  BY <1>1, PrefixConcat DEF Extends

LEMMA ExtendsItself ==
    ASSUME NEW s \in Saved, NEW t \in Saved, t.log = s.log
    PROVE  Extends(s, t)
<1>1. s.log \in Seq(Entry) /\ Len(s.log) \in Nat
  BY LenProperties DEF Saved
<1>. QED  BY <1>1, SubSeqFull DEF Extends

\* What extends an extension of a session extends the session.
LEMMA ExtendsTwice ==
    ASSUME NEW s \in Saved, NEW t \in Saved, NEW u \in Saved, Extends(s, t), Extends(t, u)
    PROVE  Extends(s, u)
<1>. DEFINE p == s.log
            q == t.log
            r == u.log
<1>1. p \in Seq(Entry) /\ q \in Seq(Entry) /\ r \in Seq(Entry)
  BY DEF Saved
<1>2. /\ Len(p) <= Len(q) /\ p = SubSeq(q, 1, Len(p))
      /\ Len(q) <= Len(r) /\ q = SubSeq(r, 1, Len(q))
  BY DEF Extends
<1>. HIDE DEF p, q, r
<1>3. Len(p) \in Nat /\ Len(q) \in Nat /\ Len(r) \in Nat
  BY <1>1, LenProperties
<1>4. /\ SubSeq(r, 1, Len(p)) \in Seq(Entry) /\ Len(SubSeq(r, 1, Len(p))) = Len(p)
      /\ \A k \in 1..Len(p) : SubSeq(r, 1, Len(p))[k] = r[k]
  BY <1>1, <1>2, <1>3
<1>5. ASSUME NEW k \in 1..Len(p) PROVE p[k] = SubSeq(r, 1, Len(p))[k]
  <2>1. p[k] = q[k]
    BY <1>1, <1>2, <1>3
  <2>2. q[k] = r[k]
    BY <1>1, <1>2, <1>3
  <2>. QED  BY <2>1, <2>2, <1>4
<1>6. p = SubSeq(r, 1, Len(p))
  BY <1>1, <1>4, <1>5, SeqEqual
<1>. QED  BY <1>2, <1>3, <1>6 DEF Extends, p, q, r

\* One message is written, and the turn marked as open or not.
LEMMA WriteOne ==
    ASSUME NEW s \in Saved, NEW e \in Entry, NEW b \in BOOLEAN
    PROVE  LET t == [s EXCEPT !.log = Append(@, e), !.open = b]
           IN  t \in Saved /\ t.log = s.log \o <<e>> /\ t.check = s.check /\ Extends(s, t)
<1>. DEFINE t == [s EXCEPT !.log = Append(@, e), !.open = b]
<1>1. s.log \in Seq(Entry) /\ <<e>> \in Seq(Entry)
  BY DEF Saved
<1>2. Append(s.log, e) = s.log \o <<e>> /\ Append(s.log, e) \in Seq(Entry)
  BY <1>1, AppendIsConcat, AppendProperties
<1>. DEFINE q == Append(s.log, e)
<1>3. t = [s EXCEPT !.log = q, !.open = b]
  OBVIOUS
<1>. HIDE DEF q, t
<1>4. t \in Saved /\ t.log = q /\ t.check = s.check
  BY <1>2, <1>3 DEF q, Saved
<1>5. Extends(s, t)
  BY <1>1, <1>2, <1>4, ExtendsByConcat DEF q
<1>. QED  BY <1>2, <1>4, <1>5 DEF q, t

\* A step whose new session extends the old one, and which saves the new session
\* or nothing.
LEMMA GrowsBySaving ==
    ASSUME TypeInv, mem \in Saved, mem' \in Saved, Extends(mem, mem'), file' \in {mem', file}
    PROVE  Keeps(Extends)
<1>1. mem # Nothing /\ mem' # Nothing
  BY NothingAssumption
<1>2. Session = mem /\ Session' = mem'
  BY <1>1 DEF Session
<1>. QED  BY <1>2 DEF Keeps

\* No step but /new takes a message from the history or writes a shorter one.
LEMMA GrowStep == TypeInv /\ [Next]_vars => [Keeps(Extends)]_vars
<1>. SUFFICES ASSUME TypeInv, Next PROVE Keeps(Extends)
  BY DEF vars
<1>. USE DEF At
<1>0. TypeOK /\ Idle \in Turn
  BY IdleType DEF TypeInv
<1>1. ASSUME ~At("idle"), mem' = mem, file' = file PROVE Keeps(Extends)
  <2>1. mem \in Saved
    BY <1>1, TurnFacts
  <2>. QED  BY <1>1, <2>1, ExtendsItself, GrowsBySaving
<1>2. ASSUME NEW s \in Saved, NEW next, ~At("idle"), Save(s, next), Extends(mem, s)
      PROVE  Keeps(Extends)
  <2>1. mem \in Saved /\ mem' = s /\ file' \in {s, file}
    BY <1>2, TurnFacts DEF Save
  <2>. QED  BY <1>2, <2>1, GrowsBySaving
<1>3. ASSUME NEW e \in Entry, NEW d \in BOOLEAN, NEW next, ~At("idle"),
             SavePoint(Point(e, d), next)
      PROVE  Keeps(Extends)
  <2>. DEFINE s == [mem EXCEPT !.check = Point(e, d)]
  <2>1. mem \in Saved
    BY <1>3, TurnFacts
  <2>2. s \in Saved /\ s.log = mem.log
    BY <2>1, PointTypes
  <2>3. Save(s, next)
    BY <1>3 DEF SavePoint
  <2>. HIDE DEF s
  <2>. QED  BY <1>2, <1>3, <2>1, <2>2, <2>3, ExtendsItself
<1>4. ASSUME NEW m \in Msg, Begin(m) PROVE Keeps(Extends)
  <2>1. Session \in Saved /\ Session # Nothing /\ mem' = Session
    BY <1>4, TurnFacts, NothingAssumption DEF Begin
  <2>2. Session' = Session
    BY <2>1 DEF Session
  <2>. QED  BY <1>4, <2>1, <2>2, ExtendsItself DEF Keeps, Begin
<1>5. ASSUME NEW next, Interrupt(next) PROVE Keeps(Extends)
  <2>1. mem \in Saved
    BY <1>5, TurnFacts DEF Interrupt, Running
  <2>2. CASE mem.check = Nothing
    BY <1>1, <1>5, <2>2 DEF Interrupt, Running
  <2>3. CASE mem.check # Nothing
    <3>1. RestoreCheckpoint(mem) \in Saved /\ Extends(mem, RestoreCheckpoint(mem))
      BY <2>1, <2>3, RestoreAppends
    <3>. QED  BY <1>5, <2>1, <2>3, <3>1, GrowsBySaving DEF Interrupt
  <2>. QED  BY <2>2, <2>3
<1>6. CASE Restore
  <2>1. mem \in Saved /\ ~At("idle")
    BY <1>6, TurnFacts DEF Restore
  <2>2. CASE mem.check # Nothing
    <3>1. RestoreCheckpoint(mem) \in Saved /\ Extends(mem, RestoreCheckpoint(mem))
      BY <2>1, <2>2, RestoreAppends
    <3>. QED  BY <1>2, <1>6, <2>1, <2>2, <3>1 DEF Restore
  <2>3. CASE mem.check = Nothing /\ mem.open
    <3>1. ClosePending(mem) \in Saved /\ Extends(mem, ClosePending(mem))
      BY <2>1, CloseAppends
    <3>. QED  BY <1>2, <1>6, <2>1, <2>3, <3>1 DEF Restore
  <2>4. CASE mem.check = Nothing /\ ~mem.open
    BY <1>1, <1>6, <2>4 DEF Restore
  <2>. QED  BY <2>2, <2>3, <2>4
<1>7. CASE RunCommand \/ RunCommandCut
  <2>. DEFINE a == Asked(turn.m)
              b == Item("reply", turn.m, 0, 0)
              asked == [mem EXCEPT !.log = Append(@, a), !.open = TRUE]
              replied == [asked EXCEPT !.log = Append(@, b)]
              closed == [replied EXCEPT !.open = FALSE]
  <2>1. mem \in Saved /\ turn.m \in Msg /\ 0 \in 0..MaxIterations /\ 0 \in 0..MaxCalls
    BY <1>7, TurnFacts, CheckpointAssumption DEF RunCommand, RunCommandCut
  <2>2. a \in Entry /\ b \in Entry
    BY <2>1, EntryTypes DEF Asked
  <2>3. /\ mem' \in {closed, asked, replied, Nothing}
        /\ file' \in {replied, asked, file}
    BY <1>7 DEF RunCommand, RunCommandCut
  <2>. HIDE DEF a, b
  <2>4. asked \in Saved /\ asked.open = TRUE /\ Extends(mem, asked)
    BY <2>1, <2>2, WriteOne DEF Saved
  <2>. HIDE DEF asked
  <2>5. replied = [asked EXCEPT !.log = Append(@, b), !.open = TRUE]
        /\ closed = [asked EXCEPT !.log = Append(@, b), !.open = FALSE]
    BY <2>4 DEF Saved
  <2>. HIDE DEF replied, closed
  <2>6. /\ replied \in Saved /\ Extends(asked, replied)
        /\ closed \in Saved /\ Extends(asked, closed)
    BY <2>2, <2>4, <2>5, WriteOne
  <2>7. Extends(mem, replied) /\ Extends(mem, closed)
    BY <2>1, <2>4, <2>6, ExtendsTwice
  <2>8. Session = mem /\ (mem' = Nothing \/ Session' = mem')
    BY <2>1, NothingAssumption DEF Session
  <2>. QED  BY <2>3, <2>4, <2>7, <2>8 DEF Keeps
<1>8. CASE BuildUser \/ BuildFollowup
  <2>. DEFINE a == Asked(turn.m)
              b == Item("followup", turn.m, 0, 0)
              s1 == [mem EXCEPT !.log = Append(@, a), !.open = TRUE]
              s2 == [mem EXCEPT !.log = Append(@, b)]
              next == [turn EXCEPT !.pc = "model"]
  <2>1. /\ mem \in Saved /\ mem.open \in BOOLEAN /\ turn.m \in Msg /\ ~At("idle")
        /\ 0 \in 0..MaxIterations /\ 0 \in 0..MaxCalls
    BY <1>8, TurnFacts, CheckpointAssumption DEF BuildUser, BuildFollowup, Saved
  <2>2. a \in Entry /\ b \in Entry
    BY <2>1, EntryTypes DEF Asked
  <2>3. Save(s1, next) \/ Save(s2, next)
    BY <1>8 DEF BuildUser, BuildFollowup
  <2>. HIDE DEF a, b, next
  <2>4. s2 = [mem EXCEPT !.log = Append(@, b), !.open = mem.open]
    BY <2>1 DEF Saved
  <2>. HIDE DEF s2
  <2>5. s1 \in Saved /\ Extends(mem, s1) /\ s2 \in Saved /\ Extends(mem, s2)
    BY <2>1, <2>2, <2>4, WriteOne
  <2>. HIDE DEF s1
  <2>. QED  BY <1>2, <2>1, <2>3, <2>5
<1>9. CASE CallTools
  <2>1. PICK n \in 1..MaxCalls :
          /\ Asking
          /\ SavePoint(Point(Calls(turn.m, turn.at, n), FALSE),
                       [turn EXCEPT !.pc = "tools", !.work = Append(@, Calls(turn.m, turn.at, n))])
    BY <1>9 DEF CallTools
  <2>2. Calls(turn.m, turn.at, n) \in Entry
    BY <2>1, CallTypes
  <2>. QED  BY <1>3, <2>1, <2>2 DEF Asking
<1>10. CASE ToolsDone
  <2>1. PICK next : At("tools") /\ SavePoint(Point(Last(turn.work), TRUE), next)
    BY <1>10 DEF ToolsDone
  <2>2. Last(turn.work) \in Entry
    BY <2>1, TurnFacts
  <2>. QED  BY <1>3, <2>1, <2>2
<1>11. CASE Answer
  <2>1. PICK next : Asking /\ SavePoint(Point(Text(turn.m, turn.at), FALSE), next)
    BY <1>11 DEF Answer
  <2>2. turn.m \in Msg /\ {} \in FollowUps /\ <<>> \in Seq(Entry)
    BY <2>1, TurnFacts DEF Asking, FollowUps
  <2>3. Text(turn.m, turn.at) \in Entry
    BY <1>0, <2>2, WorkTypes
  <2>. QED  BY <1>3, <2>1, <2>3 DEF Asking
<1>12. CASE \/ ToolsFail \/ ToolsStopped \/ Truncated \/ Blank \/ NoAnswer \/ OutOfIterations
            \/ Fail
  BY <1>1, <1>12 DEF ToolsFail, ToolsStopped, Truncated, Blank, NoAnswer, OutOfIterations,
     Fail, Asking, Running
<1>13. CASE SaveTurn
  <2>. DEFINE s == [log |-> Appended(mem.log, turn.work), check |-> Nothing,
                    open |-> mem.open /\ turn.m \notin User]
  <2>1. /\ mem \in Saved /\ mem.log \in Seq(Entry) /\ turn.work \in Seq(Entry)
        /\ mem.open \in BOOLEAN /\ ~At("idle")
    BY <1>13, TurnFacts DEF SaveTurn, Saved, Turn
  <2>2. Save(s, Idle)
    BY <1>13 DEF SaveTurn
  <2>3. s.log = mem.log \o turn.work /\ mem.log \o turn.work \in Seq(Entry)
    BY <2>1, ConcatProperties DEF Appended
  <2>4. s \in Saved
    BY <2>1, <2>3 DEF Saved
  <2>. HIDE DEF s
  <2>. QED  BY <1>2, <2>1, <2>2, <2>3, <2>4, ExtendsByConcat
<1>14. CASE Exit \/ Invalidate
  BY <1>14 DEF Exit, Invalidate, Keeps
<1>15. CASE Flush
  <2>1. mem \in Saved /\ mem' \in Saved
    BY <1>15, TurnFacts DEF Flush
  <2>. QED  BY <1>15, <2>1, ExtendsItself, GrowsBySaving DEF Flush
<1>16. CASE New
  BY <1>16 DEF Keeps
<1>. QED
  BY <1>4, <1>5, <1>6, <1>7, <1>8, <1>9, <1>10, <1>11, <1>12, <1>13, <1>14, <1>15, <1>16
     DEF Next, Run, Cancel, CancelForNew

\* Only /new takes messages from the history, whatever ends a turn and whichever
\* save fails: every other step extends the session, and writes it whole or not at
\* all.
THEOREM HistoryOnlyGrows == Spec => HistoryGrows
BY InitTypes, TypeStep, GrowStep, PTL DEF Spec, HistoryGrows

-----------------------------------------------------------------------------
(* The checkpoint is written ahead of the tools.                           *)

\* The history tells how the turn began.
Told(log) == \E e \in Elements(log) : e.of = turn.m /\ e.kind \in {"user", "followup"}

\* While the turn runs, the cached session holds its message; while its tools run,
\* the file is the cached session and its checkpoint is that of the calls.
AheadInv ==
    /\ At("model") \/ At("tools") => Told(mem.log)
    /\ At("tools") => file = mem /\ mem.check = Point(Last(turn.work), FALSE)

\* What is appended to a history is part of it.
LEMMA ElementAppended ==
    ASSUME NEW log \in Seq(Entry), NEW e \in Entry
    PROVE  e \in Elements(log \o <<e>>)
<1>1. <<e>> \in Seq(Entry) /\ Len(<<e>>) = 1 /\ <<e>>[1] = e /\ Len(log) \in Nat
  BY LenProperties
<1>2. Len(log \o <<e>>) = Len(log) + 1 /\ (log \o <<e>>)[Len(log) + 1] = <<e>>[1]
  BY <1>1, ConcatProperties
<1>. QED  BY <1>1, <1>2 DEF Elements

LEMMA AheadStep == TypeInv /\ AheadInv /\ [Next]_vars => AheadInv'
<1>. SUFFICES ASSUME TypeInv, AheadInv, [Next]_vars PROVE AheadInv'
  OBVIOUS
<1>. USE DEF At
<1>0. TypeOK /\ Idle.pc = "idle" /\ turn \in Turn
  BY IdleType, TurnFacts DEF TypeInv
<1>1. CASE UNCHANGED vars
  BY <1>1 DEF vars, AheadInv, Told, Last
<1>2. ASSUME turn'.pc \notin {"model", "tools"} PROVE AheadInv'
  BY <1>2 DEF AheadInv
<1>3. CASE \/ \E m \in Msg : Begin(m) \/ CancelForNew(m)
           \/ New \/ RunCommand \/ RunCommandCut \/ SaveTurn \/ Cancel \/ Fail \/ Exit
           \/ Invalidate
  <2>1. turn'.pc \in {"begun", "clearing", "idle"}
    BY <1>0, <1>3 DEF Begin, CancelForNew, Interrupt, New, RunCommand, RunCommandCut, SaveTurn,
       Save, Cancel, Fail, Exit, Invalidate, Idle
  <2>. QED  BY <1>2, <2>1
<1>4. CASE Restore
  <2>1. turn'.pc \in {"restored", "idle"}
    BY <1>0, <1>4 DEF Restore, Save, Turn
  <2>. QED  BY <1>2, <2>1
<1>5. ASSUME NEW s \in Saved, NEW next \in Turn, Save(s, next), next.pc = "model",
             next.m = turn.m, Told(s.log)
      PROVE  AheadInv'
  <2>1. mem' = s /\ turn' \in {next, Idle}
    BY <1>0, <1>5, SaveTypes
  <2>2. CASE turn' = next
    BY <1>5, <2>1, <2>2 DEF AheadInv, Told
  <2>3. CASE turn' = Idle
    BY <1>0, <1>2, <2>3
  <2>. QED  BY <2>1, <2>2, <2>3
<1>6. CASE BuildUser \/ BuildFollowup
  <2>. DEFINE a == Asked(turn.m)
              b == Item("followup", turn.m, 0, 0)
              s1 == [mem EXCEPT !.log = Append(@, a), !.open = TRUE]
              s2 == [mem EXCEPT !.log = Append(@, b)]
              next == [turn EXCEPT !.pc = "model"]
  <2>1. /\ mem \in Saved /\ mem.log \in Seq(Entry) /\ mem.open \in BOOLEAN /\ turn.m \in Msg
        /\ 0 \in 0..MaxIterations /\ 0 \in 0..MaxCalls
    BY <1>6, TurnFacts, CheckpointAssumption DEF BuildUser, BuildFollowup, Saved
  <2>2. /\ a \in Entry /\ a.kind = "user" /\ a.of = turn.m
        /\ b \in Entry /\ b.kind = "followup" /\ b.of = turn.m
    BY <2>1, EntryTypes DEF Asked
  <2>3. Save(s1, next) \/ Save(s2, next)
    BY <1>6 DEF BuildUser, BuildFollowup
  <2>4. next \in Turn /\ next.pc = "model" /\ next.m = turn.m
    BY <1>0 DEF Turn
  <2>. HIDE DEF a, b, next
  <2>5. s2 = [mem EXCEPT !.log = Append(@, b), !.open = mem.open]
    BY <2>1 DEF Saved
  <2>. HIDE DEF s2
  <2>6. /\ s1 \in Saved /\ s1.log = mem.log \o <<a>>
        /\ s2 \in Saved /\ s2.log = mem.log \o <<b>>
    BY <2>1, <2>2, <2>5, WriteOne
  <2>. HIDE DEF s1
  <2>7. Told(s1.log) /\ Told(s2.log)
    BY <2>1, <2>2, <2>6, ElementAppended DEF Told
  <2>. QED  BY <1>5, <2>3, <2>4, <2>6, <2>7
<1>7. CASE CallTools
  <2>1. PICK n \in 1..MaxCalls :
          /\ Asking
          /\ SavePoint(Point(Calls(turn.m, turn.at, n), FALSE),
                       [turn EXCEPT !.pc = "tools", !.work = Append(@, Calls(turn.m, turn.at, n))])
    BY <1>7 DEF CallTools
  <2>. DEFINE c == Calls(turn.m, turn.at, n)
              next == [turn EXCEPT !.pc = "tools", !.work = Append(@, c)]
              s == [mem EXCEPT !.check = Point(c, FALSE)]
  <2>2. c \in Entry /\ next \in Turn /\ Last(Append(turn.work, c)) = c
    BY <2>1, CallTypes
  <2>3. Save(s, next) /\ turn.pc = "model" /\ mem \in Saved
    BY <2>1, TurnFacts DEF SavePoint, Asking
  <2>4. next.m = turn.m /\ next.work = Append(turn.work, c)
    BY <1>0 DEF Turn
  <2>. HIDE DEF c, next
  <2>5. s \in Saved /\ s.log = mem.log /\ s.check = Point(c, FALSE)
    BY <2>2, <2>3, PointTypes
  <2>. HIDE DEF s
  <2>6. mem' = s /\ ((turn' = next /\ file' = s) \/ turn' = Idle)
    BY <1>0, <2>2, <2>3, <2>5, SaveTypes
  <2>7. CASE turn' = next /\ file' = s
    <3>1. Told(mem.log)' /\ mem'.check = Point(Last(turn'.work), FALSE)
      BY <2>2, <2>3, <2>4, <2>5, <2>6, <2>7 DEF AheadInv, Told
    <3>. QED  BY <2>6, <2>7, <3>1 DEF AheadInv
  <2>8. CASE turn' = Idle
    BY <1>0, <1>2, <2>8
  <2>. QED  BY <2>6, <2>7, <2>8
<1>8. ASSUME NEW e \in Entry, NEW d \in BOOLEAN, NEW next \in Turn, SavePoint(Point(e, d), next),
             turn.pc \in {"model", "tools"}, next.pc \in {"model", "ran"}, next.m = turn.m
      PROVE  AheadInv'
  <2>. DEFINE s == [mem EXCEPT !.check = Point(e, d)]
  <2>1. mem \in Saved
    BY <1>8, TurnFacts
  <2>2. s \in Saved /\ s.log = mem.log
    BY <2>1, PointTypes
  <2>3. Save(s, next)
    BY <1>8 DEF SavePoint
  <2>. HIDE DEF s
  <2>4. Told(s.log)
    BY <1>8, <2>2 DEF AheadInv
  <2>5. CASE next.pc = "model"
    BY <1>5, <1>8, <2>2, <2>3, <2>4, <2>5
  <2>6. CASE next.pc = "ran"
    <3>1. turn' \in {next, Idle}
      BY <1>0, <2>2, <2>3, SaveTypes
    <3>. QED  BY <1>0, <1>2, <2>6, <3>1
  <2>. QED  BY <1>8, <2>5, <2>6
<1>9. CASE ToolsDone
  <2>. DEFINE w == turn.work \o Results(Last(turn.work))
  <2>1. PICK F \in FollowUps :
          /\ turn.pc = "tools"
          /\ SavePoint(Point(Last(turn.work), TRUE), [Iterate(w, F) EXCEPT !.blank = FALSE])
    BY <1>9 DEF ToolsDone
  <2>. DEFINE next == [Iterate(w, F) EXCEPT !.blank = FALSE]
  <2>2. turn.m \in Msg /\ turn.at < MaxIterations /\ Last(turn.work) \in Entry /\ w \in Seq(Entry)
    BY <2>1, TurnFacts
  <2>. HIDE DEF w
  <2>3. Iterate(w, F) \in Turn /\ Iterate(w, F).pc = "model" /\ Iterate(w, F).m = turn.m
    BY <1>0, <2>2, TurnTypes
  <2>4. next \in Turn /\ next.pc = "model" /\ next.m = turn.m
    BY <2>3 DEF Turn
  <2>. QED  BY <1>8, <2>1, <2>2, <2>4
<1>10. CASE Answer
  <2>. DEFINE t == Text(turn.m, turn.at)
              w == Append(turn.work, t)
  <2>1. PICK F \in FollowUps : Asking /\ SavePoint(Point(t, FALSE), EndOrIterate(w, F))
    BY <1>10 DEF Answer
  <2>2. /\ turn.m \in Msg /\ turn.at < MaxIterations /\ turn.pc = "model"
        /\ turn.work \in Seq(Entry)
    BY <2>1, TurnFacts DEF Asking, Turn
  <2>3. t \in Entry
    BY <1>0, <2>1, <2>2, WorkTypes
  <2>4. w \in Seq(Entry)
    BY <2>2, <2>3, AppendProperties
  <2>. HIDE DEF t, w
  <2>5. /\ EndOrIterate(w, F) \in Turn /\ EndOrIterate(w, F).pc \in {"model", "ran"}
        /\ EndOrIterate(w, F).m = turn.m
    BY <1>0, <2>2, <2>4, TurnTypes DEF EndOrIterate
  <2>. QED  BY <1>8, <2>1, <2>2, <2>3, <2>5
<1>11. CASE ToolsFail \/ ToolsStopped \/ Truncated \/ Blank \/ NoAnswer \/ OutOfIterations
  <2>1. mem' = mem /\ turn.pc \in {"model", "tools"}
    BY <1>11 DEF ToolsFail, ToolsStopped, Truncated, Blank, NoAnswer, OutOfIterations, Asking
  <2>2. turn'.m = turn.m /\ turn'.pc \in {"model", "ran"}
    BY <1>0, <1>11 DEF ToolsFail, ToolsStopped, Truncated, Blank, NoAnswer, OutOfIterations,
       EndOrIterate, Iterate, Ran, Turn
  <2>. QED  BY <2>1, <2>2 DEF AheadInv, Told
<1>12. CASE Flush
  BY <1>12 DEF Flush, AheadInv, Told, Last
<1>. QED
  BY <1>1, <1>3, <1>4, <1>6, <1>7, <1>9, <1>10, <1>11, <1>12 DEF Next, Run

\* Tools only run after the file holds the message of their turn and the checkpoint
\* with all their calls pending, whatever saves fail and whenever the process exits.
THEOREM ToolsAreWrittenAhead == Spec => []WriteAhead
<1>1. Init => AheadInv
  BY IdleType DEF Init, AheadInv, At
<1>2. AheadInv => WriteAhead
  BY DEF AheadInv, WriteAhead, Told, At
<1>. QED  BY InitTypes, TypeStep, AheadStep, <1>1, <1>2, PTL DEF Spec
=============================================================================
