------------------------- MODULE TriggerQueueProofs -------------------------
(***************************************************************************)
(* Proofs about TriggerQueue, for every set of triggers and deliveries and *)
(* every attempt limit, batch size and number of exits.                    *)
(***************************************************************************)
EXTENDS TriggerQueue, TLAPS

-----------------------------------------------------------------------------
(* The inductive invariant.                                                *)

\* The delivery in hand was written back already.
PutBack(d) ==
    /\ InHand(d)
    /\ pc \in {"audit", "record"}
    /\ verdict \in {"raised", "interrupted"}

\* A delivery of the batch whose turn was not submitted yet.
Due(d) == InHand(d) => pc \in {"look", "submit"}

\* The outcome of the delivery in hand is known and final.
Over(d) ==
    /\ InHand(d)
    /\ pc \in {"record", "audit", "complete"}
    /\ verdict \in {"ok", "error"}

\* Only an accepted delivery is anywhere; if its trigger is not enabled, it was
\* refused.
Known(d) ==
    /\ d \in Stored \/ held[d] # NoFile => d \in enqueued
    /\ d \in enqueued => trig[Owner[d]] = "enabled" \/ d \in refused
    /\ d \in enqueued => trig[Owner[d]] # "new"
    /\ d \notin enqueued => turns[d] = 0
    /\ d \in refused => d \in enqueued

\* Where the files of a delivery are.
Kept(d) ==
    /\ processing[d] # NoFile /\ pc \notin {"down", "recover"} =>
          held[d] = processing[d] /\ ~PutBack(d)
    /\ held[d] # NoFile /\ ~PutBack(d) =>
          /\ inbox[d] = NoFile
          /\ failed[d] = NoFile
          /\ held[d] < MaxAttempts
          /\ processing[d] # NoFile \/ d \in refused
    /\ inbox[d] = NoFile \/ failed[d] = NoFile
    /\ processing[d] # NoFile /\ inbox[d] # NoFile => Requeues(processing[d])
    /\ processing[d] # NoFile /\ failed[d] # NoFile => ~Requeues(processing[d])
    /\ d \in enqueued => d \in Stored \cup refused \cup answered

\* The attempts written in a file bound the turns of its delivery.
Counted(d) ==
    /\ inbox[d] # NoFile => turns[d] <= inbox[d]
    /\ processing[d] # NoFile => turns[d] <= processing[d] + 1
    /\ held[d] # NoFile /\ (Due(d) \/ PutBack(d)) => turns[d] <= held[d]
    /\ held[d] # NoFile => turns[d] <= held[d] + 1
    /\ InHand(d) /\ pc = "await" => turns[d] > 0
    /\ turns[d] <= MaxAttempts

\* What the runner knows of an outcome, and what it has told.
Reported(d) ==
    /\ Over(d) /\ verdict = "ok" => d \in answered
    /\ Over(d) => d \in answered \cup refused
    /\ Over(d) /\ pc # "record" => trig[Owner[d]] = "deleted" \/ d \in reported
    /\ d \in enqueued =>
          d \in Stored \/ trig[Owner[d]] = "deleted" \/ d \in reported
    /\ record[d] = "ok" => d \in answered

\* The batch, the place in the code and the caught exception fit together.
Control ==
    /\ pc \in {"down", "recover"} => held = Empty
    /\ pc = "complete" => verdict \in {"ok", "error"}
    /\ pc = "retry" => verdict \in {"raised", "interrupted"}

QueueInv ==
    /\ TypeOK
    /\ Control
    /\ \A d \in Delivery : Known(d) /\ Kept(d) /\ Counted(d) /\ Reported(d)

-----------------------------------------------------------------------------
(* Every action preserves it.                                              *)

\* The batch has one oldest delivery.
LEMMA OneInHand ==
    ASSUME NEW d \in Delivery, NEW e \in Delivery, InHand(d), InHand(e)
    PROVE  d = e
BY TriggerAssumption DEF InHand, Files


\* A step on the delivery in hand leaves the facts about the others alone.
LEMMA Untouched ==
    ASSUME QueueInv, NEW d \in Delivery, ~InHand(d), ~InHand(d)',
           pc \notin {"down", "recover"},
           inbox'[d] = inbox[d], processing'[d] = processing[d], failed'[d] = failed[d],
           held'[d] = held[d], turns'[d] = turns[d], record'[d] = record[d],
           trig' = trig, enqueued' = enqueued, refused' = refused, answered' = answered,
           d \in reported => d \in reported'
    PROVE  Known(d)' /\ Kept(d)' /\ Counted(d)' /\ Reported(d)'
<1>1. d \in Stored' <=> d \in Stored
  BY DEF Stored, Files
<1>2. Known(d)'
  BY <1>1 DEF QueueInv, Known
<1>3. Kept(d)'
  BY <1>1 DEF QueueInv, Kept, PutBack
<1>4. Counted(d)'
  BY DEF QueueInv, Counted, PutBack, Due
<1>5. Reported(d)'
  BY <1>1 DEF QueueInv, Reported, Over
<1>. QED  BY <1>2, <1>3, <1>4, <1>5

\* After the last step on a delivery the next one is in hand.
LEMMA NextInHand ==
    ASSUME TypeOK, NEW e \in Delivery, NextInBatch(e)
    PROVE  /\ pc' = "look" /\ verdict' = "ok"
           /\ held' = [held EXCEPT ![e] = NoFile]
           /\ ~InHand(e)'
           /\ \A d \in Delivery : ~PutBack(d)' /\ ~Over(d)' /\ (held'[d] # NoFile => Due(d)')
<1>1. /\ pc' = "look" /\ verdict' = "ok" /\ held' = [held EXCEPT ![e] = NoFile]
  BY DEF NextInBatch, Without, TypeOK
<1>. QED  BY <1>1 DEF InHand, PutBack, Over, Due, TypeOK

\* The same, when the delivery in hand leaves the batch.
LEMMA Remaining ==
    ASSUME QueueInv, NEW e \in Delivery, InHand(e), NextInBatch(e),
           NEW d \in Delivery, d # e,
           inbox'[d] = inbox[d], processing'[d] = processing[d], failed'[d] = failed[d],
           turns'[d] = turns[d], record'[d] = record[d],
           trig' = trig, enqueued' = enqueued, refused' = refused, answered' = answered,
           d \in reported => d \in reported'
    PROVE  Known(d)' /\ Kept(d)' /\ Counted(d)' /\ Reported(d)'
<1>. USE DEF QueueInv
<1>1. d \in Stored' <=> d \in Stored
  BY DEF Stored, Files
<1>2. /\ ~InHand(d) /\ held'[d] = held[d] /\ pc' = "look"
      /\ ~PutBack(d)' /\ ~Over(d)' /\ (held'[d] # NoFile => Due(d)')
  BY OneInHand, NextInHand DEF TypeOK
<1>3. pc \notin {"down", "recover"}
  BY DEF Control, InHand, Files, Empty
<1>4. Known(d)'
  BY <1>1, <1>2 DEF Known
<1>5. Kept(d)'
  BY <1>1, <1>2, <1>3 DEF Kept, PutBack
<1>6. Counted(d)'
  BY <1>2 DEF Counted, PutBack, Due
<1>7. Reported(d)'
  BY <1>1, <1>2 DEF Reported, Over
<1>. QED  BY <1>4, <1>5, <1>6, <1>7

LEMMA CreateStep ==
    ASSUME QueueInv, NEW t \in Trigger, Create(t)
    PROVE  QueueInv'
<1>. USE TriggerAssumption DEF QueueInv
<1>0. \A d \in Delivery : InHand(d)' <=> InHand(d)
  BY DEF Create, InHand, Files, TypeOK, Put, runner
<1>1. TypeOK'
  BY <1>0 DEF Create, Files, Stored, files, runner, history, TypeOK, Known, Kept,
     Counted, PutBack, Verdict, Stage, Status, Attempts, TrigState, Requeues, Empty
<1>2. Control'
  BY <1>0 DEF Create, Files, Stored, files, runner, history, TypeOK, Empty, Control
<1>4. ASSUME NEW d \in Delivery PROVE Known(d)' /\ Kept(d)' /\ Counted(d)' /\ Reported(d)'
  <2>1. Known(d)'
    BY <1>0 DEF Create, Files, Stored, files, runner, history, TypeOK, Empty, Known
  <2>2. Kept(d)'
    BY <1>0 DEF Create, Files, Stored, files, runner, history, TypeOK, Empty,
       Known, Kept, PutBack, Requeues
  <2>3. Counted(d)'
    BY <1>0 DEF Create, Files, Stored, files, runner, history, TypeOK, Empty,
       Known, Kept, Counted, PutBack, Due, Requeues
  <2>4. Reported(d)'
    BY <1>0 DEF Create, Files, Stored, files, runner, history, TypeOK, Empty,
       Known, Kept, Reported, Over, PutBack
  <2>. QED  BY <2>1, <2>2, <2>3, <2>4
<1>. QED  BY <1>1, <1>2, <1>4

LEMMA EnableStep ==
    ASSUME QueueInv, NEW t \in Trigger, Enable(t)
    PROVE  QueueInv'
<1>. USE TriggerAssumption DEF QueueInv
<1>0. \A d \in Delivery : InHand(d)' <=> InHand(d)
  BY DEF Enable, InHand, Files, TypeOK, Put, runner
<1>1. TypeOK'
  BY <1>0 DEF Enable, Files, Stored, files, runner, history, TypeOK, Known, Kept,
     Counted, PutBack, Verdict, Stage, Status, Attempts, TrigState, Requeues, Empty
<1>2. Control'
  BY <1>0 DEF Enable, Files, Stored, files, runner, history, TypeOK, Empty, Control
<1>4. ASSUME NEW d \in Delivery PROVE Known(d)' /\ Kept(d)' /\ Counted(d)' /\ Reported(d)'
  <2>1. Known(d)'
    BY <1>0 DEF Enable, Files, Stored, files, runner, history, TypeOK, Empty, Known
  <2>2. Kept(d)'
    BY <1>0 DEF Enable, Files, Stored, files, runner, history, TypeOK, Empty,
       Known, Kept, PutBack, Requeues
  <2>3. Counted(d)'
    BY <1>0 DEF Enable, Files, Stored, files, runner, history, TypeOK, Empty,
       Known, Kept, Counted, PutBack, Due, Requeues
  <2>4. Reported(d)'
    BY <1>0 DEF Enable, Files, Stored, files, runner, history, TypeOK, Empty,
       Known, Kept, Reported, Over, PutBack
  <2>. QED  BY <2>1, <2>2, <2>3, <2>4
<1>. QED  BY <1>1, <1>2, <1>4

LEMMA DisableStep ==
    ASSUME QueueInv, NEW t \in Trigger, Disable(t)
    PROVE  QueueInv'
<1>. USE TriggerAssumption DEF QueueInv
<1>0. \A d \in Delivery : InHand(d)' <=> InHand(d)
  BY DEF Disable, InHand, Files, TypeOK, Put, runner
<1>1. TypeOK'
  BY <1>0 DEF Disable, Files, Stored, Owned, files, runner, history, TypeOK, Known,
     Kept, Counted, PutBack, Verdict, Stage, Status, Attempts, TrigState, Requeues,
     Empty
<1>2. Control'
  BY <1>0 DEF Disable, Files, Stored, Owned, files, runner, history, TypeOK, Empty,
     Control
<1>4. ASSUME NEW d \in Delivery PROVE Known(d)' /\ Kept(d)' /\ Counted(d)' /\ Reported(d)'
  <2>1. Known(d)'
    BY <1>0 DEF Disable, Files, Stored, Owned, files, runner, history, TypeOK,
       Empty, Known
  <2>2. Kept(d)'
    BY <1>0 DEF Disable, Files, Stored, Owned, files, runner, history, TypeOK,
       Empty, Known, Kept, PutBack, Requeues
  <2>3. Counted(d)'
    BY <1>0 DEF Disable, Files, Stored, Owned, files, runner, history, TypeOK,
       Empty, Known, Kept, Counted, PutBack, Due, Requeues
  <2>4. Reported(d)'
    BY <1>0 DEF Disable, Files, Stored, Owned, files, runner, history, TypeOK,
       Empty, Known, Kept, Reported, Over, PutBack
  <2>. QED  BY <2>1, <2>2, <2>3, <2>4
<1>. QED  BY <1>1, <1>2, <1>4

LEMMA DeleteStep ==
    ASSUME QueueInv, NEW t \in Trigger, Delete(t)
    PROVE  QueueInv'
<1>. USE TriggerAssumption DEF QueueInv
<1>0. \A d \in Delivery : InHand(d)' <=> InHand(d)
  BY DEF Delete, InHand, Files, TypeOK, Put, runner
<1>1. TypeOK'
  BY <1>0 DEF Delete, Files, Stored, Owned, Without, files, runner, history,
     TypeOK, Known, Kept, Counted, PutBack, Verdict, Stage, Status, Attempts,
     TrigState, Requeues, Empty
<1>2. Control'
  BY <1>0 DEF Delete, Files, Stored, Owned, Without, files, runner, history,
     TypeOK, Empty, Control
<1>4. ASSUME NEW d \in Delivery PROVE Known(d)' /\ Kept(d)' /\ Counted(d)' /\ Reported(d)'
  <2>1. Known(d)'
    BY <1>0 DEF Delete, Files, Stored, Owned, Without, files, runner, history,
       TypeOK, Empty, Known
  <2>2. Kept(d)'
    BY <1>0 DEF Delete, Files, Stored, Owned, Without, files, runner, history,
       TypeOK, Empty, Known, Kept, PutBack, Requeues
  <2>3. Counted(d)'
    BY <1>0 DEF Delete, Files, Stored, Owned, Without, files, runner, history,
       TypeOK, Empty, Known, Kept, Counted, PutBack, Due, Requeues
  <2>4. Reported(d)'
    BY <1>0 DEF Delete, Files, Stored, Owned, Without, files, runner, history,
       TypeOK, Empty, Known, Kept, Reported, Over, PutBack
  <2>. QED  BY <2>1, <2>2, <2>3, <2>4
<1>. QED  BY <1>1, <1>2, <1>4

LEMMA DeletePartlyStep ==
    ASSUME QueueInv, NEW t \in Trigger, DeletePartly(t)
    PROVE  QueueInv'
<1>. USE TriggerAssumption DEF QueueInv
<1>0. \A d \in Delivery : InHand(d)' <=> InHand(d)
  BY DEF DeletePartly, InHand, Files, TypeOK, Put, runner
<1>1. TypeOK'
  <2>1. PICK I \in SUBSET Delivery, P \in SUBSET Delivery, F \in SUBSET Delivery :
          /\ inbox' = Without(inbox, I)
          /\ processing' = Without(processing, P)
          /\ failed' = Without(failed, F)
    BY DEF DeletePartly, Owned
  <2>2. /\ inbox' \in [Delivery -> (0..MaxAttempts - 1) \cup {NoFile}]
        /\ processing' \in [Delivery -> (0..MaxAttempts - 1) \cup {NoFile}]
        /\ failed' \in [Delivery -> {MaxAttempts, NoFile}]
    BY <2>1 DEF Without, TypeOK
  <2>. QED  BY <2>2 DEF DeletePartly, TypeOK, TrigState, runner
<1>2. Control'
  BY <1>0 DEF DeletePartly, Files, Stored, Owned, Without, files, runner, history,
     TypeOK, Empty, Control
<1>4. ASSUME NEW d \in Delivery PROVE Known(d)' /\ Kept(d)' /\ Counted(d)' /\ Reported(d)'
  <2>1. Known(d)'
    BY <1>0 DEF DeletePartly, Files, Stored, Owned, Without, files, runner,
       history, TypeOK, Empty, Known
  <2>2. Kept(d)'
    BY <1>0 DEF DeletePartly, Files, Stored, Owned, Without, files, runner,
       history, TypeOK, Empty, Known, Kept, PutBack, Requeues
  <2>3. Counted(d)'
    BY <1>0 DEF DeletePartly, Files, Stored, Owned, Without, files, runner,
       history, TypeOK, Empty, Known, Kept, Counted, PutBack, Due, Requeues
  <2>4. Reported(d)'
    BY <1>0 DEF DeletePartly, Files, Stored, Owned, Without, files, runner,
       history, TypeOK, Empty, Known, Kept, Reported, Over, PutBack
  <2>. QED  BY <2>1, <2>2, <2>3, <2>4
<1>. QED  BY <1>1, <1>2, <1>4

LEMMA EnqueueStep ==
    ASSUME QueueInv, NEW e \in Delivery, Enqueue(e)
    PROVE  QueueInv'
<1>. USE TriggerAssumption DEF QueueInv
<1>0. \A d \in Delivery : InHand(d)' <=> InHand(d)
  BY DEF Enqueue, InHand, Files, TypeOK, Put, runner
<1>1. TypeOK'
  BY <1>0 DEF Enqueue, Files, Stored, Put, files, runner, history, TypeOK, Known,
     Kept, Counted, PutBack, Verdict, Stage, Status, Attempts, TrigState, Requeues,
     Empty
<1>2. Control'
  BY <1>0 DEF Enqueue, Files, Stored, Put, files, runner, history, TypeOK, Empty,
     Control
<1>4. ASSUME NEW d \in Delivery PROVE Known(d)' /\ Kept(d)' /\ Counted(d)' /\ Reported(d)'
  <2>1. Known(d)'
    BY <1>0 DEF Enqueue, Files, Stored, Put, files, runner, history, TypeOK, Empty,
       Known
  <2>2. Kept(d)'
    BY <1>0 DEF Enqueue, Files, Stored, Put, files, runner, history, TypeOK, Empty,
       Known, Kept, PutBack, Requeues
  <2>3. Counted(d)'
    BY <1>0 DEF Enqueue, Files, Stored, Put, files, runner, history, TypeOK, Empty,
       Known, Kept, Counted, PutBack, Due, Requeues
  <2>4. Reported(d)'
    BY <1>0 DEF Enqueue, Files, Stored, Put, files, runner, history, TypeOK, Empty,
       Known, Kept, Reported, Over, PutBack
  <2>. QED  BY <2>1, <2>2, <2>3, <2>4
<1>. QED  BY <1>1, <1>2, <1>4

LEMMA StartStep ==
    ASSUME QueueInv, Start
    PROVE  QueueInv'
<1>. USE TriggerAssumption DEF QueueInv
<1>0. \A d \in Delivery : InHand(d)' <=> InHand(d)
  BY DEF Start, InHand, Files, TypeOK, Put, runner
<1>1. TypeOK'
  BY <1>0 DEF Start, Files, Stored, files, runner, history, TypeOK, Known, Kept,
     Counted, PutBack, Verdict, Stage, Status, Attempts, TrigState, Requeues, Empty
<1>2. Control'
  BY <1>0 DEF Start, Files, Stored, files, runner, history, TypeOK, Empty, Control
<1>4. ASSUME NEW d \in Delivery PROVE Known(d)' /\ Kept(d)' /\ Counted(d)' /\ Reported(d)'
  <2>1. Known(d)'
    BY <1>0 DEF Start, Files, Stored, files, runner, history, TypeOK, Empty, Known
  <2>2. Kept(d)'
    BY <1>0 DEF Start, Files, Stored, files, runner, history, TypeOK, Empty, Known,
       Kept, PutBack, Requeues
  <2>3. Counted(d)'
    BY <1>0 DEF Start, Files, Stored, files, runner, history, TypeOK, Empty, Known,
       Kept, Counted, PutBack, Due, Requeues
  <2>4. Reported(d)'
    BY <1>0 DEF Start, Files, Stored, files, runner, history, TypeOK, Empty, Known,
       Kept, Reported, Over, PutBack
  <2>. QED  BY <2>1, <2>2, <2>3, <2>4
<1>. QED  BY <1>1, <1>2, <1>4

LEMMA RecoverStep ==
    ASSUME QueueInv, NEW e \in Delivery, Recover(e)
    PROVE  QueueInv'
<1>. USE TriggerAssumption DEF QueueInv
<1>n. /\ processing[e] \in 0..(MaxAttempts - 1) /\ processing[e] # NoFile
      /\ processing[e] + 1 \in 1..MaxAttempts /\ processing[e] + 1 # NoFile
      /\ pc = "recover" /\ held = Empty
  BY DEF Recover, Files, TypeOK, Control
<1>f. /\ processing' = [processing EXCEPT ![e] = NoFile]
      /\ inbox' = IF Requeues(processing[e])
                  THEN [inbox EXCEPT ![e] = processing[e] + 1] ELSE inbox
      /\ failed' = IF Requeues(processing[e])
                   THEN failed ELSE [failed EXCEPT ![e] = processing[e] + 1]
      /\ UNCHANGED <<trig, record, reported, pc, held, verdict, exits,
                     enqueued, turns, answered, refused>>
  BY DEF Recover, Retry, Put, Without, TypeOK, runner, history
<1>0. \A d \in Delivery : held'[d] = NoFile /\ held[d] = NoFile /\ ~InHand(d)'
  BY <1>f, <1>n DEF InHand, Empty, Files
<1>1. TypeOK'
  <2>1. failed' \in [Delivery -> {MaxAttempts, NoFile}]
    <3>1. CASE Requeues(processing[e])
      BY <3>1, <1>f DEF TypeOK
    <3>2. CASE ~Requeues(processing[e])
      <4>1. processing[e] + 1 = MaxAttempts
        BY <3>2, <1>n DEF Requeues
      <4>. QED  BY <3>2, <4>1, <1>f DEF TypeOK
    <3>. QED  BY <3>1, <3>2
  <2>2. inbox' \in [Delivery -> (0..MaxAttempts - 1) \cup {NoFile}]
    <3>1. CASE Requeues(processing[e])
      <4>1. processing[e] + 1 \in 0..MaxAttempts - 1
        BY <3>1, <1>n DEF Requeues
      <4>. QED  BY <3>1, <4>1, <1>f DEF TypeOK
    <3>2. CASE ~Requeues(processing[e])
      BY <3>2, <1>f DEF TypeOK
    <3>. QED  BY <3>1, <3>2
  <2>3. processing' \in [Delivery -> (0..MaxAttempts - 1) \cup {NoFile}]
    BY <1>f DEF TypeOK
  <2>. QED  BY <2>1, <2>2, <2>3, <1>f DEF TypeOK
<1>2. Control'
  BY <1>f DEF Control
<1>4. ASSUME NEW d \in Delivery PROVE Known(d)' /\ Kept(d)' /\ Counted(d)' /\ Reported(d)'
  <2>1. CASE d # e
    <3>1. inbox'[d] = inbox[d] /\ processing'[d] = processing[d] /\ failed'[d] = failed[d]
      BY <2>1, <1>f DEF TypeOK
    <3>2. d \in Stored' <=> d \in Stored
      BY <3>1 DEF Stored, Files
    <3>3. Known(d)' /\ Kept(d)' /\ Counted(d)'
      BY <3>1, <3>2, <1>0, <1>n, <1>f DEF Known, Kept, Counted
    <3>4. Reported(d)'
      BY <3>2, <1>0, <1>f DEF Reported, Over
    <3>. QED  BY <3>3, <3>4
  <2>2. CASE d = e
    <3>1. /\ processing'[e] = NoFile
          /\ inbox'[e] = IF Requeues(processing[e]) THEN processing[e] + 1 ELSE NoFile
          /\ failed'[e] = IF Requeues(processing[e]) THEN NoFile ELSE processing[e] + 1
      BY <1>f, <1>n DEF Kept, TypeOK
    <3>2. e \in Stored /\ e \in Stored'
      BY <3>1, <1>n DEF Stored, Files
    <3>3. Known(e)'
      BY <3>2, <1>f DEF Known
    <3>4. Kept(e)'
      BY <3>1, <3>2, <1>0, <1>f DEF Kept
    <3>5. Counted(e)'
      BY <3>1, <1>0, <1>f, <1>n DEF Counted, TypeOK
    <3>6. Reported(e)'
      BY <3>2, <1>0, <1>f DEF Reported, Over
    <3>. QED  BY <2>2, <3>3, <3>4, <3>5, <3>6
  <2>. QED  BY <2>1, <2>2
<1>. QED  BY <1>1, <1>2, <1>4

LEMMA RecoverCutStep ==
    ASSUME QueueInv, NEW e \in Delivery, RecoverCut(e)
    PROVE  QueueInv'
<1>. USE TriggerAssumption DEF QueueInv
<1>1. TypeOK'
  BY DEF RecoverCut, Files, Stored, RetryCut, Put, Exit, files, runner, history,
     TypeOK, Known, Kept, Counted, PutBack, Verdict, Stage, Status, Attempts,
     TrigState, Requeues, Empty
<1>2. Control'
  BY DEF RecoverCut, Files, Stored, RetryCut, Put, Exit, files, runner, history,
     TypeOK, Empty, Control
<1>4. ASSUME NEW d \in Delivery PROVE Known(d)' /\ Kept(d)' /\ Counted(d)' /\ Reported(d)'
  <2>1. Known(d)'
    BY DEF RecoverCut, Files, Stored, RetryCut, Put, Exit, files, runner, history,
       TypeOK, Empty, Known
  <2>2. Kept(d)'
    BY DEF RecoverCut, Files, Stored, RetryCut, Put, Exit, files, runner, history,
       TypeOK, Empty, Known, Kept, PutBack, Requeues
  <2>3. Counted(d)'
    BY DEF RecoverCut, Files, Stored, RetryCut, Put, Exit, files, runner, history,
       TypeOK, Empty, Known, Kept, Counted, PutBack, Due, Requeues
  <2>4. Reported(d)'
    BY DEF RecoverCut, Files, Stored, RetryCut, Put, Exit, files, runner, history,
       TypeOK, Empty, Known, Kept, Reported, Over, PutBack
  <2>. QED  BY <2>1, <2>2, <2>3, <2>4
<1>. QED  BY <1>1, <1>2, <1>4

LEMMA RecoveredStep ==
    ASSUME QueueInv, Recovered
    PROVE  QueueInv'
<1>. USE TriggerAssumption DEF QueueInv
<1>f. /\ pc = "recover" /\ pc' = "look"
      /\ UNCHANGED <<trig, inbox, processing, failed, record, reported, held, verdict, exits,
                     enqueued, turns, answered, refused>>
  BY DEF Recovered, files, history
<1>0. \A d \in Delivery :
         processing[d] = NoFile /\ held[d] = NoFile /\ ~InHand(d) /\ ~InHand(d)'
  BY <1>f DEF Recovered, Files, Control, Empty, InHand
<1>1. TypeOK'
  BY <1>f DEF TypeOK, Stage
<1>2. Control'
  BY <1>f DEF Control
<1>3. ASSUME NEW d \in Delivery PROVE Known(d)' /\ Kept(d)' /\ Counted(d)' /\ Reported(d)'
  <2>1. d \in Stored' <=> d \in Stored
    BY <1>f DEF Stored, Files
  <2>2. Known(d)' /\ Kept(d)' /\ Counted(d)'
    BY <2>1, <1>0, <1>f DEF Known, Kept, Counted
  <2>3. Reported(d)'
    BY <2>1, <1>0, <1>f DEF Reported, Over
  <2>. QED  BY <2>2, <2>3
<1>. QED  BY <1>1, <1>2, <1>3

LEMMA ClaimStep ==
    ASSUME QueueInv, Claim
    PROVE  QueueInv'
<1>. USE TriggerAssumption DEF QueueInv
<1>1. TypeOK'
  BY DEF Claim, Files, Stored, Without, Taken, files, runner, history, TypeOK,
     Known, Kept, Counted, PutBack, Verdict, Stage, Status, Attempts, TrigState,
     Requeues, Empty
<1>2. Control'
  BY DEF Claim, Files, Stored, Without, Taken, files, runner, history, TypeOK,
     Empty, Control
<1>4. ASSUME NEW d \in Delivery PROVE Known(d)' /\ Kept(d)' /\ Counted(d)' /\ Reported(d)'
  <2>1. Known(d)'
    BY DEF Claim, Files, Stored, Without, Taken, files, runner, history, TypeOK,
       Empty, Known
  <2>2. Kept(d)'
    BY DEF Claim, Files, Stored, Without, Taken, files, runner, history, TypeOK,
       Empty, Known, Kept, PutBack, Requeues
  <2>3. Counted(d)'
    BY DEF Claim, Files, Stored, Without, Taken, files, runner, history, TypeOK,
       Empty, Known, Kept, Counted, PutBack, Due, Requeues
  <2>4. Reported(d)'
    BY DEF Claim, Files, Stored, Without, Taken, files, runner, history, TypeOK,
       Empty, Known, Kept, Reported, Over, PutBack
  <2>. QED  BY <2>1, <2>2, <2>3, <2>4
<1>. QED  BY <1>1, <1>2, <1>4

LEMMA ClaimCutStep ==
    ASSUME QueueInv, ClaimCut
    PROVE  QueueInv'
<1>. USE TriggerAssumption DEF QueueInv
<1>1. TypeOK'
  BY DEF ClaimCut, Files, Stored, Without, Taken, Exit, files, runner, history,
     TypeOK, Known, Kept, Counted, PutBack, Verdict, Stage, Status, Attempts,
     TrigState, Requeues, Empty
<1>2. Control'
  BY DEF ClaimCut, Files, Stored, Without, Taken, Exit, files, runner, history,
     TypeOK, Empty, Control
<1>4. ASSUME NEW d \in Delivery PROVE Known(d)' /\ Kept(d)' /\ Counted(d)' /\ Reported(d)'
  <2>1. Known(d)'
    BY DEF ClaimCut, Files, Stored, Without, Taken, Exit, files, runner, history,
       TypeOK, Empty, Known
  <2>2. Kept(d)'
    BY DEF ClaimCut, Files, Stored, Without, Taken, Exit, files, runner, history,
       TypeOK, Empty, Known, Kept, PutBack, Requeues
  <2>3. Counted(d)'
    BY DEF ClaimCut, Files, Stored, Without, Taken, Exit, files, runner, history,
       TypeOK, Empty, Known, Kept, Counted, PutBack, Due, Requeues
  <2>4. Reported(d)'
    BY DEF ClaimCut, Files, Stored, Without, Taken, Exit, files, runner, history,
       TypeOK, Empty, Known, Kept, Reported, Over, PutBack
  <2>. QED  BY <2>1, <2>2, <2>3, <2>4
<1>. QED  BY <1>1, <1>2, <1>4

LEMMA LookStep ==
    ASSUME QueueInv, NEW e \in Delivery, Look(e)
    PROVE  QueueInv'
<1>. USE TriggerAssumption DEF QueueInv
<1>h. /\ \A d \in Delivery : InHand(d) => d = e
      /\ held[e] # NoFile /\ InHand(e)
  BY OneInHand DEF Look, InHand, Files
<1>f. /\ pc = "look"
      /\ IF trig[Owner[e]] = "enabled" THEN pc' = "submit" /\ verdict' = verdict
         ELSE pc' = "record" /\ verdict' = "error"
      /\ UNCHANGED <<trig, inbox, processing, failed, record, reported, held, exits,
                     enqueued, turns, answered, refused>>
  BY DEF Look, files, history
<1>0. \A d \in Delivery : InHand(d)' <=> InHand(d)
  BY <1>f DEF InHand, Files
<1>1. TypeOK'
  BY <1>f DEF TypeOK, Stage, Verdict
<1>2. Control'
  BY <1>f DEF Control
<1>4. ASSUME NEW d \in Delivery PROVE Known(d)' /\ Kept(d)' /\ Counted(d)' /\ Reported(d)'
  <2>1. d \in Stored' <=> d \in Stored
    BY <1>f DEF Stored, Files
  <2>2. Known(d)'
    BY <2>1, <1>f DEF Known
  <2>3. Kept(d)'
    BY <2>1, <1>f, <1>0 DEF Kept, PutBack
  <2>4. Counted(d)'
    BY <1>f, <1>0 DEF Counted, PutBack, Due
  <2>5. Reported(d)'
    <3>1. CASE trig[Owner[e]] = "enabled"
      BY <3>1, <2>1, <1>f DEF Reported, Over
    <3>2. CASE trig[Owner[e]] # "enabled"
      <4>1. e \in refused
        BY <3>2, <1>h DEF Known
      <4>. QED  BY <3>2, <4>1, <2>1, <1>0, <1>h, <1>f DEF Reported, Over
    <3>. QED  BY <3>1, <3>2
  <2>. QED  BY <2>2, <2>3, <2>4, <2>5
<1>. QED  BY <1>1, <1>2, <1>4

LEMMA SubmitTurnStep ==
    ASSUME QueueInv, NEW e \in Delivery, SubmitTurn(e)
    PROVE  QueueInv'
<1>. USE TriggerAssumption DEF QueueInv
<1>h. /\ \A d \in Delivery : InHand(d) => d = e
      /\ held[e] # NoFile /\ InHand(e)
  BY OneInHand DEF SubmitTurn, InHand, Files
<1>n. /\ held[e] \in 0..(MaxAttempts - 1) /\ turns[e] \in Nat /\ turns[e] <= held[e]
      /\ inbox[e] = NoFile /\ processing[e] \in {NoFile, held[e]}
      /\ e \in enqueued
  BY <1>h DEF SubmitTurn, PutBack, Due, Kept, Known, Counted, TypeOK, Attempts
<1>f. /\ pc = "submit" /\ pc' = "await"
      /\ record' = [record EXCEPT ![e] = "processing"]
      /\ turns' = [turns EXCEPT ![e] = turns[e] + 1]
      /\ UNCHANGED <<trig, inbox, processing, failed, reported, held, verdict, exits,
                     enqueued, answered, refused>>
  BY DEF SubmitTurn, files
<1>0. \A d \in Delivery : InHand(d)' <=> InHand(d)
  BY <1>f DEF InHand, Files
<1>1. TypeOK'
  BY <1>f DEF TypeOK, Stage, Status
<1>2. Control'
  BY <1>f DEF Control
<1>4. ASSUME NEW d \in Delivery PROVE Known(d)' /\ Kept(d)' /\ Counted(d)' /\ Reported(d)'
  <2>1. d \in Stored' <=> d \in Stored
    BY <1>f DEF Stored, Files
  <2>2. turns'[d] = IF d = e THEN turns[e] + 1 ELSE turns[d]
    BY <1>f DEF TypeOK
  <2>3. Known(d)'
    BY <2>1, <2>2, <1>n, <1>f DEF Known
  <2>4. Kept(d)'
    BY <2>1, <1>f, <1>0 DEF Kept, PutBack
  <2>5. Counted(d)'
    <3>1. CASE d = e
      BY <3>1, <2>2, <1>n, <1>f, <1>h, <1>0 DEF Counted, Due, PutBack
    <3>2. CASE d # e
      BY <3>2, <2>2, <1>h, <1>f, <1>0 DEF Counted, Due, PutBack
    <3>. QED  BY <3>1, <3>2
  <2>6. Reported(d)'
    BY <2>1, <1>f DEF Reported, Over, TypeOK
  <2>. QED  BY <2>3, <2>4, <2>5, <2>6
<1>. QED  BY <1>1, <1>2, <1>4

LEMMA TurnEndsStep ==
    ASSUME QueueInv, NEW e \in Delivery, TurnEnds(e)
    PROVE  QueueInv'
<1>. USE TriggerAssumption DEF QueueInv
<1>0. \A d \in Delivery : InHand(d)' <=> InHand(d)
  BY DEF TurnEnds, InHand, Files, TypeOK, Put, runner
<1>h. \A d \in Delivery : InHand(d) => d = e
  BY OneInHand DEF TurnEnds
<1>1. TypeOK'
  BY <1>0, <1>h DEF TurnEnds, Files, Stored, files, runner, history, TypeOK, Known,
     Kept, Counted, PutBack, Verdict, Stage, Status, Attempts, TrigState, Requeues,
     Empty
<1>2. Control'
  BY <1>0, <1>h DEF TurnEnds, Files, Stored, files, runner, history, TypeOK, Empty,
     Control
<1>4. ASSUME NEW d \in Delivery PROVE Known(d)' /\ Kept(d)' /\ Counted(d)' /\ Reported(d)'
  <2>1. Known(d)'
    BY <1>0, <1>h DEF TurnEnds, Files, Stored, files, runner, history, TypeOK,
       Empty, Known
  <2>2. Kept(d)'
    BY <1>0, <1>h DEF TurnEnds, Files, Stored, files, runner, history, TypeOK,
       Empty, Known, Kept, PutBack, Requeues
  <2>3. Counted(d)'
    BY <1>0, <1>h DEF TurnEnds, Files, Stored, files, runner, history, TypeOK,
       Empty, Known, Kept, Counted, PutBack, Due, Requeues
  <2>4. Reported(d)'
    BY <1>0, <1>h DEF TurnEnds, Files, Stored, files, runner, history, TypeOK,
       Empty, Known, Kept, Reported, Over, PutBack
  <2>. QED  BY <2>1, <2>2, <2>3, <2>4
<1>. QED  BY <1>1, <1>2, <1>4

LEMMA RaisesStep ==
    ASSUME QueueInv, NEW e \in Delivery, Raises(e)
    PROVE  QueueInv'
<1>. USE TriggerAssumption DEF QueueInv
<1>0. \A d \in Delivery : InHand(d)' <=> InHand(d)
  BY DEF Raises, InHand, Files, TypeOK, Put, runner
<1>h. \A d \in Delivery : InHand(d) => d = e
  BY OneInHand DEF Raises
<1>1. TypeOK'
  BY <1>0, <1>h DEF Raises, Files, Stored, files, runner, history, TypeOK, Known,
     Kept, Counted, PutBack, Verdict, Stage, Status, Attempts, TrigState, Requeues,
     Empty
<1>2. Control'
  BY <1>0, <1>h DEF Raises, Files, Stored, files, runner, history, TypeOK, Empty,
     Control
<1>4. ASSUME NEW d \in Delivery PROVE Known(d)' /\ Kept(d)' /\ Counted(d)' /\ Reported(d)'
  <2>1. Known(d)'
    BY <1>0, <1>h DEF Raises, Files, Stored, files, runner, history, TypeOK, Empty,
       Known
  <2>2. Kept(d)'
    BY <1>0, <1>h DEF Raises, Files, Stored, files, runner, history, TypeOK, Empty,
       Known, Kept, PutBack, Requeues
  <2>3. Counted(d)'
    BY <1>0, <1>h DEF Raises, Files, Stored, files, runner, history, TypeOK, Empty,
       Known, Kept, Counted, PutBack, Due, Requeues
  <2>4. Reported(d)'
    BY <1>0, <1>h DEF Raises, Files, Stored, files, runner, history, TypeOK, Empty,
       Known, Kept, Reported, Over, PutBack
  <2>. QED  BY <2>1, <2>2, <2>3, <2>4
<1>. QED  BY <1>1, <1>2, <1>4

LEMMA InterruptStep ==
    ASSUME QueueInv, NEW e \in Delivery, Interrupt(e)
    PROVE  QueueInv'
<1>. USE TriggerAssumption DEF QueueInv
<1>0. \A d \in Delivery : InHand(d)' <=> InHand(d)
  BY DEF Interrupt, InHand, Files, TypeOK, Put, runner
<1>h. \A d \in Delivery : InHand(d) => d = e
  BY OneInHand DEF Interrupt
<1>1. TypeOK'
  BY <1>0, <1>h DEF Interrupt, Files, Stored, files, runner, history, TypeOK,
     Known, Kept, Counted, PutBack, Verdict, Stage, Status, Attempts, TrigState,
     Requeues, Empty
<1>2. Control'
  BY <1>0, <1>h DEF Interrupt, Files, Stored, files, runner, history, TypeOK,
     Empty, Control
<1>4. ASSUME NEW d \in Delivery PROVE Known(d)' /\ Kept(d)' /\ Counted(d)' /\ Reported(d)'
  <2>1. Known(d)'
    BY <1>0, <1>h DEF Interrupt, Files, Stored, files, runner, history, TypeOK,
       Empty, Known
  <2>2. Kept(d)'
    BY <1>0, <1>h DEF Interrupt, Files, Stored, files, runner, history, TypeOK,
       Empty, Known, Kept, PutBack, Requeues
  <2>3. Counted(d)'
    BY <1>0, <1>h DEF Interrupt, Files, Stored, files, runner, history, TypeOK,
       Empty, Known, Kept, Counted, PutBack, Due, Requeues
  <2>4. Reported(d)'
    BY <1>0, <1>h DEF Interrupt, Files, Stored, files, runner, history, TypeOK,
       Empty, Known, Kept, Reported, Over, PutBack
  <2>. QED  BY <2>1, <2>2, <2>3, <2>4
<1>. QED  BY <1>1, <1>2, <1>4

LEMMA RetryDeliveryStep ==
    ASSUME QueueInv, NEW e \in Delivery, RetryDelivery(e)
    PROVE  QueueInv'
<1>. USE TriggerAssumption DEF QueueInv
<1>h. \A d \in Delivery : InHand(d) => d = e
  BY OneInHand DEF RetryDelivery
<1>n. /\ held[e] \in 0..(MaxAttempts - 1) /\ held[e] # NoFile /\ ~PutBack(e)
      /\ held[e] + 1 \in 1..MaxAttempts /\ held[e] + 1 # NoFile
  BY DEF RetryDelivery, PutBack, InHand, Files, Kept, TypeOK, Attempts
<1>f. /\ held' = [held EXCEPT ![e] = held[e] + 1]
      /\ processing' = [processing EXCEPT ![e] = NoFile]
      /\ inbox' = IF Requeues(held[e]) THEN [inbox EXCEPT ![e] = held[e] + 1] ELSE inbox
      /\ failed' = IF Requeues(held[e]) THEN failed ELSE [failed EXCEPT ![e] = held[e] + 1]
      /\ pc = "retry" /\ pc' = "audit" /\ InHand(e)
      /\ UNCHANGED <<trig, record, reported, verdict, exits, enqueued, turns, answered, refused>>
  BY DEF RetryDelivery, Retry, Put, Without, TypeOK, history
<1>0. \A d \in Delivery : InHand(d)' <=> InHand(d)
  <2>1. Files(held)' = Files(held)
    BY <1>f, <1>n DEF Files, TypeOK
  <2>2. \A d \in Delivery : held'[d] # NoFile <=> held[d] # NoFile
    BY <1>f, <1>n DEF TypeOK
  <2>. QED  BY <2>1, <2>2 DEF InHand
<1>1. TypeOK'
  <2>1. failed' \in [Delivery -> {MaxAttempts, NoFile}]
    <3>1. CASE Requeues(held[e])
      BY <3>1, <1>f DEF TypeOK
    <3>2. CASE ~Requeues(held[e])
      <4>1. held[e] + 1 = MaxAttempts
        BY <3>2, <1>n DEF Requeues
      <4>. QED  BY <3>2, <4>1, <1>f DEF TypeOK
    <3>. QED  BY <3>1, <3>2
  <2>2. inbox' \in [Delivery -> (0..MaxAttempts - 1) \cup {NoFile}]
    <3>1. CASE Requeues(held[e])
      <4>1. held[e] + 1 \in 0..MaxAttempts - 1
        BY <3>1, <1>n DEF Requeues
      <4>. QED  BY <3>1, <4>1, <1>f DEF TypeOK
    <3>2. CASE ~Requeues(held[e])
      BY <3>2, <1>f DEF TypeOK
    <3>. QED  BY <3>1, <3>2
  <2>3. /\ processing' \in [Delivery -> (0..MaxAttempts - 1) \cup {NoFile}]
        /\ held' \in [Delivery -> Attempts \cup {NoFile}]
    BY <1>f, <1>n DEF TypeOK, Attempts
  <2>4. pc' \in Stage
    BY <1>f DEF Stage
  <2>. QED  BY <2>1, <2>2, <2>3, <2>4, <1>f DEF TypeOK
<1>2. Control'
  BY <1>f DEF Control
<1>4. ASSUME NEW d \in Delivery PROVE Known(d)' /\ Kept(d)' /\ Counted(d)' /\ Reported(d)'
  <2>1. CASE d # e
    <3>1. /\ inbox'[d] = inbox[d] /\ processing'[d] = processing[d]
          /\ failed'[d] = failed[d] /\ held'[d] = held[d]
          /\ ~InHand(d) /\ ~InHand(d)'
      BY <2>1, <1>f, <1>h, <1>0 DEF TypeOK
    <3>2. d \in Stored' <=> d \in Stored
      BY <3>1 DEF Stored, Files
    <3>3. Known(d)'
      BY <3>1, <3>2, <1>f DEF Known
    <3>4. Kept(d)'
      BY <3>1, <3>2, <1>f DEF Kept, PutBack
    <3>5. Counted(d)'
      BY <3>1, <1>f DEF Counted, PutBack, Due
    <3>6. Reported(d)'
      BY <3>1, <3>2, <1>f DEF Reported, Over
    <3>. QED  BY <3>3, <3>4, <3>5, <3>6
  <2>2. CASE d = e
    <3>1. /\ processing'[e] = NoFile /\ held'[e] = held[e] + 1 /\ InHand(e)'
          /\ inbox'[e] = IF Requeues(held[e]) THEN held[e] + 1 ELSE NoFile
          /\ failed'[e] = IF Requeues(held[e]) THEN NoFile ELSE held[e] + 1
      BY <1>f, <1>n, <1>0 DEF Kept, TypeOK
    <3>2. e \in Stored'
      BY <3>1, <1>n DEF Stored, Files
    <3>3. verdict \in {"raised", "interrupted"} => PutBack(e)'
      BY <3>1, <1>f DEF PutBack
    <3>4. verdict \in {"raised", "interrupted"}
      BY <1>f DEF Control
    <3>5. Known(e)'
      BY <3>1, <3>2, <1>f, <1>n DEF Known
    <3>6. Kept(e)'
      BY <3>1, <3>2, <3>3, <3>4, <1>f, <1>n DEF Kept
    <3>7. Counted(e)'
      BY <3>1, <1>f, <1>n DEF Counted, TypeOK
    <3>8. Reported(e)'
      BY <3>1, <3>2, <3>4, <1>f DEF Reported, Over
    <3>. QED  BY <2>2, <3>5, <3>6, <3>7, <3>8
  <2>. QED  BY <2>1, <2>2
<1>. QED  BY <1>1, <1>2, <1>4

LEMMA RetryDeliveryCutStep ==
    ASSUME QueueInv, NEW e \in Delivery, RetryDeliveryCut(e)
    PROVE  QueueInv'
<1>. USE TriggerAssumption DEF QueueInv
<1>n. /\ held[e] \in 0..(MaxAttempts - 1) /\ held[e] # NoFile /\ ~PutBack(e)
      /\ held[e] + 1 \in 1..MaxAttempts /\ held[e] + 1 # NoFile
      /\ pc = "retry"
  BY DEF RetryDeliveryCut, PutBack, InHand, Files, Kept, TypeOK, Attempts
<1>f. /\ held' = Empty /\ pc' = "down" /\ verdict' = "ok" /\ exits' \in 0..ExitLimit
      /\ inbox' = IF Requeues(held[e]) THEN [inbox EXCEPT ![e] = held[e] + 1] ELSE inbox
      /\ failed' = IF Requeues(held[e]) THEN failed ELSE [failed EXCEPT ![e] = held[e] + 1]
      /\ UNCHANGED <<trig, processing, record, reported, enqueued, turns, answered, refused>>
  BY DEF RetryDeliveryCut, RetryCut, Put, Exit, TypeOK, history
<1>0. \A d \in Delivery : held'[d] = NoFile /\ ~InHand(d)'
  BY <1>f DEF InHand, Empty, Files
<1>1. TypeOK'
  <2>1. failed' \in [Delivery -> {MaxAttempts, NoFile}]
    <3>1. CASE Requeues(held[e])
      BY <3>1, <1>f DEF TypeOK
    <3>2. CASE ~Requeues(held[e])
      <4>1. held[e] + 1 = MaxAttempts
        BY <3>2, <1>n DEF Requeues
      <4>. QED  BY <3>2, <4>1, <1>f DEF TypeOK
    <3>. QED  BY <3>1, <3>2
  <2>2. inbox' \in [Delivery -> (0..MaxAttempts - 1) \cup {NoFile}]
    <3>1. CASE Requeues(held[e])
      <4>1. held[e] + 1 \in 0..MaxAttempts - 1
        BY <3>1, <1>n DEF Requeues
      <4>. QED  BY <3>1, <4>1, <1>f DEF TypeOK
    <3>2. CASE ~Requeues(held[e])
      BY <3>2, <1>f DEF TypeOK
    <3>. QED  BY <3>1, <3>2
  <2>3. held' \in [Delivery -> Attempts \cup {NoFile}] /\ pc' \in Stage /\ verdict' \in Verdict
    BY <1>f DEF Attempts, Empty, Stage, Verdict
  <2>. QED  BY <2>1, <2>2, <2>3, <1>f DEF TypeOK
<1>2. Control'
  BY <1>f DEF Control
<1>4. ASSUME NEW d \in Delivery PROVE Known(d)' /\ Kept(d)' /\ Counted(d)' /\ Reported(d)'
  <2>1. CASE d # e
    <3>1. inbox'[d] = inbox[d] /\ processing'[d] = processing[d] /\ failed'[d] = failed[d]
      BY <2>1, <1>f DEF TypeOK
    <3>2. d \in Stored' <=> d \in Stored
      BY <3>1 DEF Stored, Files
    <3>3. Known(d)' /\ Kept(d)' /\ Counted(d)'
      BY <3>1, <3>2, <1>0, <1>f DEF Known, Kept, Counted
    <3>4. Reported(d)'
      BY <3>2, <1>0, <1>f DEF Reported, Over
    <3>. QED  BY <3>3, <3>4
  <2>2. CASE d = e
    <3>1. /\ processing'[e] \in {NoFile, held[e]}
          /\ inbox'[e] = IF Requeues(held[e]) THEN held[e] + 1 ELSE NoFile
          /\ failed'[e] = IF Requeues(held[e]) THEN NoFile ELSE held[e] + 1
      BY <1>f, <1>n DEF Kept, TypeOK
    <3>2. e \in Stored'
      BY <3>1, <1>n DEF Stored, Files
    <3>3. Known(e)'
      BY <3>2, <1>f, <1>n DEF Known
    <3>4. Kept(e)'
      BY <3>1, <3>2, <1>0, <1>f DEF Kept
    <3>5. Counted(e)'
      BY <3>1, <1>0, <1>f, <1>n DEF Counted, TypeOK
    <3>6. Reported(e)'
      BY <3>2, <1>0, <1>f DEF Reported, Over
    <3>. QED  BY <2>2, <3>3, <3>4, <3>5, <3>6
  <2>. QED  BY <2>1, <2>2
<1>. QED  BY <1>1, <1>2, <1>4

LEMMA RecordDeliveryStep ==
    ASSUME QueueInv, NEW e \in Delivery, RecordDelivery(e)
    PROVE  QueueInv'
<1>. USE TriggerAssumption DEF QueueInv
<1>h. /\ \A d \in Delivery : InHand(d) => d = e
      /\ held[e] # NoFile /\ InHand(e)
  BY OneInHand DEF RecordDelivery, InHand, Files
<1>f. /\ pc = "record"
      /\ reported' = IF trig[Owner[e]] = "deleted" THEN reported ELSE reported \cup {e}
      /\ IF verdict = "raised" THEN NextInBatch(e)
         ELSE pc' = "audit" /\ UNCHANGED <<held, verdict>>
      /\ UNCHANGED <<trig, inbox, processing, failed, record, exits,
                     enqueued, turns, answered, refused>>
  BY DEF RecordDelivery, files, history
<1>l. /\ reported' \in SUBSET Delivery /\ reported \subseteq reported'
      /\ trig[Owner[e]] = "deleted" \/ e \in reported'
  BY <1>f DEF TypeOK
<1>o. Owner \in [Delivery -> Trigger]
  BY DEF TriggerAssumption
<1>1. CASE verdict = "raised"
  <2>n. NextInBatch(e) /\ PutBack(e)
    BY <1>1, <1>f, <1>h DEF PutBack
  <2>1. TypeOK'
    BY <1>f, <1>l, <2>n, NextInHand DEF TypeOK, Stage, Verdict
  <2>2. Control'
    BY <2>n, NextInHand DEF Control
  <2>3. Known(e)' /\ Kept(e)' /\ Counted(e)' /\ Reported(e)'
    <3>1. /\ held'[e] = NoFile /\ ~InHand(e)' /\ pc' = "look" /\ processing[e] = NoFile
      BY <2>n, <1>f, NextInHand DEF TypeOK, Kept
    <3>2. e \in Stored' <=> e \in Stored
      BY <1>f DEF Stored, Files
    <3>3. Known(e)' /\ Kept(e)' /\ Counted(e)'
      BY <3>1, <3>2, <1>f DEF Known, Kept, Counted
    <3>4. Reported(e)'
      BY <3>1, <3>2, <1>f, <1>l, <1>o DEF Reported, Over
    <3>. QED  BY <3>3, <3>4
  <2>4. ASSUME NEW d \in Delivery, d # e
        PROVE  Known(d)' /\ Kept(d)' /\ Counted(d)' /\ Reported(d)'
    <3>1. d \in reported => d \in reported'
      BY <1>l, <1>o
    <3>. QED  BY <3>1, <2>4, <2>n, <1>f, <1>h, Remaining
  <2>. QED  BY <2>1, <2>2, <2>3, <2>4
<1>2. CASE verdict # "raised"
  <2>n. pc' = "audit" /\ UNCHANGED <<held, verdict>>
    BY <1>2, <1>f
  <2>0. \A d \in Delivery : InHand(d)' <=> InHand(d)
    BY <2>n DEF InHand, Files
  <2>1. TypeOK'
    BY <1>f, <1>l, <2>n DEF TypeOK, Stage
  <2>2. Control'
    BY <2>n DEF Control
  <2>3. Known(e)' /\ Kept(e)' /\ Counted(e)' /\ Reported(e)'
    <3>2. e \in Stored' <=> e \in Stored
      BY <1>f DEF Stored, Files
    <3>3. Known(e)'
      BY <3>2, <1>f, <2>n DEF Known
    <3>4. PutBack(e)' <=> PutBack(e)
      BY <2>0, <2>n, <1>f DEF PutBack
    <3>5. Kept(e)'
      BY <3>2, <3>4, <2>n, <1>f DEF Kept
    <3>6. Counted(e)'
      BY <3>4, <2>n, <2>0, <1>h, <1>f DEF Counted, Due
    <3>7. Reported(e)'
      BY <3>2, <2>0, <2>n, <1>f, <1>l, <1>o DEF Reported, Over
    <3>. QED  BY <3>3, <3>5, <3>6, <3>7
  <2>4. ASSUME NEW d \in Delivery, d # e
        PROVE  Known(d)' /\ Kept(d)' /\ Counted(d)' /\ Reported(d)'
    <3>1. d \in reported => d \in reported'
      BY <1>l, <1>o
    <3>2. ~InHand(d) /\ ~InHand(d)'
      BY <2>4, <2>0, <1>h
    <3>. QED  BY <3>1, <3>2, <2>n, <1>f, Untouched
  <2>. QED  BY <2>1, <2>2, <2>3, <2>4
<1>. QED  BY <1>1, <1>2

LEMMA AuditStep ==
    ASSUME QueueInv, NEW e \in Delivery, Audit(e)
    PROVE  QueueInv'
<1>. USE TriggerAssumption DEF QueueInv
<1>h. /\ \A d \in Delivery : InHand(d) => d = e
      /\ held[e] # NoFile /\ InHand(e)
  BY OneInHand DEF Audit, InHand, Files
<1>f. /\ pc = "audit"
      /\ record' \in {record, [record EXCEPT ![e] = AuditStatus(e)]}
      /\ UNCHANGED <<trig, inbox, processing, failed, reported,
                     enqueued, turns, answered, refused>>
  BY DEF Audit, files, history
<1>r. /\ record' \in [Delivery -> Status]
      /\ \A d \in Delivery : record'[d] = "ok" => d \in answered
      /\ \A d \in Delivery : d # e => record'[d] = record[d]
  <2>1. AuditStatus(e) \in Status
    BY DEF AuditStatus, Status, TypeOK, Verdict
  <2>2. AuditStatus(e) = "ok" => verdict = "ok"
    BY DEF AuditStatus
  <2>3. verdict = "ok" => e \in answered
    BY <1>f, <1>h DEF Reported, Over
  <2>. QED  BY <2>1, <2>2, <2>3, <1>f DEF TypeOK, Reported
<1>1. CASE verdict = "interrupted"
  <2>n. held' = Empty /\ pc' = "down" /\ verdict' = "ok" /\ exits' \in 0..ExitLimit
    BY <1>1 DEF Audit, Exit, TypeOK
  <2>0. \A d \in Delivery : held'[d] = NoFile /\ ~InHand(d)'
    BY <2>n DEF InHand, Empty, Files
  <2>1. TypeOK'
    BY <1>f, <1>r, <2>n DEF TypeOK, Stage, Verdict, Empty
  <2>2. Control'
    BY <2>n DEF Control
  <2>3. ASSUME NEW d \in Delivery PROVE Known(d)' /\ Kept(d)' /\ Counted(d)' /\ Reported(d)'
    <3>1. d \in Stored' <=> d \in Stored
      BY <1>f DEF Stored, Files
    <3>2. Known(d)' /\ Kept(d)' /\ Counted(d)'
      BY <3>1, <2>0, <2>n, <1>f DEF Known, Kept, Counted
    <3>3. Reported(d)'
      BY <3>1, <2>0, <1>r, <1>f DEF Reported, Over
    <3>. QED  BY <3>2, <3>3
  <2>. QED  BY <2>1, <2>2, <2>3
<1>2. CASE verdict # "interrupted"
  <2>n. /\ UNCHANGED <<held, verdict, exits>>
        /\ pc' = IF verdict = "raised" THEN "record" ELSE "complete"
    BY <1>2 DEF Audit
  <2>0. \A d \in Delivery : InHand(d)' <=> InHand(d)
    BY <2>n DEF InHand, Files
  <2>1. TypeOK'
    BY <1>f, <1>r, <2>n DEF TypeOK, Stage
  <2>2. Control'
    BY <1>2, <2>n DEF Control, TypeOK, Verdict
  <2>3. Known(e)' /\ Kept(e)' /\ Counted(e)' /\ Reported(e)'
    <3>2. e \in Stored' <=> e \in Stored
      BY <1>f DEF Stored, Files
    <3>3. Known(e)'
      BY <3>2, <1>f, <2>n DEF Known
    <3>4. PutBack(e)' <=> PutBack(e)
      BY <2>0, <2>n, <1>f, <1>2 DEF PutBack
    <3>5. Kept(e)'
      BY <3>2, <3>4, <2>n, <1>f DEF Kept
    <3>6. Counted(e)'
      BY <3>4, <2>n, <2>0, <1>h, <1>f DEF Counted, Due
    <3>7. Reported(e)'
      BY <3>2, <2>0, <2>n, <1>f, <1>r DEF Reported, Over
    <3>. QED  BY <3>3, <3>5, <3>6, <3>7
  <2>4. ASSUME NEW d \in Delivery, d # e
        PROVE  Known(d)' /\ Kept(d)' /\ Counted(d)' /\ Reported(d)'
    <3>1. ~InHand(d) /\ ~InHand(d)' /\ record'[d] = record[d]
      BY <2>4, <2>0, <1>h, <1>r
    <3>. QED  BY <3>1, <2>n, <1>f, Untouched
  <2>. QED  BY <2>1, <2>2, <2>3, <2>4
<1>. QED  BY <1>1, <1>2

LEMMA CompleteStep ==
    ASSUME QueueInv, NEW e \in Delivery, Complete(e)
    PROVE  QueueInv'
<1>. USE TriggerAssumption DEF QueueInv
<1>h. /\ \A d \in Delivery : InHand(d) => d = e
      /\ held[e] # NoFile /\ InHand(e)
  BY OneInHand DEF Complete, InHand, Files
<1>f. /\ pc = "complete" /\ NextInBatch(e) /\ Over(e)
      /\ processing' = [processing EXCEPT ![e] = NoFile]
      /\ UNCHANGED <<trig, inbox, failed, record, reported, exits,
                     enqueued, turns, answered, refused>>
  BY <1>h DEF Complete, Without, TypeOK, history, Over, Control
<1>1. TypeOK'
  BY <1>f, NextInHand DEF TypeOK, Stage, Verdict
<1>2. Control'
  BY <1>f, NextInHand DEF Control
<1>3. Known(e)' /\ Kept(e)' /\ Counted(e)' /\ Reported(e)'
  <2>1. held'[e] = NoFile /\ ~InHand(e)' /\ processing'[e] = NoFile
    BY <1>f, NextInHand DEF TypeOK
  <2>2. ~PutBack(e) /\ inbox[e] = NoFile /\ failed[e] = NoFile
    BY <1>f, <1>h DEF PutBack, Kept
  <2>3. e \notin Stored'
    BY <2>1, <2>2, <1>f DEF Stored, Files
  <2>4. e \in answered \cup refused
    BY <1>f DEF Reported
  <2>5. Known(e)' /\ Kept(e)' /\ Counted(e)'
    BY <2>1, <2>2, <2>3, <2>4, <1>f DEF Known, Kept, Counted
  <2>6. Reported(e)'
    BY <2>1, <2>3, <1>f DEF Reported, Over
  <2>. QED  BY <2>5, <2>6
<1>4. ASSUME NEW d \in Delivery, d # e
      PROVE  Known(d)' /\ Kept(d)' /\ Counted(d)' /\ Reported(d)'
  <2>1. processing'[d] = processing[d]
    BY <1>4, <1>f DEF TypeOK
  <2>. QED  BY <2>1, <1>4, <1>f, <1>h, Remaining
<1>. QED  BY <1>1, <1>2, <1>3, <1>4

LEMMA CrashStep ==
    ASSUME QueueInv, Crash
    PROVE  QueueInv'
<1>. USE TriggerAssumption DEF QueueInv
<1>1. TypeOK'
  BY DEF Crash, Files, Stored, Exit, files, runner, history, TypeOK, Known, Kept,
     Counted, PutBack, Verdict, Stage, Status, Attempts, TrigState, Requeues, Empty
<1>2. Control'
  BY DEF Crash, Files, Stored, Exit, files, runner, history, TypeOK, Empty, Control
<1>4. ASSUME NEW d \in Delivery PROVE Known(d)' /\ Kept(d)' /\ Counted(d)' /\ Reported(d)'
  <2>1. Known(d)'
    BY DEF Crash, Files, Stored, Exit, files, runner, history, TypeOK, Empty, Known
  <2>2. Kept(d)'
    BY DEF Crash, Files, Stored, Exit, files, runner, history, TypeOK, Empty,
       Known, Kept, PutBack, Requeues
  <2>3. Counted(d)'
    BY DEF Crash, Files, Stored, Exit, files, runner, history, TypeOK, Empty,
       Known, Kept, Counted, PutBack, Due, Requeues
  <2>4. Reported(d)'
    BY DEF Crash, Files, Stored, Exit, files, runner, history, TypeOK, Empty,
       Known, Kept, Reported, Over, PutBack
  <2>. QED  BY <2>1, <2>2, <2>3, <2>4
<1>. QED  BY <1>1, <1>2, <1>4

LEMMA Invariance == QueueInv /\ [Next]_vars => QueueInv'
<1>. SUFFICES ASSUME QueueInv, [Next]_vars PROVE QueueInv'
  OBVIOUS
<1>1. CASE Start \/ Recovered \/ Claim \/ Crash \/ ClaimCut
  BY <1>1, StartStep, RecoveredStep, ClaimStep, CrashStep, ClaimCutStep
<1>2. ASSUME NEW t \in Trigger,
             Create(t) \/ Enable(t) \/ Disable(t) \/ Delete(t) \/ DeletePartly(t)
      PROVE  QueueInv'
  BY <1>2, CreateStep, EnableStep, DisableStep, DeleteStep, DeletePartlyStep
<1>3. ASSUME NEW e \in Delivery,
             \/ Recover(e) \/ Look(e) \/ SubmitTurn(e) \/ TurnEnds(e) \/ RetryDelivery(e)
             \/ RecordDelivery(e) \/ Audit(e) \/ Complete(e)
      PROVE  QueueInv'
  BY <1>3, RecoverStep, LookStep, SubmitTurnStep, TurnEndsStep, RetryDeliveryStep,
     RecordDeliveryStep, AuditStep, CompleteStep
<1>4. ASSUME NEW e \in Delivery,
             \/ RecoverCut(e) \/ RetryDeliveryCut(e) \/ Interrupt(e) \/ Raises(e)
             \/ Enqueue(e)
      PROVE  QueueInv'
  BY <1>4, RecoverCutStep, RetryDeliveryCutStep, InterruptStep, RaisesStep,
     EnqueueStep
<1>5. CASE UNCHANGED vars
  <2>1. \A d \in Delivery : InHand(d)' <=> InHand(d)
    BY <1>5 DEF vars, runner, InHand, Files
  <2>2. \A d \in Delivery : d \in Stored' <=> d \in Stored
    BY <1>5 DEF vars, files, Stored, Files
  <2>3. TypeOK' /\ Control'
    BY <1>5 DEF QueueInv, vars, files, runner, history, TypeOK, Control
  <2>4. ASSUME NEW d \in Delivery PROVE Known(d)' /\ Kept(d)' /\ Counted(d)' /\ Reported(d)'
    <3>1. Known(d)' /\ Kept(d)' /\ Counted(d)'
      BY <2>1, <2>2, <1>5
      DEF QueueInv, vars, files, runner, history, Known, Kept, Counted, PutBack, Due
    <3>2. Reported(d)'
      BY <2>1, <2>2, <1>5 DEF QueueInv, vars, files, runner, history, Reported, Over
    <3>. QED  BY <3>1, <3>2
  <2>. QED  BY <2>3, <2>4 DEF QueueInv
<1>. QED  BY <1>1, <1>2, <1>3, <1>4, <1>5 DEF Next, Runner, Faults

LEMMA InitInv == Init => QueueInv
<1>. SUFFICES ASSUME Init PROVE QueueInv
  OBVIOUS
<1>. USE TriggerAssumption DEF Init, Empty
<1>1. TypeOK
  BY DEF TypeOK, TrigState, Status, Stage, Attempts, Verdict
<1>2. Control
  BY DEF Control
<1>3. ASSUME NEW d \in Delivery PROVE Known(d) /\ Kept(d) /\ Counted(d) /\ Reported(d)
  <2>1. ~InHand(d) /\ d \notin Stored
    BY DEF InHand, Stored, Files
  <2>. QED  BY <2>1 DEF Known, Kept, Counted, Reported, Over
<1>. QED  BY <1>1, <1>2, <1>3 DEF QueueInv

THEOREM InvariantHolds == Spec => []QueueInv
BY InitInv, Invariance, PTL DEF Spec

-----------------------------------------------------------------------------
(* The safety properties.                                                  *)

\* Every variable keeps its type: no file in inbox/ or processing/ ever carries
\* MaxAttempts attempts, and every file in failed/ carries exactly that many.
THEOREM QueueTypeCorrect == Spec => []TypeOK
<1>1. QueueInv => TypeOK
  BY DEF QueueInv
<1>. QED  BY <1>1, InvariantHolds, PTL

\* No accepted delivery disappears before a turn for it has ended, unless its
\* trigger was paused or deleted.
THEOREM NothingForgotten == Spec => []KeptUntilAnswered
<1>1. QueueInv => KeptUntilAnswered
  BY DEF QueueInv, TypeOK, Kept, KeptUntilAnswered
<1>. QED  BY <1>1, InvariantHolds, PTL

\* A running gateway never has two copies of a delivery in its directories.
THEOREM OneCopy == Spec => []SingleCopy
<1>1. QueueInv => SingleCopy
  <2>. SUFFICES ASSUME QueueInv, pc \notin {"down", "recover"}, NEW d \in Delivery
                PROVE  /\ inbox[d] = NoFile \/ processing[d] = NoFile
                       /\ inbox[d] = NoFile \/ failed[d] = NoFile
                       /\ processing[d] = NoFile \/ failed[d] = NoFile
    BY DEF SingleCopy, Files
  <2>. QED  BY DEF QueueInv, Kept
<1>. QED  BY <1>1, InvariantHolds, PTL

\* No delivery starts more than MaxAttempts turns, however often the gateway
\* exits and whatever fails.
THEOREM BoundedTurns == Spec => []TurnsBounded
<1>1. QueueInv => TurnsBounded
  BY DEF QueueInv, Counted, TurnsBounded
<1>. QED  BY <1>1, InvariantHolds, PTL

\* The outcome of every single delivery that left the queue was written on its
\* trigger, unless the trigger was deleted.
THEOREM OutcomesReported == Spec => []GoneIsReported
<1>1. QueueInv => GoneIsReported
  BY DEF QueueInv, TypeOK, Reported, GoneIsReported
<1>. QED  BY <1>1, InvariantHolds, PTL

\* A run record says "ok" only of a delivery with a turn that ended.
THEOREM HonestRecords == Spec => []SuccessIsTrue
<1>1. QueueInv => SuccessIsTrue
  BY DEF QueueInv, Reported, SuccessIsTrue
<1>. QED  BY <1>1, InvariantHolds, PTL

-----------------------------------------------------------------------------
(* Refinement of the ledger.                                               *)

\* Steps that move no delivery on the ledger.
LEMMA Stutters ==
    ASSUME \A d \in Delivery : Place(d)' = Place(d), UNCHANGED <<turns, answered,
    refused>>
    PROVE  UNCHANGED Ledger!lvars
BY DEF Ledger!lvars

\* A delivery's place depends on its files only.
LEMMA SamePlace ==
    ASSUME NEW d \in Delivery, enqueued' = enqueued,
           inbox'[d] # NoFile \/ processing'[d] # NoFile
               <=> inbox[d] # NoFile \/ processing[d] # NoFile,
           failed'[d] # NoFile <=> failed[d] # NoFile
    PROVE  Place(d)' = Place(d)
BY DEF Place, Files

\* Steps that move one delivery.
LEMMA MovesOne ==
    ASSUME NEW e \in Delivery, UNCHANGED <<turns, answered, refused>>,
           \A d \in Delivery : d # e => Place(d)' = Place(d),
           \/ Place(e)' = Place(e)
           \/ Place(e) = "pending" /\ Place(e)' = "failed"
           \/ Place(e) = "pending" /\ Place(e)' = "gone" /\ e \in answered
           \/ Place(e) # "new" /\ Place(e)' \in {"pending", "failed", "gone"} /\ e \in refused
    PROVE  [Ledger!LNext]_Ledger!lvars
<1>. DEFINE L == [d \in Delivery |-> Place(d)]
<1>0. L' = [L EXCEPT ![e] = Place(e)']
  OBVIOUS
<1>1. CASE Place(e)' = Place(e)
  BY <1>1, Stutters
<1>2. CASE Place(e) = "pending" /\ Place(e)' = "failed"
  <2>1. Ledger!GiveUp(e)
    BY <1>0, <1>2 DEF Ledger!GiveUp
  <2>. QED  BY <2>1 DEF Ledger!LNext
<1>3. CASE Place(e) = "pending" /\ Place(e)' = "gone" /\ e \in answered
  <2>1. Ledger!Settle(e)
    BY <1>0, <1>3 DEF Ledger!Settle
  <2>. QED  BY <2>1 DEF Ledger!LNext
<1>4. CASE Place(e) # "new" /\ Place(e)' \in {"pending", "failed", "gone"} /\ e \in refused
  <2>1. Ledger!Waive(e)
    BY <1>0, <1>4 DEF Ledger!Waive
  <2>. QED  BY <2>1 DEF Ledger!LNext
<1>. QED  BY <1>1, <1>2, <1>3, <1>4

\* Pausing and deleting.
LEMMA Refuses ==
    ASSUME NEW D, D \subseteq enqueued, D \subseteq Delivery,
           UNCHANGED <<enqueued, turns, answered>>, refused' = refused \cup D,
           \A d \in Delivery \ D : Place(d)' = Place(d)
    PROVE  Ledger!LNext
<1>. DEFINE fate == [d \in D |-> Place(d)']
<1>1. \A d \in D : Place(d) # "new"
  BY DEF Place
<1>2. fate \in [D -> {"pending", "failed", "gone"}]
  BY DEF Place
<1>3. [d \in Delivery |-> Place(d)]'
        = [d \in Delivery |-> IF d \in D THEN fate[d] ELSE [x \in Delivery |-> Place(x)][d]]
  OBVIOUS
<1>4. Ledger!Refuse(D)
  BY <1>1, <1>2, <1>3 DEF Ledger!Refuse
<1>. QED  BY <1>4 DEF Ledger!LNext

-----------------------------------------------------------------------------

\* Steps that leave the files and the histories alone.
LEMMA IdleMaps ==
    ASSUME UNCHANGED <<files, history>>
    PROVE  [Ledger!LNext]_Ledger!lvars
<1>1. UNCHANGED <<inbox, processing, failed, enqueued, turns, answered, refused>>
  BY DEF files, history
<1>2. \A d \in Delivery : Place(d)' = Place(d)
  BY <1>1, SamePlace
<1>. QED  BY <1>1, <1>2, Stutters

LEMMA ClaimMaps ==
    ASSUME QueueInv, Claim \/ ClaimCut
    PROVE  [Ledger!LNext]_Ledger!lvars
<1>1. PICK C \in SUBSET Files(inbox) :
         inbox' = Without(inbox, C) /\ processing' = Taken(processing, C)
  BY DEF Claim, ClaimCut
<1>2. UNCHANGED <<failed, enqueued, turns, answered, refused>>
  BY DEF Claim, ClaimCut, history
<1>3. ASSUME NEW d \in Delivery PROVE Place(d)' = Place(d)
  <2>1. /\ inbox'[d] = IF d \in C THEN NoFile ELSE inbox[d]
        /\ processing'[d] = IF d \in C THEN inbox[d] ELSE processing[d]
        /\ d \in C => inbox[d] # NoFile
    BY <1>1 DEF Without, Taken, Files
  <2>. QED  BY <2>1, <1>2, SamePlace
<1>. QED  BY <1>2, <1>3, Stutters

LEMMA DisableMaps ==
    ASSUME QueueInv, NEW t \in Trigger, Disable(t)
    PROVE  [Ledger!LNext]_Ledger!lvars
<1>. DEFINE D == Owned(t) \cap enqueued
<1>1. /\ UNCHANGED <<inbox, processing, failed, enqueued, turns, answered>>
      /\ refused' = refused \cup D
      /\ D \subseteq enqueued /\ D \subseteq Delivery
  BY DEF Disable, files, Owned
<1>2. \A d \in Delivery : Place(d)' = Place(d)
  BY <1>1, SamePlace
<1>3. \A d \in Delivery \ D : Place(d)' = Place(d)
  BY <1>2
<1>. HIDE DEF D
<1>. QED  BY <1>1, <1>3, Refuses

LEMMA DeleteMaps ==
    ASSUME QueueInv, NEW t \in Trigger, Delete(t) \/ DeletePartly(t)
    PROVE  [Ledger!LNext]_Ledger!lvars
<1>. DEFINE D == Owned(t) \cap enqueued
<1>1. /\ UNCHANGED <<enqueued, turns, answered>>
      /\ refused' = refused \cup D
      /\ D \subseteq enqueued /\ D \subseteq Delivery
  BY DEF Delete, DeletePartly, Owned
<1>2. ASSUME NEW d \in Delivery \ D PROVE Place(d)' = Place(d)
  <2>1. CASE d \notin enqueued
    BY <2>1, <1>1 DEF Place
  <2>2. CASE d \notin Owned(t)
    <3>1. inbox'[d] = inbox[d] /\ processing'[d] = processing[d] /\ failed'[d] = failed[d]
      BY <2>2 DEF Delete, DeletePartly, Without
    <3>. QED  BY <3>1, <1>1, SamePlace
  <2>. QED  BY <2>1, <2>2
<1>. HIDE DEF D
<1>. QED  BY <1>1, <1>2, Refuses

LEMMA EnqueueMaps ==
    ASSUME QueueInv, NEW e \in Delivery, Enqueue(e)
    PROVE  [Ledger!LNext]_Ledger!lvars
<1>. USE TriggerAssumption DEF QueueInv
<1>1. /\ e \notin enqueued /\ enqueued' = enqueued \cup {e}
      /\ inbox' = [inbox EXCEPT ![e] = 0]
      /\ UNCHANGED <<processing, failed, turns, answered, refused>>
  BY DEF Enqueue, Put
<1>2. Place(e) = "new" /\ Place(e)' = "pending"
  BY <1>1 DEF Place, Files, TypeOK
<1>3. ASSUME NEW d \in Delivery, d # e PROVE Place(d)' = Place(d)
  BY <1>1, <1>3 DEF Place, Files, TypeOK
<1>4. [d \in Delivery |-> Place(d)]' = [[d \in Delivery |-> Place(d)] EXCEPT ![e] = "pending"]
  BY <1>2, <1>3
<1>5. Ledger!Accept(e)
  BY <1>1, <1>2, <1>4 DEF Ledger!Accept
<1>. QED  BY <1>5 DEF Ledger!LNext

LEMMA SubmitTurnMaps ==
    ASSUME QueueInv, NEW e \in Delivery, SubmitTurn(e)
    PROVE  [Ledger!LNext]_Ledger!lvars
<1>. USE TriggerAssumption DEF QueueInv
<1>1. /\ pc = "submit" /\ InHand(e) /\ held[e] # NoFile
      /\ UNCHANGED <<inbox, processing, failed, enqueued, answered, refused>>
      /\ turns' = [turns EXCEPT ![e] = turns[e] + 1]
  BY DEF SubmitTurn, files, InHand, Files
<1>2. turns[e] < MaxAttempts
  BY <1>1 DEF Counted, Due, PutBack, Kept, TypeOK, Attempts
<1>3. \A d \in Delivery : Place(d)' = Place(d)
  BY <1>1, SamePlace
<1>4. Place(e) = "pending" \/ e \in refused
  BY <1>1 DEF Kept, PutBack, Known, Place, Files
<1>5. Ledger!Attempt(e)
  BY <1>1, <1>2, <1>3, <1>4 DEF Ledger!Attempt
<1>. QED  BY <1>5 DEF Ledger!LNext

LEMMA TurnEndsMaps ==
    ASSUME QueueInv, NEW e \in Delivery, TurnEnds(e)
    PROVE  [Ledger!LNext]_Ledger!lvars
<1>1. /\ pc = "await" /\ InHand(e)
      /\ UNCHANGED <<inbox, processing, failed, enqueued, turns, refused>>
      /\ answered' = answered \cup {e}
  BY DEF TurnEnds, files
<1>2. turns[e] > 0
  BY <1>1 DEF QueueInv, Counted
<1>3. \A d \in Delivery : Place(d)' = Place(d)
  BY <1>1, SamePlace
<1>4. Ledger!Answer(e)
  BY <1>1, <1>2, <1>3 DEF Ledger!Answer
<1>. QED  BY <1>4 DEF Ledger!LNext

\* Recovery and retry: the delivery stays pending or is given up; one that was
\* deleted in the meantime comes back.
LEMMA RetryMaps ==
    ASSUME QueueInv, NEW e \in Delivery,
           \/ Recover(e) \/ RecoverCut(e) \/ RetryDelivery(e) \/ RetryDeliveryCut(e)
    PROVE  [Ledger!LNext]_Ledger!lvars
<1>. USE TriggerAssumption DEF QueueInv
<1>1. PICK n \in 0..(MaxAttempts - 1) :
        /\ inbox' = IF Requeues(n) THEN [inbox EXCEPT ![e] = n + 1] ELSE inbox
        /\ failed' = IF Requeues(n) THEN failed ELSE [failed EXCEPT ![e] = n + 1]
        /\ processing' \in {processing, [processing EXCEPT ![e] = NoFile]}
        /\ processing[e] \in {n, NoFile}
        /\ processing[e] = NoFile => e \in refused
        /\ processing[e] # NoFile /\ inbox[e] # NoFile => Requeues(n)
        /\ processing[e] # NoFile /\ failed[e] # NoFile => ~Requeues(n)
        /\ UNCHANGED <<enqueued, turns, answered, refused>>
  <2>1. CASE Recover(e) \/ RecoverCut(e)
    <3>1. processing[e] \in 0..(MaxAttempts - 1) /\ processing[e] # NoFile
      BY <2>1 DEF Recover, RecoverCut, Files, TypeOK
    <3>2. Recover(e) => processing' = [processing EXCEPT ![e] = NoFile]
      BY DEF Recover, Retry, Without, TypeOK
    <3>3. RecoverCut(e) => processing' = processing
      BY DEF RecoverCut, RetryCut
    <3>. QED  BY <2>1, <3>1, <3>2, <3>3
              DEF Recover, RecoverCut, Retry, RetryCut, Put, Kept, history
  <2>2. CASE RetryDelivery(e) \/ RetryDeliveryCut(e)
    <3>1. /\ held[e] \in 0..(MaxAttempts - 1) /\ held[e] # NoFile /\ ~PutBack(e)
          /\ pc \notin {"down", "recover"}
      BY <2>2 DEF RetryDelivery, RetryDeliveryCut, PutBack, InHand, Files, Kept,
         TypeOK, Attempts
    <3>2. RetryDelivery(e) => processing' = [processing EXCEPT ![e] = NoFile]
      BY DEF RetryDelivery, Retry, Without, TypeOK
    <3>3. RetryDeliveryCut(e) => processing' = processing
      BY DEF RetryDeliveryCut, RetryCut
    <3>. QED  BY <2>2, <3>1, <3>2, <3>3
              DEF RetryDelivery, RetryDeliveryCut, Retry, RetryCut, Put, Kept,
              history
  <2>. QED  BY <2>1, <2>2
<1>2. ASSUME NEW d \in Delivery, d # e PROVE Place(d)' = Place(d)
  <2>1. inbox'[d] = inbox[d] /\ processing'[d] = processing[d] /\ failed'[d] = failed[d]
    BY <1>1, <1>2 DEF TypeOK
  <2>. QED  BY <2>1, <1>1, SamePlace
<1>3. n + 1 # NoFile /\ n # NoFile /\ n + 1 \in Nat
  BY <1>1
<1>4. processing[e] # NoFile \/ e \in refused
  BY <1>1
<1>5. e \in enqueued
  BY <1>4, <1>1 DEF Known, Stored, Files
<1>6. CASE Requeues(n)
  <2>1. inbox'[e] = n + 1 /\ failed' = failed
    BY <1>1, <1>6 DEF TypeOK
  <2>2. Place(e)' = "pending"
    BY <2>1, <1>1, <1>3, <1>5 DEF Place, Files
  <2>3. Place(e) # "new" /\ (processing[e] # NoFile => Place(e) = "pending")
    BY <1>5 DEF Place, Files
  <2>. QED  BY <2>2, <2>3, <1>1, <1>2, MovesOne
<1>7. CASE ~Requeues(n)
  <2>1. inbox' = inbox /\ failed'[e] = n + 1
    BY <1>1, <1>7 DEF TypeOK
  <2>2. Place(e)' \in {"pending", "failed"}
    BY <2>1, <1>1, <1>3, <1>5 DEF Place, Files
  <2>3. Place(e) # "new" /\ (processing[e] # NoFile => Place(e) = "pending")
    BY <1>5 DEF Place, Files
  <2>. QED  BY <2>2, <2>3, <1>1, <1>2, MovesOne
<1>. QED  BY <1>6, <1>7

LEMMA CompleteMaps ==
    ASSUME QueueInv, NEW e \in Delivery, Complete(e)
    PROVE  [Ledger!LNext]_Ledger!lvars
<1>. USE DEF QueueInv
<1>1. /\ pc = "complete" /\ InHand(e) /\ held[e] # NoFile /\ Over(e)
      /\ processing' = [processing EXCEPT ![e] = NoFile]
      /\ UNCHANGED <<inbox, failed, enqueued, turns, answered, refused>>
  BY DEF Complete, Without, TypeOK, InHand, Files, history, Over, Control
<1>2. /\ inbox[e] = NoFile /\ failed[e] = NoFile
      /\ e \in enqueued /\ e \in answered \cup refused
  BY <1>1 DEF Kept, PutBack, Known, Reported
<1>3. ASSUME NEW d \in Delivery, d # e PROVE Place(d)' = Place(d)
  <2>1. processing'[d] = processing[d]
    BY <1>1, <1>3 DEF TypeOK
  <2>. QED  BY <2>1, <1>1, SamePlace
<1>4. Place(e)' = "gone"
  BY <1>1, <1>2 DEF Place, Files, TypeOK
<1>5. Place(e) \in {"pending", "gone"}
  BY <1>2 DEF Place, Files
<1>. QED  BY <1>1, <1>2, <1>3, <1>4, <1>5, MovesOne

LEMMA LedgerStep == QueueInv /\ [Next]_vars => [Ledger!LNext]_Ledger!lvars
<1>. SUFFICES ASSUME QueueInv, [Next]_vars PROVE [Ledger!LNext]_Ledger!lvars
  OBVIOUS
<1>1. CASE Start \/ Recovered \/ Crash \/ UNCHANGED vars
  BY <1>1, IdleMaps DEF Start, Recovered, Crash, vars
<1>2. CASE Claim \/ ClaimCut
  BY <1>2, ClaimMaps
<1>3. ASSUME NEW t \in Trigger,
             Create(t) \/ Enable(t) \/ Disable(t) \/ Delete(t) \/ DeletePartly(t)
      PROVE  [Ledger!LNext]_Ledger!lvars
  <2>1. CASE Create(t) \/ Enable(t)
    BY <2>1, IdleMaps DEF Create, Enable
  <2>. QED  BY <1>3, <2>1, DisableMaps, DeleteMaps
<1>4. ASSUME NEW e \in Delivery,
             \/ Recover(e) \/ Look(e) \/ SubmitTurn(e) \/ TurnEnds(e) \/ RetryDelivery(e)
             \/ RecordDelivery(e) \/ Audit(e) \/ Complete(e) \/ RecoverCut(e)
             \/ RetryDeliveryCut(e) \/ Interrupt(e) \/ Raises(e) \/ Enqueue(e)
      PROVE  [Ledger!LNext]_Ledger!lvars
  <2>1. CASE Look(e) \/ RecordDelivery(e) \/ Audit(e) \/ Interrupt(e) \/ Raises(e)
    <3>1. UNCHANGED <<files, history>>
      BY <2>1 DEF Look, RecordDelivery, Audit, Interrupt, Raises
    <3>. QED  BY <3>1, IdleMaps
  <2>2. CASE Recover(e) \/ RecoverCut(e) \/ RetryDelivery(e) \/ RetryDeliveryCut(e)
    BY <2>2, RetryMaps
  <2>3. CASE SubmitTurn(e) \/ TurnEnds(e) \/ Complete(e) \/ Enqueue(e)
    BY <2>3, SubmitTurnMaps, TurnEndsMaps, CompleteMaps, EnqueueMaps
  <2>. QED  BY <1>4, <2>1, <2>2, <2>3
<1>. QED  BY <1>1, <1>2, <1>3, <1>4 DEF Next, Runner, Faults

LEMMA LedgerInit == Init => Ledger!LInit
<1>. SUFFICES ASSUME Init PROVE Ledger!LInit
  OBVIOUS
<1>1. \A d \in Delivery : Place(d) = "new"
  BY DEF Init, Place
<1>. QED  BY <1>1 DEF Init, Ledger!LInit

\* The file queue implements the at-least-once ledger: whatever fails, a
\* delivery leaves it only answered, refused or after its attempts, and its
\* turns are bounded.
THEOREM QueueImplementsLedger == Spec => ImplementsLedger
BY LedgerInit, LedgerStep, InvariantHolds, PTL DEF Spec, ImplementsLedger,
   Ledger!LSpec
=============================================================================
