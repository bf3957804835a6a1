---------------------------- MODULE TriggerQueue ----------------------------
(***************************************************************************)
(* The durable queue of local triggers                                     *)
(* (nanobot/triggers/local_store.py, nanobot/triggers/local_runner.py).    *)
(*                                                                         *)
(* A delivery is a file named by its creation time.  `nanobot trigger`     *)
(* writes it to inbox/; the gateway moves a batch to processing/, submits  *)
(* one agent turn after the other and removes the file when the turn is    *)
(* over.  A failed delivery is written back to inbox/ with its attempt     *)
(* counted, or to failed/ when the attempts are used up; what a dead       *)
(* gateway left in processing/ is treated likewise at the next start.      *)
(* Triggers are paused, resumed and deleted by other processes.            *)
(*                                                                         *)
(* Every store operation runs under one file lock, so it is one action,    *)
(* with a second action for the process dying (or a file resisting) in the *)
(* middle.  Deliveries are numbered in the order of their file names.      *)
(* A definition D_Xxx is a mutant of D and part of no specification.       *)
(***************************************************************************)
EXTENDS Naturals, FiniteSets

CONSTANTS
    Trigger,
    Delivery,     \* a set of numbers, in the order of creation
    Owner,        \* Owner[d]: the trigger of delivery d
    MaxAttempts,  \* _MAX_DELIVERY_ATTEMPTS (10 in the code)
    BatchSize,    \* batch_size (20 in the code)
    ExitLimit,    \* bound: how often the gateway exits
    NoFile

ASSUME TriggerAssumption ==
    /\ Delivery \subseteq Nat
    /\ Owner \in [Delivery -> Trigger]
    /\ MaxAttempts \in Nat \ {0}
    /\ BatchSize \in Nat \ {0}
    /\ ExitLimit \in Nat
    /\ NoFile \notin Nat

VARIABLES
    trig,        \* trig[t]: the state of trigger t in triggers.json
    inbox,       \* inbox[d]: attempts written in d's file there, or NoFile
    processing,
    failed,
    record,      \* record[d]: the status in d's run record
    pc,          \* where run_local_trigger_queue is
    held,        \* held[d]: attempts of d in the batch in memory, or NoFile
    verdict,     \* how the delivery in hand went
    exits,       \* how often the gateway has exited
    enqueued,    \* history: the deliveries accepted
    turns,       \* history: agent turns submitted for d
    answered,    \* history: deliveries with a turn that ended
    refused,     \* history: deliveries whose trigger was once paused or deleted
    reported     \* history: deliveries whose outcome was written on their trigger

files   == <<inbox, processing, failed>>
runner  == <<pc, held, verdict>>
history == <<enqueued, turns, answered, refused>>
vars    == <<trig, files, record, reported, runner, exits, history>>

TrigState == {"new", "enabled", "disabled", "deleted"}
Stage     == {"down", "recover", "look", "submit", "await", "retry", "audit",
              "record", "complete"}
Verdict   == {"ok", "error", "raised", "interrupted"}
Status    == {"none", "queued", "processing", "ok", "error", "retrying", "interrupted"}

Empty == [d \in Delivery |-> NoFile]
Files(dir) == {d \in Delivery : dir[d] # NoFile}
Without(dir, D) == [d \in Delivery |-> IF d \in D THEN NoFile ELSE dir[d]]
Put(dir, d, n) == [dir EXCEPT ![d] = n]
Owned(t) == {d \in Delivery : Owner[d] = t}

Init ==
    /\ trig = [t \in Trigger |-> "new"]
    /\ inbox = Empty /\ processing = Empty /\ failed = Empty
    /\ record = [d \in Delivery |-> "none"]
    /\ reported = {}
    /\ pc = "down"
    /\ held = Empty
    /\ verdict = "ok"
    /\ exits = 0
    /\ enqueued = {}
    /\ turns = [d \in Delivery |-> 0]
    /\ answered = {}
    /\ refused = {}

-----------------------------------------------------------------------------
(* Other processes: the chat command, `nanobot trigger` and the WebUI.     *)

\* The recovery loop holds the file lock throughout.
Unlocked == pc # "recover"

Create(t) ==
    /\ Unlocked /\ trig[t] = "new"
    /\ trig' = [trig EXCEPT ![t] = "enabled"]
    /\ UNCHANGED <<files, record, reported, runner, exits, history>>

Enable(t) ==
    /\ Unlocked /\ trig[t] = "disabled"
    /\ trig' = [trig EXCEPT ![t] = "enabled"]
    /\ UNCHANGED <<files, record, reported, runner, exits, history>>

Disable(t) ==
    /\ Unlocked /\ trig[t] = "enabled"
    /\ trig' = [trig EXCEPT ![t] = "disabled"]
    /\ refused' = refused \cup (Owned(t) \cap enqueued)
    /\ UNCHANGED <<files, record, reported, runner, exits, enqueued, turns, answered>>

\* delete: triggers.json first, then the delivery files in every directory.
Delete(t) ==
    /\ Unlocked /\ trig[t] \in {"enabled", "disabled"}
    /\ trig' = [trig EXCEPT ![t] = "deleted"]
    /\ inbox' = Without(inbox, Owned(t))
    /\ processing' = Without(processing, Owned(t))
    /\ failed' = Without(failed, Owned(t))
    /\ refused' = refused \cup (Owned(t) \cap enqueued)
    /\ UNCHANGED <<record, reported, runner, exits, enqueued, turns, answered>>

\* The process dies, or some files cannot be removed (the error is logged).
DeletePartly(t) ==
    /\ Unlocked /\ trig[t] \in {"enabled", "disabled"}
    /\ trig' = [trig EXCEPT ![t] = "deleted"]
    /\ \E I \in SUBSET (Owned(t) \cap Files(inbox)) : inbox' = Without(inbox, I)
    /\ \E P \in SUBSET (Owned(t) \cap Files(processing)) :
          processing' = Without(processing, P)
    /\ \E F \in SUBSET (Owned(t) \cap Files(failed)) : failed' = Without(failed, F)
    /\ refused' = refused \cup (Owned(t) \cap enqueued)
    /\ UNCHANGED <<record, reported, runner, exits, enqueued, turns, answered>>

\* enqueue: the delivery file, then its run record.
Enqueue(d) ==
    /\ Unlocked
    /\ trig[Owner[d]] = "enabled"
    /\ d \notin enqueued
    /\ enqueued' = enqueued \cup {d}
    /\ inbox' = Put(inbox, d, 0)
    /\ \/ record' = [record EXCEPT ![d] = "queued"]
       \/ UNCHANGED record                \* the process died in between
    /\ UNCHANGED <<trig, processing, failed, reported, runner, exits, turns, answered,
                   refused>>

-----------------------------------------------------------------------------
(* run_local_trigger_queue.                                                *)

\* The delivery in hand: the oldest of the batch.
InHand(d) == held[d] # NoFile /\ \A e \in Files(held) : d <= e

Start ==
    /\ pc = "down"
    /\ pc' = "recover"
    /\ UNCHANGED <<trig, files, record, reported, held, verdict, exits, history>>

\* _retry_delivery_unlocked for a delivery with n attempts behind it.
Requeues_OffByOne(n) == n + 1 <= MaxAttempts
Requeues(n) == n + 1 < MaxAttempts

Retry_KeepsClaim(d, n) ==
    /\ inbox' = IF Requeues(n) THEN Put(inbox, d, n + 1) ELSE inbox
    /\ failed' = IF Requeues(n) THEN failed ELSE Put(failed, d, n + 1)
    /\ UNCHANGED processing

Retry_DropsFailed(d, n) ==
    /\ inbox' = IF Requeues(n) THEN Put(inbox, d, n + 1) ELSE inbox
    /\ processing' = Without(processing, {d})
    /\ UNCHANGED failed

Retry_Uncounted(d, n) ==
    /\ inbox' = Put(inbox, d, n)
    /\ processing' = Without(processing, {d})
    /\ UNCHANGED failed

Retry(d, n) ==
    /\ inbox' = IF Requeues(n) THEN Put(inbox, d, n + 1) ELSE inbox
    /\ failed' = IF Requeues(n) THEN failed ELSE Put(failed, d, n + 1)
    /\ processing' = Without(processing, {d})

\* The gateway dies after the first of these writes.
RetryCut(d, n) ==
    /\ inbox' = IF Requeues(n) THEN Put(inbox, d, n + 1) ELSE inbox
    /\ failed' = IF Requeues(n) THEN failed ELSE Put(failed, d, n + 1)
    /\ UNCHANGED processing

Exit ==
    /\ exits < ExitLimit
    /\ exits' = exits + 1
    /\ pc' = "down"
    /\ held' = Empty
    /\ verdict' = "ok"

\* recover_processing_deliveries, file by file.
Recover(d) ==
    /\ pc = "recover"
    /\ d \in Files(processing)
    /\ Retry(d, processing[d])
    /\ UNCHANGED <<trig, record, reported, runner, exits, history>>

RecoverCut(d) ==
    /\ pc = "recover"
    /\ d \in Files(processing)
    /\ RetryCut(d, processing[d])
    /\ Exit
    /\ UNCHANGED <<trig, record, reported, history>>

Recovered ==
    /\ pc = "recover"
    /\ Files(processing) = {}
    /\ pc' = "look"
    /\ UNCHANGED <<trig, files, record, reported, held, verdict, exits, history>>

\* claim_deliveries: the oldest files, at most BatchSize of them.
Oldest(C) ==
    /\ C \subseteq Files(inbox)
    /\ \A d \in C, e \in Files(inbox) \ C : d < e
    /\ Cardinality(C) <= BatchSize
    /\ Cardinality(C) < BatchSize => C = Files(inbox)

Taken(dir, C) == [d \in Delivery |-> IF d \in C THEN inbox[d] ELSE dir[d]]

Claim_InMemory ==
    /\ pc = "look" /\ Files(held) = {}
    /\ \E C \in SUBSET Files(inbox) :
          /\ C # {} /\ Oldest(C)
          /\ inbox' = Without(inbox, C)
          /\ held' = Taken(held, C)
    /\ UNCHANGED <<trig, processing, failed, record, reported, pc, verdict, exits, history>>

Claim ==
    /\ pc = "look" /\ Files(held) = {}
    /\ \E C \in SUBSET Files(inbox) :
          /\ C # {} /\ Oldest(C)
          /\ inbox' = Without(inbox, C)
          /\ processing' = Taken(processing, C)
          /\ held' = Taken(held, C)
    /\ UNCHANGED <<trig, failed, record, reported, pc, verdict, exits, history>>

\* The gateway dies while it moves the files.
ClaimCut ==
    /\ pc = "look" /\ Files(held) = {}
    /\ \E C \in SUBSET Files(inbox) :
          /\ C # {}
          /\ inbox' = Without(inbox, C)
          /\ processing' = Taken(processing, C)
    /\ Exit
    /\ UNCHANGED <<trig, failed, record, reported, history>>

Look_Unreported(d) ==
    /\ pc = "look" /\ InHand(d)
    /\ IF trig[Owner[d]] = "enabled"
       THEN pc' = "submit" /\ UNCHANGED verdict
       ELSE pc' = "complete" /\ verdict' = "error"
    /\ UNCHANGED <<trig, files, record, reported, held, exits, history>>

\* _deliver_delivery looks up the trigger.
Look(d) ==
    /\ pc = "look" /\ InHand(d)
    /\ IF trig[Owner[d]] = "enabled"
       THEN pc' = "submit" /\ UNCHANGED verdict
       ELSE pc' = "record" /\ verdict' = "error"
    /\ UNCHANGED <<trig, files, record, reported, held, exits, history>>

\* It writes the run record and submits the turn.
SubmitTurn(d) ==
    /\ pc = "submit" /\ InHand(d)
    /\ record' = [record EXCEPT ![d] = "processing"]
    /\ turns' = [turns EXCEPT ![d] = @ + 1]
    /\ pc' = "await"
    /\ UNCHANGED <<trig, files, reported, held, verdict, exits, enqueued, answered, refused>>

\* The agent's answer: a response, or an AutomationTurnError.
TurnEnds(d) ==
    /\ pc = "await" /\ InHand(d)
    /\ verdict' \in {"ok", "error"}
    /\ answered' = answered \cup {d}
    /\ pc' = "record"
    /\ UNCHANGED <<trig, files, record, reported, held, exits, enqueued, turns, refused>>

\* Any other exception: the store could not be read or written, before the turn
\* was submitted or after it succeeded (complete_delivery is in the same try).
Raises(d) ==
    /\ InHand(d)
    /\ \/ pc \in {"look", "submit"}
       \/ pc \in {"record", "complete"} /\ verdict = "ok"
    /\ verdict' = "raised"
    /\ pc' = "retry"
    /\ UNCHANGED <<trig, files, record, reported, held, exits, history>>

\* The gateway shuts down: CancelledError at `await submit_turn`.
Interrupt(d) ==
    /\ pc = "await" /\ InHand(d)
    /\ exits < ExitLimit
    /\ verdict' = "interrupted"
    /\ pc' = "retry"
    /\ UNCHANGED <<trig, files, record, reported, held, exits, history>>

RetryDelivery(d) ==
    /\ pc = "retry" /\ InHand(d)
    /\ Retry(d, held[d])
    /\ held' = Put(held, d, held[d] + 1)
    /\ pc' = "audit"
    /\ UNCHANGED <<trig, record, reported, verdict, exits, history>>

RetryDeliveryCut(d) ==
    /\ pc = "retry" /\ InHand(d)
    /\ RetryCut(d, held[d])
    /\ Exit
    /\ UNCHANGED <<trig, record, reported, history>>

NextInBatch(d) ==
    /\ pc' = "look"
    /\ held' = Without(held, {d})
    /\ verdict' = "ok"

\* record_delivery, which ignores a trigger that is gone.
RecordDelivery(d) ==
    /\ pc = "record" /\ InHand(d)
    /\ reported' = IF trig[Owner[d]] = "deleted" THEN reported ELSE reported \cup {d}
    /\ IF verdict = "raised" THEN NextInBatch(d)
       ELSE pc' = "audit" /\ UNCHANGED <<held, verdict>>
    /\ UNCHANGED <<trig, files, record, exits, history>>

AuditStatus(d) ==
    CASE verdict = "raised" -> IF held[d] < MaxAttempts THEN "retrying" ELSE "error"
      [] OTHER              -> verdict

\* _write_delivery_run_record; after an interruption the runner is over.
Audit(d) ==
    /\ pc = "audit" /\ InHand(d)
    /\ \/ record' = [record EXCEPT ![d] = AuditStatus(d)]
       \/ UNCHANGED record                \* the write failed and was logged
    /\ \/ /\ verdict = "raised"
          /\ pc' = "record"
          /\ UNCHANGED <<held, verdict, exits>>
       \/ /\ verdict = "interrupted"
          /\ Exit
       \/ /\ verdict \in {"ok", "error"}
          /\ pc' = "complete"
          /\ UNCHANGED <<held, verdict, exits>>
    /\ UNCHANGED <<trig, files, reported, history>>

\* complete_delivery.
Complete(d) ==
    /\ pc = "complete" /\ InHand(d)
    /\ processing' = Without(processing, {d})
    /\ NextInBatch(d)
    /\ UNCHANGED <<trig, inbox, failed, record, reported, exits, history>>

\* The gateway dies between two operations.
Crash ==
    /\ pc # "down"
    /\ Exit
    /\ UNCHANGED <<trig, files, record, reported, history>>

-----------------------------------------------------------------------------
Runner ==
    \/ Start \/ Recovered \/ Claim
    \/ \E d \in Delivery : \/ Recover(d) \/ Look(d) \/ SubmitTurn(d) \/ TurnEnds(d)
                           \/ RetryDelivery(d) \/ RecordDelivery(d) \/ Audit(d)
                           \/ Complete(d)

Faults ==
    \/ Crash \/ ClaimCut
    \/ \E d \in Delivery : RecoverCut(d) \/ RetryDeliveryCut(d) \/ Interrupt(d) \/ Raises(d)

Next ==
    \/ Runner
    \/ Faults
    \/ \E t \in Trigger : Create(t) \/ Enable(t) \/ Disable(t) \/ Delete(t) \/ DeletePartly(t)
    \/ \E d \in Delivery : Enqueue(d)

Spec == Init /\ [][Next]_vars

\* The gateway is started again after an exit, its loop keeps running, and a
\* submitted turn is answered.
FairSpec == Spec /\ WF_vars(Runner)

-----------------------------------------------------------------------------
Attempts == 0..MaxAttempts

TypeOK ==
    /\ trig \in [Trigger -> TrigState]
    /\ inbox \in [Delivery -> (0..MaxAttempts - 1) \cup {NoFile}]
    /\ processing \in [Delivery -> (0..MaxAttempts - 1) \cup {NoFile}]
    /\ failed \in [Delivery -> {MaxAttempts, NoFile}]
    /\ record \in [Delivery -> Status]
    /\ reported \in SUBSET Delivery
    /\ pc \in Stage
    /\ held \in [Delivery -> Attempts \cup {NoFile}]
    /\ verdict \in Verdict
    /\ exits \in 0..ExitLimit
    /\ enqueued \in SUBSET Delivery
    /\ turns \in [Delivery -> Nat]
    /\ answered \in SUBSET Delivery
    /\ refused \in SUBSET Delivery

Stored == Files(inbox) \cup Files(processing) \cup Files(failed)

\* An accepted delivery whose trigger was not paused or deleted has a file in
\* one of the directories until an agent turn for it has ended: no crash, no
\* cut-off move and no failed write makes it disappear (claim, retry, recover
\* and complete).
KeptUntilAnswered == enqueued \ (refused \cup answered) \subseteq Stored

\* While the runner works, a delivery is in one directory only: recovery leaves
\* no second copy behind that would run the same message twice in one pass
\* (os.replace in claim_deliveries, write and unlink in _retry_delivery_unlocked).
SingleCopy ==
    pc \notin {"down", "recover"} =>
        /\ Files(inbox) \cap Files(processing) = {}
        /\ Files(inbox) \cap Files(failed) = {}
        /\ Files(processing) \cap Files(failed) = {}

\* Whatever fails and however often the gateway is restarted, one delivery
\* starts at most MaxAttempts agent turns (the attempt counter of
\* _retry_delivery_unlocked).
TurnsBounded == \A d \in Delivery : turns[d] <= MaxAttempts

\* Each delivery that has left the queue had its own outcome written on its
\* trigger first, unless the trigger was deleted: none is used up in silence
\* behind the status of another one, whatever failed or exited on the way
\* (record_delivery comes before complete_delivery, also after a retry).
GoneIsReported ==
    \A d \in enqueued \ Stored :
        trig[Owner[d]] = "deleted" \/ d \in reported

\* A run record reports success only for a delivery with a turn that ended.
SuccessIsTrue == \A d \in Delivery : record[d] = "ok" => d \in answered

\* The queue implements the at-least-once ledger of TriggerLedger.
Place(d) ==
    IF d \notin enqueued THEN "new"
    ELSE IF d \in Files(inbox) \cup Files(processing) THEN "pending"
    ELSE IF d \in Files(failed) THEN "failed"
    ELSE "gone"

Ledger == INSTANCE TriggerLedger WITH
    MaxTurns <- MaxAttempts, ledger <- [d \in Delivery |-> Place(d)]

ImplementsLedger == Ledger!LSpec

\* With finitely many exits every delivery leaves inbox/ and processing/: it is
\* answered, dropped or moved to failed/ (the polling loop and the attempt limit).
EventuallySettled ==
    \A d \in Delivery :
        d \in enqueued ~> d \notin Files(inbox) \cup Files(processing)

-----------------------------------------------------------------------------
(* What a test says, and the code does not do.                              *)

\* tests/triggers/test_local_triggers.py, test_delete_removes_delivery_files_for_trigger:
\* after a delete the trigger has no delivery files, so none comes back.
DeletedStaysDeleted ==
    [][\A d \in Delivery :
          trig[Owner[d]] = "deleted" /\ d \notin Stored => d \notin Stored']_vars
=============================================================================
