---------------------------- MODULE Consolidation ----------------------------
(***************************************************************************)
(* How the messages of one session leave its prompt                        *)
(* (nanobot/agent/memory.py:Consolidator, nanobot/agent/autocompact.py,    *)
(* nanobot/session/manager.py, nanobot/command/builtin.py:cmd_new).        *)
(*                                                                         *)
(* A session is a list of messages and a cursor, last_consolidated; the    *)
(* model is given what lies after the cursor.  Before a turn, and in the   *)
(* background after it, the consolidator has a prefix of that tail         *)
(* summarised into history.jsonl and moves the cursor past it.  A session  *)
(* that has been idle is cut down to a short suffix.  Both await a model   *)
(* call while they hold the consolidation lock of the session.  /new,      *)
(* commands and deliveries of other sessions write without that lock.      *)
(*                                                                         *)
(* SessionManager keeps one Session object per key in its cache, but turns *)
(* and jobs hold references across awaits, so that two objects of one      *)
(* session may be alive: the objects are explicit here.  An object nobody  *)
(* refers to is blanked.                                                   *)
(*                                                                         *)
(* Each action is a stretch of code between two suspension points.         *)
(***************************************************************************)
EXTENDS Naturals, Sequences, FiniteSets

CONSTANTS
    Obj,          \* identities of Session objects
    None,         \* no object
    Window,       \* replay_max_messages
    IdleSuffix,   \* AutoCompact._RECENT_SUFFIX_MESSAGES (8 in the code)
    FileCap,      \* FILE_MAX_MESSAGES
    MaxRounds,    \* Consolidator._MAX_CONSOLIDATION_ROUNDS (5 in the code)
    MaxMessages,  \* bound on the messages of a behaviour
    MaxCrashes    \* bound on the crashes of a behaviour

ASSUME ConsolidationAssumption ==
    /\ None \notin Obj
    /\ \A a, b \in Obj \cup {None} : \E o \in Obj : o # a /\ o # b
    /\ Window \in Nat \ {0} /\ IdleSuffix \in Nat \ {0} /\ FileCap \in Nat \ {0}
    /\ MaxRounds \in Nat \ {0} /\ MaxMessages \in Nat /\ MaxCrashes \in Nat

VARIABLES
    store,     \* [heap, cached, disk]: the objects, the cache, the file
    turn,      \* the turn in progress, with the object it took at RESTORE
    queue,     \* who holds (the head) or waits for the consolidation lock
    job,       \* what the holder is awaiting
    hot,       \* AutoCompact._summaries: the newest message summarised, or 0
    snaps,     \* snapshots /new left to a background task
    archived,  \* messages history.jsonl accounts for
    sent,      \* number of messages accepted so far
    cleared,   \* messages taken away by /new or by damage to the file
    fence,     \* the last message accepted before the last /new
    crossed,   \* a write without the lock met an awaiting job
    crashes

vars == <<store, turn, queue, job, hot, snaps, archived, sent, cleared, fence,
          crossed, crashes>>

Kind == {"user", "reply", "delivery", "command", "result"}
Message == [id : 1..MaxMessages, kind : Kind]
FromUser(m) == m.kind \in {"user", "command"}

Ids(s) == {s[i].id : i \in 1..Len(s)}
Top(S) == IF S = {} THEN 0 ELSE CHOOSE i \in S : \A j \in S : j <= i
Least(S) == CHOOSE i \in S : \A j \in S : i <= j
Most(S) == CHOOSE i \in S : \A j \in S : j <= i

Session == [msgs : Seq(Message), lc : Nat, sum : Nat]
Blank == [msgs |-> <<>>, lc |-> 0, sum |-> 0]

\* messages[last_consolidated:]
Tail_(s) == SubSeq(s.msgs, s.lc + 1, Len(s.msgs))

-----------------------------------------------------------------------------
(* Windows and boundaries.  An index i is a Python index: it names the     *)
(* message s.msgs[i + 1].                                                  *)

Users(s, from) == {i \in from..(Len(s.msgs) - 1) : FromUser(s.msgs[i + 1])}

\* A proactive delivery just before a user message stays with it.
WithDelivery(s, u, low) ==
    IF u > low /\ s.msgs[u].kind = "delivery" THEN u - 1 ELSE u

\* Where a replay window of n messages begins: get_history,
\* recent_message_start_index.
WindowStart(s, n, extend) ==
    LET len == Len(s.msgs)
        low == IF len - s.lc <= n THEN s.lc ELSE len - n
        inside == Users(s, low)
        before == {i \in Users(s, s.lc) : i < low}
    IN  IF inside # {} THEN WithDelivery(s, Least(inside), low)
        ELSE IF extend /\ before # {} THEN WithDelivery(s, Most(before), s.lc)
        ELSE low

Replayed(s) ==
    IF s.lc >= Len(s.msgs) THEN <<>>
    ELSE SubSeq(s.msgs, WindowStart(s, Window, FALSE) + 1, Len(s.msgs))

\* _replay_overflow_boundary; the cursor itself when there is none.
OverflowEnd(s) ==
    IF s.lc + Window >= Len(s.msgs) THEN s.lc ELSE WindowStart(s, Window, TRUE)

\* pick_consolidation_boundary, whatever the messages weigh in tokens.
Boundaries(s) == {e \in Users(s, s.lc) : e > s.lc}

\* The indices retain_recent_legal_suffix keeps.
Kept(s, n, extend) ==
    LET len == Len(s.msgs)
        low == len - n
        before == {i \in Users(s, 0) : i <= low}
        start == IF extend /\ before # {} THEN Most(before) ELSE low
        inside == Users(s, start)
    IN  IF len <= n THEN 0..(len - 1)
        ELSE IF inside # {} THEN Least(inside)..(len - 1)
        ELSE IF ~extend /\ Users(s, 0) # {}
          THEN {i \in Most(Users(s, 0))..(Most(Users(s, 0)) + n - 1) : i < len}
        ELSE start..(len - 1)

\* The session after retain_recent_legal_suffix; the kept indices are a range.
Retained(s, n, extend) ==
    LET kept == Kept(s, n, extend)
    IN  IF Len(s.msgs) <= n THEN s
        ELSE [s EXCEPT !.msgs = SubSeq(s.msgs, Least(kept) + 1, Most(kept) + 1),
                       !.lc = Cardinality({i \in kept : i < s.lc})]

\* dropped[already_consolidated_count:]
Dropped(s, n, extend) ==
    {s.msgs[i + 1].id : i \in {j \in s.lc..(Len(s.msgs) - 1) : j \notin Kept(s, n, extend)}}

\* The probe compact_idle_session and _has_compactable_idle_tail make.
Probe(s) == [msgs |-> Tail_(s), lc |-> 0, sum |-> 0]

-----------------------------------------------------------------------------
(* SessionManager                                                          *)

NoJob == [pc |-> "none", obj |-> None, end |-> 0, chunk |-> {}, all |-> {},
          keep |-> <<>>, sum |-> 0, round |-> 0]
NoTurn == [pc |-> "idle", obj |-> None, direct |-> FALSE, at |-> 0, prompt |-> {}]

Refs == {store.cached, turn.obj, job.obj} \ {None}

\* Mutant: _load trusts the cursor of the file.
Loaded_Trusted(file) == file

\* _load: __post_init__ resets a cursor that is out of range.
Loaded(file) == IF file.lc > Len(file.msgs) THEN [file EXCEPT !.lc = 0] ELSE file

\* get_or_create: afterwards the session is store.cached.
Fetch(w) ==
    IF w.cached # None THEN w
    ELSE LET o == CHOOSE o \in Obj : o \notin Refs
         IN  [[w EXCEPT !.heap[o] = Loaded(w.disk)] EXCEPT !.cached = o]

Invalidate(w) == [w EXCEPT !.cached = None]

\* save: the file is replaced in one step and the object enters the cache.
Save(w, o) == [w EXCEPT !.disk = w.heap[o], !.cached = o]

Write(w, o, s) == Save([w EXCEPT !.heap[o] = s], o)

New_(k, n) == [id |-> n, kind |-> k]
Plus(s, k, n) == [s EXCEPT !.msgs = Append(s.msgs, New_(k, n))]

\* The objects nobody refers to after this step disappear.
Settle(w) ==
    store' = [w EXCEPT !.heap = [o \in Obj |->
        IF o \in ({w.cached, turn'.obj, job'.obj} \ {None}) THEN w.heap[o] ELSE Blank]]

Awaiting == job.pc # "none"

Init ==
    /\ store = [heap |-> [o \in Obj |-> Blank], cached |-> None, disk |-> Blank]
    /\ turn = NoTurn
    /\ queue = <<>>
    /\ job = NoJob
    /\ hot = 0
    /\ snaps = {}
    /\ archived = {}
    /\ sent = 0
    /\ cleared = {}
    /\ fence = 0
    /\ crossed = FALSE
    /\ crashes = 0

-----------------------------------------------------------------------------
(* The consolidation lock and the jobs that hold it.                       *)

\* Awaiting archive for the messages of s from the cursor to e.
Archiving(pc, s, o, e, rounds, last) ==
    [pc |-> pc, obj |-> o, end |-> e, chunk |-> Ids(SubSeq(s.msgs, s.lc + 1, e)),
     all |-> {}, keep |-> <<>>, sum |-> last, round |-> rounds]

\* The ways maybe_consolidate_by_tokens can go on with session s, after
\* `rounds` rounds of this call: it is done, or it awaits archive for the
\* messages up to a boundary.  The token estimate decides, and is not known.
NextRounds(s, o, rounds, last) ==
    {[NoJob EXCEPT !.sum = last]} \cup
    {Archiving("round", s, o, e, rounds + 1, last) :
        e \in IF rounds < MaxRounds THEN Boundaries(s) ELSE {}}

\* Mutant: no archive pass over what the replay window hides.
FirstJobs_NoOverflow(s, o) == IF s.msgs = <<>> THEN {NoJob} ELSE NextRounds(s, o, 0, 0)

\* The same from the start of the call: first what the window would hide.
FirstJobs(s, o) ==
    IF s.msgs = <<>> THEN {NoJob}
    ELSE IF OverflowEnd(s) > s.lc
      THEN {Archiving("overflow", s, o, OverflowEnd(s), 0, 0)}
      ELSE NextRounds(s, o, 0, 0)

\* What follows in the turn when its consolidation returns: the prompt is
\* built from the object of the turn, then the user message is saved.
BuildRest(w) ==
    Write(w, turn.obj, Plus(w.heap[turn.obj], "user", sent + 1))

\* The head of the queue goes on as k in world w: it awaits again, or
\* _persist_last_summary runs, the lock is released and its caller resumes.
Continue(w, o, k) ==
    LET done == k.pc = "none"
        kept == IF done /\ k.sum > 0 THEN Write(w, o, [w.heap[o] EXCEPT !.sum = k.sum]) ELSE w
        resumes == done /\ Head(queue) = "turn"
    IN  /\ job' = IF done THEN NoJob ELSE k
        /\ queue' = IF done THEN Tail(queue) ELSE queue
        /\ turn' = IF resumes
                     THEN [turn EXCEPT !.pc = "run", !.prompt = Ids(Replayed(kept.heap[turn.obj]))]
                     ELSE turn
        /\ sent' = IF resumes THEN sent + 1 ELSE sent
        /\ Settle(IF resumes THEN BuildRest(kept) ELSE kept)

\* maybe_consolidate_by_tokens enters the lock: it takes the cached object,
\* whatever object its caller holds.
Consolidate ==
    /\ queue # <<>> /\ ~Awaiting
    /\ Head(queue) \in {"turn", "background"}
    /\ LET w == Fetch(store)
           o == w.cached
       IN  \E k \in FirstJobs(w.heap[o], o) : Continue(w, o, k)
    /\ UNCHANGED <<hot, snaps, archived, cleared, fence, crossed, crashes>>

\* archive returns to maybe_consolidate_by_tokens.  The model summarised the
\* chunk ("summary"), found nothing in it ("nothing"), or failed, and the raw
\* messages were written; the cursor moves to the boundary in every case.
Archived(outcome) ==
    /\ job.pc \in {"overflow", "round"}
    /\ archived' = archived \cup job.chunk
    /\ LET o == job.obj
           s == [store.heap[o] EXCEPT !.lc = job.end]
           w == Write(store, o, s)
           last == CASE outcome = "summary" -> Top(job.chunk)
                     [] outcome = "nothing" -> 0
                     [] outcome = "failed" -> IF job.pc = "round" THEN job.sum ELSE 0
           goesOn == IF job.pc = "round" /\ outcome = "failed"
                     THEN {[NoJob EXCEPT !.sum = last]}
                     ELSE NextRounds(s, o, job.round, last)
       IN  \E k \in goesOn : Continue(w, o, k)
    /\ UNCHANGED <<hot, snaps, cleared, fence, crossed, crashes>>

\* compact_idle_session enters the lock: it drops the cached object, loads
\* the file and asks for a summary of all, to remove all but a suffix.
Compact ==
    /\ queue # <<>> /\ ~Awaiting
    /\ Head(queue) = "idle"
    /\ LET w == Fetch(Invalidate(store))
           o == w.cached
           probe == Probe(w.heap[o])
           cut == Retained(probe, IdleSuffix, TRUE)
           remove == Dropped(probe, IdleSuffix, TRUE)
       IN  IF remove # {}
           THEN /\ job' = [pc |-> "compact", obj |-> o, end |-> 0, chunk |-> remove,
                           all |-> Ids(probe.msgs), keep |-> cut.msgs, sum |-> 0, round |-> 0]
                /\ UNCHANGED <<queue, turn>>
                /\ Settle(w)
           ELSE /\ queue' = Tail(queue)
                /\ UNCHANGED <<job, turn>>
                /\ Settle(IF probe.msgs = <<>> THEN Save(w, o)
                          ELSE Write(w, o, [w.heap[o] EXCEPT !.msgs = cut.msgs, !.lc = 0]))
    /\ UNCHANGED <<hot, snaps, archived, sent, cleared, fence, crossed, crashes>>

\* archive returns to compact_idle_session, which replaces the messages and
\* saves; AutoCompact._archive notes the summary.
Compacted(outcome) ==
    /\ job.pc = "compact"
    /\ archived' = archived \cup (IF outcome = "failed" THEN job.chunk ELSE job.all)
    /\ LET o == job.obj
           s == store.heap[o]
           sum == IF outcome = "summary" THEN Top(job.all) ELSE s.sum
           w == Write(store, o, [s EXCEPT !.msgs = job.keep, !.lc = 0, !.sum = sum])
       IN  /\ queue' = Tail(queue)
           /\ job' = NoJob
           /\ hot' = IF outcome = "summary" THEN sum ELSE hot
           /\ UNCHANGED turn
           /\ Settle(w)
    /\ UNCHANGED <<snaps, sent, cleared, fence, crossed, crashes>>

\* check_expired: sessions with a routed turn are skipped, and so is one that
\* is being compacted; a direct turn is not seen.
CheckExpired ==
    /\ turn.pc = "idle" \/ turn.direct
    /\ \A i \in 1..Len(queue) : queue[i] # "idle"
    /\ LET w == Fetch(store)
       IN  /\ Dropped(Probe(w.heap[w.cached]), IdleSuffix, TRUE) # {}
           /\ queue' = Append(queue, "idle")
           /\ UNCHANGED <<turn, job>>
           /\ Settle(w)
    /\ UNCHANGED <<hot, snaps, archived, sent, cleared, fence, crossed, crashes>>

-----------------------------------------------------------------------------
(* Turns of the session.  They are serial (TurnDispatch).                  *)

Room(n) == sent + n <= MaxMessages

\* RESTORE and COMPACT, up to the await of the consolidation lock in BUILD.
Begin(direct) ==
    /\ turn.pc = "idle"
    /\ Room(2)
    /\ LET w == Fetch(store)
       IN  /\ turn' = [NoTurn EXCEPT !.pc = "build", !.obj = w.cached, !.direct = direct, !.at = sent]
           /\ queue' = Append(queue, "turn")
           /\ UNCHANGED job
           /\ Settle(w)
    /\ hot' = 0
    /\ UNCHANGED <<snaps, archived, sent, cleared, fence, crossed, crashes>>

\* Mutant: the file cap drops messages without archiving them.
End_DropsSilently ==
    /\ turn.pc = "run"
    /\ LET o == turn.obj
           s == Plus(store.heap[o], "reply", sent + 1)
       IN  /\ turn' = NoTurn
           /\ queue' = Append(queue, "background")
           /\ UNCHANGED job
           /\ Settle(Write(store, o, Retained(s, FileCap, FALSE)))
    /\ sent' = sent + 1
    /\ crossed' = (crossed \/ Awaiting)
    /\ UNCHANGED <<hot, snaps, archived, cleared, fence, crashes>>

\* SAVE: the reply is appended, the file cap enforced with what it drops
\* written raw, a background consolidation scheduled, the session saved.
End ==
    /\ turn.pc = "run"
    /\ LET o == turn.obj
           s == Plus(store.heap[o], "reply", sent + 1)
           w == Write(store, o, Retained(s, FileCap, FALSE))
       IN  /\ archived' = archived \cup Dropped(s, FileCap, FALSE)
           /\ turn' = NoTurn
           /\ queue' = Append(queue, "background")
           /\ UNCHANGED job
           /\ Settle(w)
    /\ sent' = sent + 1
    /\ crossed' = (crossed \/ Awaiting)
    /\ UNCHANGED <<hot, snaps, cleared, fence, crashes>>

\* The queue q when its only entry x has left it.
Without(q, x) ==
    LET i == CHOOSE i \in 1..Len(q) : q[i] = x
    IN  SubSeq(q, 1, i - 1) \o SubSeq(q, i + 1, Len(q))

\* Mutant: the cancelled turn keeps its place at the lock.
StopBuild_KeepsTicket ==
    /\ turn.pc = "build"
    /\ turn' = NoTurn
    /\ UNCHANGED queue
    /\ job' = IF Head(queue) = "turn" THEN NoJob ELSE job
    /\ Settle(store)
    /\ UNCHANGED <<hot, snaps, archived, sent, cleared, fence, crossed, crashes>>

\* /stop while the turn waits for its consolidation.
StopBuild ==
    /\ turn.pc = "build"
    /\ turn' = NoTurn
    /\ queue' = Without(queue, "turn")
    /\ job' = IF Head(queue) = "turn" THEN NoJob ELSE job
    /\ Settle(store)
    /\ UNCHANGED <<hot, snaps, archived, sent, cleared, fence, crossed, crashes>>

\* /stop, or a failure, while the turn runs: _dispatch closes the turn in the
\* session it finds in the cache.
StopRun ==
    /\ turn.pc = "run"
    /\ LET w == Fetch(store)
           o == w.cached
       IN  /\ turn' = NoTurn
           /\ UNCHANGED <<queue, job>>
           /\ Settle(Write(w, o, Plus(w.heap[o], "reply", sent + 1)))
    /\ sent' = sent + 1
    /\ crossed' = (crossed \/ job.pc = "compact")
    /\ UNCHANGED <<hot, snaps, archived, cleared, fence, crashes>>

\* A command turn: RESTORE, COMPACT, COMMAND without an await in between.
Command ==
    /\ turn.pc = "idle"
    /\ Room(2)
    /\ LET w == Fetch(store)
           o == w.cached
           s == Plus(Plus(w.heap[o], "command", sent + 1), "result", sent + 2)
       IN  /\ UNCHANGED <<turn, queue, job>>
           /\ Settle(Write(w, o, s))
    /\ sent' = sent + 2
    /\ hot' = 0
    /\ crossed' = (crossed \/ job.pc = "compact")
    /\ UNCHANGED <<snaps, archived, cleared, fence, crashes>>

\* Mutant: /new clears the messages and keeps the summary.
New_KeepsSummary ==
    /\ turn.pc = "idle"
    /\ LET w == Fetch(store)
           o == w.cached
           tail == Ids(Tail_(w.heap[o]))
       IN  /\ snaps' = IF tail = {} THEN snaps ELSE snaps \cup {tail}
           /\ UNCHANGED <<turn, queue, job>>
           /\ Settle(Invalidate(Write(w, o, [Blank EXCEPT !.sum = w.heap[o].sum])))
    /\ hot' = 0
    /\ cleared' = 1..sent
    /\ fence' = sent
    /\ crossed' = (crossed \/ Awaiting)
    /\ UNCHANGED <<archived, sent, crashes>>

\* cmd_new.
New ==
    /\ turn.pc = "idle"
    /\ LET w == Fetch(store)
           o == w.cached
           tail == Ids(Tail_(w.heap[o]))
       IN  /\ snaps' = IF tail = {} THEN snaps ELSE snaps \cup {tail}
           /\ UNCHANGED <<turn, queue, job>>
           /\ Settle(Invalidate(Write(w, o, Blank)))
    /\ hot' = 0
    /\ cleared' = 1..sent
    /\ fence' = sent
    /\ crossed' = (crossed \/ Awaiting)
    /\ UNCHANGED <<archived, sent, crashes>>

\* The background task of /new: summarised or written raw.
SnapshotArchived ==
    /\ \E s \in snaps : /\ archived' = archived \cup s
                        /\ snaps' = snaps \ {s}
    /\ UNCHANGED <<store, turn, queue, job, hot, sent, cleared, fence, crossed, crashes>>

\* _deliver_to_channel: a job or another session speaks into this one.
Deliver ==
    /\ Room(IF turn.pc = "build" THEN 3 ELSE IF turn.pc = "run" THEN 2 ELSE 1)
    /\ LET w == Fetch(store)
           o == w.cached
       IN  /\ UNCHANGED <<turn, queue, job>>
           /\ Settle(Write(w, o, Plus(w.heap[o], "delivery", sent + 1)))
           /\ crossed' = (crossed \/ job.pc = "compact"
                                 \/ (turn.pc # "idle" /\ turn.obj # o))
    /\ sent' = sent + 1
    /\ UNCHANGED <<hot, snaps, archived, cleared, fence, crashes>>

-----------------------------------------------------------------------------
(* The process.                                                            *)

Forget(disk) ==
    /\ turn' = NoTurn
    /\ queue' = <<>>
    /\ job' = NoJob
    /\ hot' = 0
    /\ Settle([store EXCEPT !.cached = None, !.disk = disk])

\* The process dies; the file may have lost its end, and _load or _repair
\* take the lines that are left.
Crash ==
    /\ crashes < MaxCrashes
    /\ crashes' = crashes + 1
    /\ \E n \in 0..Len(store.disk.msgs) :
         /\ cleared' = cleared \cup Ids(SubSeq(store.disk.msgs, n + 1, Len(store.disk.msgs)))
                              \cup UNION snaps
         /\ Forget([store.disk EXCEPT !.msgs = SubSeq(@, 1, n)])
    /\ snaps' = {}
    /\ UNCHANGED <<archived, sent, fence, crossed>>

\* An orderly exit: close_mcp drains the background tasks, flush_all saves.
Shutdown ==
    /\ turn.pc = "idle" /\ queue = <<>> /\ snaps = {}
    /\ store.cached # None
    /\ Forget(store.heap[store.cached])
    /\ UNCHANGED <<snaps, archived, sent, cleared, fence, crossed, crashes>>

Outcome == {"summary", "nothing", "failed"}

JobStep ==
    \/ Consolidate
    \/ Compact
    \/ \E outcome \in Outcome : Archived(outcome) \/ Compacted(outcome)

Next ==
    \/ JobStep
    \/ CheckExpired
    \/ \E direct \in BOOLEAN : Begin(direct)
    \/ End \/ StopBuild \/ StopRun
    \/ Command \/ New \/ SnapshotArchived \/ Deliver
    \/ Crash \/ Shutdown

Spec == Init /\ [][Next]_vars

-----------------------------------------------------------------------------
(* Properties.                                                             *)

Holder == {"turn", "background", "idle"}

JobType ==
    [pc : {"none", "overflow", "round", "compact"}, obj : Obj \cup {None}, end : Nat,
     chunk : SUBSET (1..MaxMessages), all : SUBSET (1..MaxMessages),
     keep : Seq(Message), sum : Nat, round : 0..MaxRounds]

\* Types, and the discipline of the lock: a job is awaited only by its
\* holder, a turn in BUILD is in the queue exactly while it waits, and a turn
\* that runs has no consolidation of an earlier turn behind it.
TypeOK ==
    /\ store \in [heap : [Obj -> Session], cached : Obj \cup {None}, disk : Session]
    /\ turn \in [pc : {"idle", "build", "run"}, obj : Obj \cup {None},
                 direct : BOOLEAN, at : 0..sent, prompt : SUBSET (1..MaxMessages)]
    /\ queue \in Seq(Holder)
    /\ job \in JobType
    /\ hot \in 0..sent /\ sent \in 0..MaxMessages /\ fence \in 0..sent
    /\ archived \subseteq 1..sent /\ cleared \subseteq 1..sent
    /\ snaps \subseteq SUBSET (1..sent)
    /\ crossed \in BOOLEAN /\ crashes \in 0..MaxCrashes
    /\ \A i, j \in 1..Len(queue) : queue[i] = queue[j] => i = j
    /\ Awaiting => queue # <<>> /\ (job.pc = "compact" <=> Head(queue) = "idle")
    /\ (turn.pc = "build") <=> (\E i \in 1..Len(queue) : queue[i] = "turn")
    /\ turn.pc = "run" => \A i \in 1..Len(queue) : queue[i] # "background"

\* As long as no write without the lock has met an awaiting job, a message
\* that was accepted is accounted for in history.jsonl or lies behind the
\* cursor of the session file, unless /new or damage to the file took it.
NothingLost ==
    crossed \/ \A i \in 1..sent :
        \/ i \in archived \cup cleared
        \/ i \in Ids(Tail_(store.disk))

\* Under the same condition the cursor never points past the messages, in
\* the file and in every object alive (Session.__post_init__ says what would
\* happen: it "would hide all history").
CursorInRange ==
    crossed \/ /\ store.disk.lc <= Len(store.disk.msgs) \/ crashes > 0
               /\ \A o \in Obj : store.heap[o].lc <= Len(store.heap[o].msgs)

\* Under the same condition nothing from before a /new is in the session:
\* neither a message nor a summary.
NewIsFresh ==
    crossed \/ \A s \in {store.disk} \cup {store.heap[o] : o \in Obj} :
        /\ \A i \in Ids(s.msgs) : i > fence
        /\ s.sum = 0 \/ s.sum > fence
        /\ hot = 0 \/ hot > fence

\* Of the conversation behind the cursor, from its first user message on, what
\* the window hides from the prompt has been archived, unless the last turn
\* alone is longer than the window (_consolidate_replay_overflow: "Archive
\* messages that would be hidden by the replay message window"), provided that
\* nothing was delivered while the turn waited.  Commands and their results
\* are never part of the prompt.
Conversation(s) ==
    {s.msgs[i].id : i \in {j \in 1..Len(s.msgs) :
        /\ s.msgs[j].kind \notin {"command", "result"}
        /\ \E u \in Users(s, s.lc) : u < j}}

PromptIsWhole ==
    [][(turn.pc = "build" /\ turn'.pc = "run" /\ ~crossed /\ sent = turn.at) =>
          \/ Conversation(store.disk) \subseteq archived' \cup turn'.prompt
          \/ \A u \in Users(store.disk, 0) : u + Window < Len(store.disk.msgs)]_vars
=============================================================================
