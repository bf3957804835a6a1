--------------------------- MODULE TurnCheckpoint ---------------------------
(* The history of one session: what a turn writes, when it is saved, and    *)
(* what a cancellation, an error or an exit of the process leaves of it.    *)
(* Turns of a session run one after the other (TurnDispatch), so there is   *)
(* one turn at a time; it may end at every point where it awaits something. *)
EXTENDS Naturals, Sequences

CONSTANTS
    User,          \* user messages: each starts a turn or is injected into one
    Subagent,      \* subagent results that start a turn of their own
    Command,       \* slash commands answered by the COMMAND state
    MaxCalls,      \* tool calls in one model answer
    MaxIterations, \* spec.max_iterations
    ExitLimit,     \* bound: exits of the process
    FaultLimit,    \* bound: writes of the session file that fail
    Nothing        \* no message, no checkpoint, no cached session

Msg == User \cup Subagent \cup Command

ASSUME CheckpointAssumption ==
    /\ MaxCalls \in Nat \ {0} /\ MaxIterations \in Nat \ {0}
    /\ ExitLimit \in Nat /\ FaultLimit \in Nat
    /\ User \cap Subagent = {} /\ User \cap Command = {} /\ Subagent \cap Command = {}
    /\ Nothing \notin Msg

VARIABLES
    file,   \* the session file
    mem,    \* the Session object in the cache of SessionManager
    turn,   \* the turn in progress
    seen,   \* messages that started a turn or were injected into one
    exits,
    faults

vars == <<file, mem, turn, seen, exits, faults>>

-----------------------------------------------------------------------------
(* Messages of the history. `no` counts the calls of an assistant message   *)
(* and numbers the results; `at` is the iteration of the turn.              *)

Entry == [kind : {"user", "injected", "followup", "reply", "calls", "result",
                  "cut", "text", "nudge", "closing"},
          of : Msg, at : 0..MaxIterations, no : 0..MaxCalls]

Item(k, m, i, n) == [kind |-> k, of |-> m, at |-> i, no |-> n]

Asked(m) == Item("user", m, 0, 0)
Heard(f) == Item("injected", f, 0, 0)
Calls(m, i, n) == Item("calls", m, i, n)
Text(m, i) == Item("text", m, i, 0)

\* Results of all calls of an assistant message, and the error results that
\* stand for calls the turn did not finish.
Results(c) == [k \in 1..c.no |-> Item("result", c.of, c.at, k)]
Cuts(c) == [k \in 1..c.no |-> Item("cut", c.of, c.at, k)]

FromUser(e) == e.kind \in {"user", "injected", "nudge"}

Elements(q) == {q[k] : k \in 1..Len(q)}
Last(q) == q[Len(q)]

\* The checkpoint of a turn holds its last assistant message and either all
\* results or none of them.
Point(e, d) == [said |-> e, done |-> d]
Checkpoint == [said : Entry, done : BOOLEAN]

\* A session, as the file or the cache holds it.
Saved == [log : Seq(Entry), check : Checkpoint \cup {Nothing}, open : BOOLEAN]

\* Turns.
Turn == [m : Msg \cup {Nothing},
         pc : {"idle", "begun", "restored", "clearing", "model", "tools", "ran"},
         at : 0..MaxIterations, work : Seq(Entry), blank : BOOLEAN, heard : SUBSET Msg]

ASSUME NothingAssumption == Nothing \notin Checkpoint \cup Saved

Fresh == [log |-> <<>>, check |-> Nothing, open |-> FALSE]
Idle == [m |-> Nothing, pc |-> "idle", at |-> 0, work |-> <<>>, blank |-> FALSE, heard |-> {}]

Init ==
    /\ file = Fresh
    /\ mem = Nothing
    /\ turn = Idle
    /\ seen = {}
    /\ exits = 0 /\ faults = 0

-----------------------------------------------------------------------------
(* SessionManager.                                                          *)

\* The cached Session, or the one the file holds.
Session == IF mem = Nothing THEN file ELSE mem

\* save replaces the file atomically. A write that fails raises: the object in
\* memory keeps the change and the turn ends with the error.
Save(s, next) ==
    /\ mem' = s
    /\ \/ file' = s /\ turn' = next /\ UNCHANGED faults
       \/ /\ faults < FaultLimit /\ faults' = faults + 1
          /\ turn' = Idle /\ UNCHANGED file

SavePoint(p, next) == Save([mem EXCEPT !.check = p], next)

-----------------------------------------------------------------------------
(* Recovery.                                                                *)

\* Mutant: calls that did not finish get no result.
Restored_NoCuts(p) == <<p.said>> \o (IF p.done THEN Results(p.said) ELSE <<>>)

\* What a checkpoint adds to the history: its assistant message and a result
\* for each call, the real one or an error.
Restored(p) ==
    <<p.said>> \o (IF p.said.kind # "calls" THEN <<>>
                   ELSE IF p.done THEN Results(p.said) ELSE Cuts(p.said))

\* The longest prefix of r that the history already ends with.
Fits(log, r, n) ==
    n <= Len(log) /\ SubSeq(log, Len(log) - n + 1, Len(log)) = SubSeq(r, 1, n)
Overlap(log, r) ==
    CHOOSE n \in 0..Len(r) :
        Fits(log, r, n) /\ \A k \in 0..Len(r) : Fits(log, r, k) => k <= n

\* Mutant: the checkpoint is cleared only.
RestoreCheckpoint_Discards(s) == [log |-> s.log, check |-> Nothing, open |-> FALSE]

RestoreCheckpoint(s) ==
    LET r == Restored(s.check)
    IN  [log |-> s.log \o SubSeq(r, Overlap(s.log, r) + 1, Len(r)),
         check |-> Nothing, open |-> FALSE]

\* Mutant: the error replaces the user message.
ClosePending_Replaces(s) ==
    [s EXCEPT !.open = FALSE,
              !.log = IF s.log # <<>> /\ FromUser(Last(s.log))
                      THEN [s.log EXCEPT ![Len(s.log)] = Item("closing", Last(s.log).of, 0, 0)]
                      ELSE s.log]

\* A turn that only left its user message is closed with an error.
ClosePending(s) ==
    [s EXCEPT !.open = FALSE,
              !.log = IF s.log # <<>> /\ FromUser(Last(s.log))
                      THEN Append(s.log, Item("closing", Last(s.log).of, 0, 0))
                      ELSE s.log]

-----------------------------------------------------------------------------
(* The states of a turn. Each pc is a point where the turn awaits.          *)

At(pc) == turn.pc = pc

\* A message begins its turn: the session is loaded.
Begin(m) ==
    /\ At("idle") /\ m \notin seen
    /\ seen' = seen \cup {m}
    /\ mem' = Session
    /\ turn' = [Idle EXCEPT !.m = m, !.pc = "begun"]
    /\ UNCHANGED <<file, exits, faults>>

\* RESTORE: a checkpoint of an earlier turn is made history; without one, a
\* turn that was left open is closed.
Restore ==
    LET next == [turn EXCEPT !.pc = "restored"]
    IN  /\ At("begun")
        /\ \/ mem.check # Nothing /\ Save(RestoreCheckpoint(mem), next)
           \/ mem.check = Nothing /\ mem.open /\ Save(ClosePending(mem), next)
           \/ /\ mem.check = Nothing /\ ~mem.open
              /\ turn' = next /\ UNCHANGED <<mem, file, faults>>
        /\ UNCHANGED <<seen, exits>>

\* COMMAND: the command and its reply are saved one after the other, and the
\* mark of the open turn is removed in memory only.
RunCommand ==
    LET asked == [mem EXCEPT !.log = Append(@, Asked(turn.m)), !.open = TRUE]
        replied == [asked EXCEPT !.log = Append(@, Item("reply", turn.m, 0, 0))]
    IN  /\ At("restored") /\ turn.m \in Command
        /\ turn' = Idle
        /\ \/ /\ mem' = [replied EXCEPT !.open = FALSE] /\ file' = replied
              /\ UNCHANGED faults
           \/ /\ faults < FaultLimit /\ faults' = faults + 1
              /\ \/ mem' = asked /\ UNCHANGED file
                 \/ mem' = replied /\ file' = asked
        /\ UNCHANGED <<seen, exits>>

\* The process exits between the two saves of a command.
RunCommandCut ==
    /\ At("restored") /\ turn.m \in Command
    /\ exits < ExitLimit /\ exits' = exits + 1
    /\ file' = [mem EXCEPT !.log = Append(@, Asked(turn.m)), !.open = TRUE]
    /\ mem' = Nothing /\ turn' = Idle
    /\ UNCHANGED <<seen, faults>>

\* /new clears the history, saves and drops the session from the cache; it does
\* not touch the checkpoint or the mark. It is a turn of its own, or runs after
\* it cancelled the turn in progress.
New ==
    LET cleared == [Session EXCEPT !.log = <<>>]
    IN  /\ At("clearing") \/ (At("restored") /\ turn.m \in Command)
        /\ turn' = Idle
        /\ \/ file' = cleared /\ mem' = Nothing /\ UNCHANGED faults
           \/ /\ faults < FaultLimit /\ faults' = faults + 1
              /\ mem' = cleared /\ UNCHANGED file
        /\ UNCHANGED <<seen, exits>>

\* Mutant: the turn is not marked as open.
BuildUser_Unmarked ==
    /\ At("restored") /\ turn.m \in User
    /\ Save([mem EXCEPT !.log = Append(@, Asked(turn.m))], [turn EXCEPT !.pc = "model"])
    /\ UNCHANGED <<seen, exits>>

\* BUILD: the user message is saved before the turn runs, marked as open.
BuildUser ==
    /\ At("restored") /\ turn.m \in User
    /\ Save([mem EXCEPT !.log = Append(@, Asked(turn.m)), !.open = TRUE],
            [turn EXCEPT !.pc = "model"])
    /\ UNCHANGED <<seen, exits>>

\* A subagent result becomes an assistant message of the history.
BuildFollowup ==
    /\ At("restored") /\ turn.m \in Subagent
    /\ Save([mem EXCEPT !.log = Append(@, Item("followup", turn.m, 0, 0))],
            [turn EXCEPT !.pc = "model"])
    /\ UNCHANGED <<seen, exits>>

-----------------------------------------------------------------------------
(* RUN: the iterations of AgentRunner. `work` is what the runner appended   *)
(* to the initial messages.                                                 *)

\* A follow-up taken from the pending queue; an empty set is no follow-up.
FollowUps == {{}} \cup {{f} : f \in (User \cup Subagent) \ seen}

\* The result of a subagent is appended. What a user writes is merged into a last
\* message that comes from a user (in `work` the two stand side by side). The
\* initial messages end with the user message of the turn: what is merged into
\* that one is not in `work`.
Injected(w, F) ==
    IF F = {} \/ (w = <<>> /\ turn.m \in User /\ F \subseteq User) THEN w
    ELSE Append(w, Heard(CHOOSE f \in F : TRUE))

\* The closing text of a turn without an answer. The initial messages of a
\* subagent's turn end with its text: there it replaces that one, which is not
\* in `work`.
Ending(w) ==
    IF w = <<>> /\ turn.m \in Subagent THEN w ELSE Append(w, Text(turn.m, turn.at))

\* The turn goes on with the next iteration, or its run is over.
Iterate(w, F) == [turn EXCEPT !.pc = "model", !.at = @ + 1, !.work = Injected(w, F),
                              !.heard = @ \cup F]
Ran(w) == [turn EXCEPT !.pc = "ran", !.work = w]
EndOrIterate(w, F) == IF F = {} THEN Ran(w) ELSE Iterate(w, F)

\* Mutant: the limit on iterations is not checked.
Asking_Unlimited == At("model")

Asking == At("model") /\ turn.at < MaxIterations

\* Mutant: the checkpoint is set in memory and not saved.
CallTools_Unsaved ==
    \E n \in 1..MaxCalls :
        LET c == Calls(turn.m, turn.at, n)
        IN  /\ Asking
            /\ mem' = [mem EXCEPT !.check = Point(c, FALSE)]
            /\ turn' = [turn EXCEPT !.pc = "tools", !.work = Append(@, c)]
            /\ UNCHANGED <<file, seen, exits, faults>>

\* The model asks for tools: the checkpoint with all calls pending is saved
\* before the first one runs.
CallTools ==
    \E n \in 1..MaxCalls :
        LET c == Calls(turn.m, turn.at, n)
        IN  /\ Asking
            /\ SavePoint(Point(c, FALSE),
                         [turn EXCEPT !.pc = "tools", !.work = Append(@, c)])
            /\ UNCHANGED <<seen, exits>>

\* All tools ended: the checkpoint is saved with their results.
ToolsDone ==
    \E F \in FollowUps :
        LET c == Last(turn.work)
        IN  /\ At("tools")
            /\ SavePoint(Point(c, TRUE),
                         [Iterate(turn.work \o Results(c), F) EXCEPT !.blank = FALSE])
            /\ seen' = seen \cup turn'.heard
            /\ UNCHANGED exits

\* A tool failed fatally: an error text ends the turn unless a follow-up waits.
ToolsFail ==
    \E F \in FollowUps :
        /\ At("tools")
        /\ turn' = EndOrIterate(Ending(turn.work \o Results(Last(turn.work))), F)
        /\ seen' = seen \cup F
        /\ UNCHANGED <<file, mem, exits, faults>>

\* The user stopped the turn when asked to approve a tool.
ToolsStopped ==
    /\ At("tools")
    /\ turn' = Ran(Ending(turn.work \o Results(Last(turn.work))))
    /\ UNCHANGED <<file, mem, seen, exits, faults>>

\* The model answers: the answer is saved as a checkpoint, with a follow-up the
\* turn goes on.
Answer ==
    \E F \in FollowUps :
        LET t == Text(turn.m, turn.at)
        IN  /\ Asking
            /\ SavePoint(Point(t, FALSE), EndOrIterate(Append(turn.work, t), F))
            /\ seen' = seen \cup F
            /\ UNCHANGED exits

\* The answer was cut off: it is kept and the model is asked to go on.
Truncated ==
    /\ Asking
    /\ turn' = Iterate(turn.work \o <<Text(turn.m, turn.at), Item("nudge", turn.m, turn.at, 0)>>, {})
    /\ UNCHANGED <<file, mem, seen, exits, faults>>

\* A first empty answer is tried again.
Blank ==
    /\ Asking /\ ~turn.blank
    /\ turn' = [Iterate(turn.work, {}) EXCEPT !.blank = TRUE]
    /\ UNCHANGED <<file, mem, seen, exits, faults>>

\* The model fails, or answers nothing a second time: with a follow-up the turn
\* goes on, taken before or after the error text, otherwise that text ends it.
NoAnswer ==
    \E F \in FollowUps :
        /\ Asking
        /\ turn' \in {EndOrIterate(Ending(turn.work), F)}
                     \cup (IF F = {} THEN {} ELSE {Iterate(turn.work, F)})
        /\ seen' = seen \cup F
        /\ UNCHANGED <<file, mem, exits, faults>>

\* Out of iterations: a last follow-up is taken and a closing text is added.
OutOfIterations ==
    \E F \in FollowUps :
        /\ At("model") /\ turn.at = MaxIterations
        /\ turn' = [Ran(Ending(Injected(turn.work, F))) EXCEPT !.heard = @ \cup F]
        /\ seen' = seen \cup F
        /\ UNCHANGED <<file, mem, exits, faults>>

-----------------------------------------------------------------------------
(* The end of a turn.                                                       *)

\* Mutant: the checkpoint of the turn is not removed.
SaveTurn_KeepsCheckpoint ==
    /\ At("ran")
    /\ Save([mem EXCEPT !.log = @ \o turn.work, !.open = @ /\ turn.m \notin User], Idle)
    /\ UNCHANGED <<seen, exits>>

\* What the runner appended becomes history. (Results without their calls are
\* dropped here; `work` has none.)
Appended(log, work) == log \o work

\* SAVE: the checkpoint and the mark are removed in the same save.
SaveTurn ==
    /\ At("ran")
    /\ Save([log |-> Appended(mem.log, turn.work), check |-> Nothing,
             open |-> mem.open /\ turn.m \notin User], Idle)
    /\ UNCHANGED <<seen, exits>>

\* A turn is cancelled where it awaits: the checkpoint is made history at once.
\* A save that fails here is only logged.
Running == ~At("idle") /\ ~At("clearing")

Interrupt(next) ==
    /\ Running
    /\ turn' = next
    /\ IF mem.check = Nothing THEN UNCHANGED <<mem, file, faults>>
       ELSE /\ mem' = RestoreCheckpoint(mem)
            /\ \/ file' = mem' /\ UNCHANGED faults
               \/ faults < FaultLimit /\ faults' = faults + 1 /\ UNCHANGED file
    /\ UNCHANGED exits

\* /stop and the timer.
Cancel == Interrupt(Idle) /\ UNCHANGED seen

\* /new while the turn runs.
CancelForNew(m) ==
    /\ m \in Command \ seen
    /\ Interrupt([Idle EXCEPT !.m = m, !.pc = "clearing"])
    /\ seen' = seen \cup {m}

\* The turn raises: the session is left as it is for the next turn's RESTORE.
Fail ==
    /\ Running
    /\ turn' = Idle
    /\ UNCHANGED <<file, mem, seen, exits, faults>>

-----------------------------------------------------------------------------
(* The process.                                                             *)

\* The process exits: the file is what remains.
Exit ==
    /\ exits < ExitLimit /\ exits' = exits + 1
    /\ mem # Nothing
    /\ mem' = Nothing /\ turn' = Idle
    /\ UNCHANGED <<file, seen, faults>>

\* flush_all of an orderly exit, or a save for the flags of a goal, writes the
\* cached session whatever its turn does.
Flush ==
    /\ mem # Nothing
    /\ file' = mem
    /\ UNCHANGED <<mem, turn, seen, exits, faults>>

\* Idle compaction drops the cached session without saving it.
Invalidate ==
    /\ At("idle") /\ mem # Nothing
    /\ mem' = Nothing
    /\ UNCHANGED <<file, turn, seen, exits, faults>>

Run == CallTools \/ ToolsDone \/ ToolsFail \/ ToolsStopped \/ Answer \/ Truncated
       \/ Blank \/ NoAnswer \/ OutOfIterations

Next ==
    \/ \E m \in Msg : Begin(m) \/ CancelForNew(m)
    \/ Restore \/ New \/ RunCommand \/ RunCommandCut \/ BuildUser \/ BuildFollowup
    \/ Run
    \/ SaveTurn \/ Cancel \/ Fail
    \/ Exit \/ Flush \/ Invalidate

Spec == Init /\ [][Next]_vars

-----------------------------------------------------------------------------
(* Properties.                                                              *)

\* The file and the cached session are histories with at most one checkpoint, a
\* running turn has its message and its session, and a turn that runs tools has
\* their calls as its last message.
TypeOK ==
    /\ file \in Saved /\ mem \in Saved \cup {Nothing}
    /\ turn \in Turn
    /\ seen \in SUBSET Msg /\ exits \in 0..ExitLimit /\ faults \in 0..FaultLimit
    /\ ~At("idle") => turn.m \in seen /\ mem # Nothing
    /\ At("tools") => turn.work # <<>> /\ Last(turn.work).kind = "calls"

\* The calls of an assistant message are answered one by one right after it and
\* nothing else is an answer: a provider rejects any other history.
Legal(log) ==
    \A k \in 1..Len(log) :
        /\ log[k].kind = "calls" =>
               /\ k + log[k].no <= Len(log)
               /\ \A j \in 1..log[k].no : /\ log[k + j].kind \in {"result", "cut"}
                                         /\ log[k + j].of = log[k].of
                                         /\ log[k + j].at = log[k].at /\ log[k + j].no = j
        /\ log[k].kind \in {"result", "cut"} =>
               /\ k > log[k].no
               /\ log[k - log[k].no].kind = "calls" /\ log[k - log[k].no].no >= log[k].no

\* However turns end, the history in the file and in memory is one a provider
\* takes (_restore_runtime_checkpoint, _save_turn).
HistoryLegal == Legal(file.log) /\ (mem # Nothing => Legal(mem.log))

\* No message enters the history twice: a turn that was saved is not restored
\* from its checkpoint as well (_clear_runtime_checkpoint).
NoRepeats ==
    \A s \in {file, mem} \ {Nothing} :
        \A j, k \in 1..Len(s.log) : s.log[j] = s.log[k] => j = k

\* A user message that was left without an answer is closed before the next one
\* is written (_restore_pending_user_turn).
EveryTurnClosed ==
    \A s \in {file, mem} \ {Nothing} :
        \A k \in 1..Len(s.log) - 1 :
            ~(s.log[k].kind = "user" /\ s.log[k + 1].kind = "user")

\* Tools run only after the file holds the message of their turn and the
\* checkpoint with all their calls pending, so an exit cannot hide that they
\* may have run (_emit_checkpoint before _execute_tools).
WriteAhead ==
    At("tools") =>
        /\ file.check = Point(Last(turn.work), FALSE)
        /\ \E e \in Elements(file.log) : e.of = turn.m /\ e.kind \in {"user", "followup"}

\* Whatever relation a step keeps from the session to its next state and to what
\* it writes. /new is free of it; an exit and an invalidation go back to the file.
Keeps(R(_, _)) ==
    \/ New
    \/ /\ mem' = Nothing \/ R(Session, Session')
       /\ file' = file \/ R(Session, file')

\* Only /new takes messages from the history, and every save writes all of it:
\* in particular the file never falls behind what it held (SessionManager.save).
Extends(s, t) == Len(s.log) <= Len(t.log) /\ s.log = SubSeq(t.log, 1, Len(s.log))
HistoryGrows == [][Keeps(Extends)]_vars

\* The iterations of a turn that a session tells of, in its history or in its
\* checkpoint.
Reached(s, m) ==
    {e.at : e \in {d \in Elements(s.log) : d.of = m /\ d.kind \in {"calls", "text"}}}
    \cup (IF s.check # Nothing /\ s.check.said.of = m THEN {s.check.said.at} ELSE {})

\* What a session tells of a turn never goes back to an earlier step: a
\* checkpoint is replaced by a later one of its turn or made history.
Advances(s, t) == \A m \in Msg : \A i \in Reached(s, m) : \E j \in Reached(t, m) : j >= i
ProgressKept == [][Keeps(Advances)]_vars

\* A cancelled turn leaves every assistant message that called tools in the
\* history, as the comment of _dispatch's handler and the tests of /stop say. The
\* code leaves the last one.
AccumulatedKept ==
    [][Cancel => \A e \in Elements(turn.work) : e.kind = "calls" => e \in Elements(mem'.log)]_vars

\* A follow-up a turn took in is part of the history the turn saves, as the
\* comment on the last drain of AgentRunner says. The code drops the one it
\* merged into the message of the turn.
InjectedKept ==
    [][SaveTurn /\ file' # file => \A m \in turn.heard : Heard(m) \in Elements(file'.log)]_vars
=============================================================================
