---------------------------- MODULE TurnDispatch ----------------------------
(***************************************************************************)
(* How the agent loop turns inbound messages into turns                    *)
(* (nanobot/agent/loop.py, nanobot/agent/automation_turns.py,              *)
(* nanobot/command/builtin.py:cmd_stop).                                   *)
(*                                                                         *)
(* One coroutine, AgentLoop.run, takes messages off the inbound bus and    *)
(* routes each one: /stop is executed inside the run loop, an automation   *)
(* message for a busy session is deferred, a message for a busy session    *)
(* goes to the pending queue of the running turn, anything else becomes a  *)
(* task running _dispatch.  A task takes its session's lock, then a slot   *)
(* of the concurrency gate, publishes its pending queue, runs the turn,    *)
(* and when the turn ends puts what is left in the queue back on the bus.  *)
(* /stop and the goal-wait timer cancel the tasks of a session.            *)
(*                                                                         *)
(* Each action is a stretch of code between two suspension points of the   *)
(* event loop.  A task is named by the message it was created for: no      *)
(* message ever becomes a task twice.                                      *)
(*                                                                         *)
(* A definition D_Xxx is a mutant of D: it is used by no specification and *)
(* stands for a bug the properties are expected to catch.                  *)
(***************************************************************************)
EXTENDS Naturals, Sequences, FiniteSets

CONSTANTS
    Session,      \* session keys, after _effective_session_key
    User,         \* messages typed by a person
    System,       \* results announced by subagents (channel "system")
    Automation,   \* cron and local-trigger turns
    Stop,         \* /stop commands
    Key,          \* Key[m]: the session of message m
    PendingCap,   \* capacity of a turn's pending queue (20 in the code)
    InjectLimit,  \* messages taken by one drain (3 in the code)
    GateSlots,    \* turns that may run at once, over all sessions
    GoalSession,  \* sessions with an open sustained goal
    Loop,         \* the run loop, as the agent of a /stop
    NoTask        \* no queue published

Msg == User \cup System \cup Automation \cup Stop

\* Whoever runs _cancel_active_tasks: the run loop for /stop, and for every
\* session the task of its goal-wait timer.
Canceller == Session \cup {Loop}

ASSUME DispatchAssumption ==
    /\ Session # {}
    /\ Key \in [Msg -> Session]
    /\ GoalSession \subseteq Session
    /\ PendingCap \in Nat \ {0}
    /\ InjectLimit \in Nat \ {0}
    /\ GateSlots \in Nat \ {0}
    /\ NoTask \notin Msg
    /\ Loop \notin Session
    /\ IsFiniteSet(Msg)
    /\ User \cap System = {} /\ User \cap Automation = {} /\ User \cap Stop = {}
    /\ System \cap Automation = {} /\ System \cap Stop = {} /\ Automation \cap Stop = {}

VARIABLES
    place,      \* place[m]: the stage of its life message m has reached
    inbound,    \* MessageBus.inbound
    deferred,   \* deferred[s]: automation messages waiting for an idle session
    box,        \* box[t]: the asyncio.Queue created by task t
    reg,        \* _pending_queues: the task whose queue is published for s
    ahead,      \* ahead[t]: tasks before t in the FIFO of its session lock
    active,     \* _active_tasks[s]
    cancelled,  \* tasks on which cancel() was called
    waiter,     \* waiter[m]: the future AutomationTurnCoordinator.submit awaits
    timer,      \* timer[s]: a goal-wait timer is armed for s
    canceller   \* progress of each _cancel_active_tasks in flight

vars == <<place, inbound, deferred, box, reg, ahead, active, cancelled,
          waiter, timer, canceller>>

Place == {"unsent",    \* does not exist yet
          "brewing",   \* a subagent works on it
          "inbound", "deferred",
          "boxed",     \* in the pending queue of a turn
          "created",   \* its task exists and has not run its first step
          "waiting",   \* its task waits for the session lock or for the gate
          "running",   \* its task runs the turn
          "injected",  \* read by the turn of another message
          "done",      \* its turn ended, with or without an error
          "aborted",   \* its task was cancelled before the turn began
          "dropped"}   \* thrown away

Settled  == {"injected", "done", "aborted", "dropped"}
Finished_IgnoresAborted == {"done"}
Finished == {"done", "aborted"}

Idle(s) == [stage |-> "idle", key |-> s, waits |-> {}]
CancelJob == [stage : {"idle", "tasks", "purge"}, key : Session, waits : SUBSET Msg]

Holding_OnlyOwner(s) == {t \in Msg : Key[t] = s /\ place[t] = "running"}
Holding(s) == {t \in Msg : Key[t] = s /\ place[t] \in {"waiting", "running"}}
Running == {t \in Msg : place[t] = "running"}
Elements(q) == {q[i] : i \in 1..Len(q)}

Init ==
    /\ place = [m \in Msg |-> "unsent"]
    /\ inbound = <<>>
    /\ deferred = [s \in Session |-> <<>>]
    /\ box = [t \in Msg |-> <<>>]
    /\ reg = [s \in Session |-> NoTask]
    /\ ahead = [t \in Msg |-> {}]
    /\ active = [s \in Session |-> {}]
    /\ cancelled = {}
    /\ waiter = [m \in Automation |-> "none"]
    /\ timer = [s \in Session |-> FALSE]
    /\ canceller = [c \in Canceller |->
                      Idle(IF c \in Session THEN c ELSE CHOOSE s \in Session : TRUE)]

Moved(S, to) == [m \in Msg |-> IF m \in S THEN to ELSE place[m]]

-----------------------------------------------------------------------------
(* Producers: channels, automations and subagents.                         *)

\* A channel publishes what a person typed.
Send(m) ==
    /\ m \in User \cup Stop
    /\ place[m] = "unsent"
    /\ place' = Moved({m}, "inbound")
    /\ inbound' = Append(inbound, m)
    /\ UNCHANGED <<deferred, box, reg, ahead, active, cancelled, waiter, timer, canceller>>

\* AutomationTurnCoordinator.submit up to `await future`.
Submit(m) ==
    /\ m \in Automation
    /\ place[m] = "unsent"
    /\ waiter' = [waiter EXCEPT ![m] = "pending"]
    /\ place' = Moved({m}, "inbound")
    /\ inbound' = Append(inbound, m)
    /\ UNCHANGED <<deferred, box, reg, ahead, active, cancelled, timer, canceller>>

\* The submitter is cancelled at `await future`; its finally forgets the waiter.
Abandon(m) ==
    /\ m \in Automation
    /\ waiter[m] = "pending"
    /\ waiter' = [waiter EXCEPT ![m] = "none"]
    /\ UNCHANGED <<place, inbound, deferred, box, reg, ahead, active, cancelled,
                   timer, canceller>>

\* A turn starts a subagent.
Spawn(t, m) ==
    /\ m \in System
    /\ place[t] = "running" /\ t \notin cancelled
    /\ Key[t] = Key[m]
    /\ place[m] = "unsent"
    /\ place' = Moved({m}, "brewing")
    /\ UNCHANGED <<inbound, deferred, box, reg, ahead, active, cancelled, waiter,
                   timer, canceller>>

\* The subagent finishes and announces its result on the bus.
Announce(m) ==
    /\ place[m] = "brewing"
    /\ place' = Moved({m}, "inbound")
    /\ inbound' = Append(inbound, m)
    /\ UNCHANGED <<deferred, box, reg, ahead, active, cancelled, waiter, timer, canceller>>

-----------------------------------------------------------------------------
(* AgentLoop.run: one message, one route.                                  *)

Consume(m) ==
    /\ canceller[Loop].stage = "idle"
    /\ inbound # <<>>
    /\ m = Head(inbound)
    /\ inbound' = Tail(inbound)

BeginCancel_OnlyRunning(c, s) ==
    /\ canceller' = [canceller EXCEPT ![c] =
                       [stage |-> "tasks", key |-> s, waits |-> active[s]]]
    /\ cancelled' = cancelled \cup (active[s] \cap Running)
    /\ active' = [active EXCEPT ![s] = {}]

BeginCancel_AllSessions(c, s) ==
    /\ canceller' = [canceller EXCEPT ![c] =
                       [stage |-> "tasks", key |-> s, waits |-> active[s]]]
    /\ cancelled' = cancelled \cup UNION {active[r] : r \in Session}
    /\ active' = [r \in Session |-> {}]

\* _cancel_active_tasks up to its first await.
BeginCancel(c, s) ==
    /\ canceller' = [canceller EXCEPT ![c] =
                       [stage |-> "tasks", key |-> s, waits |-> active[s]]]
    /\ cancelled' = cancelled \cup active[s]
    /\ active' = [active EXCEPT ![s] = {}]

\* dispatch_priority -> cmd_stop, awaited by the run loop itself.
StopCommand(m) ==
    /\ Consume(m)
    /\ m \in Stop
    /\ BeginCancel(Loop, Key[m])
    /\ place' = Moved({m}, "done")
    /\ UNCHANGED <<deferred, box, reg, ahead, waiter, timer>>

\* AutomationTurnCoordinator.defer_if_active.
Defer(m) ==
    /\ Consume(m)
    /\ m \in Automation
    /\ reg[Key[m]] # NoTask
    /\ deferred' = [deferred EXCEPT ![Key[m]] = Append(@, m)]
    /\ place' = Moved({m}, "deferred")
    /\ UNCHANGED <<box, reg, ahead, active, cancelled, waiter, timer, canceller>>

HasRoom_Unbounded(s) == reg[s] # NoTask
HasRoom(s) == reg[s] # NoTask /\ Len(box[reg[s]]) < PendingCap

\* put_nowait on the pending queue of the running turn.
RouteToTurn(m) ==
    /\ Consume(m)
    /\ m \in User \cup System
    /\ HasRoom(Key[m])
    /\ box' = [box EXCEPT ![reg[Key[m]]] = Append(@, m)]
    /\ place' = Moved({m}, "boxed")
    /\ UNCHANGED <<deferred, reg, ahead, active, cancelled, waiter, timer, canceller>>

\* create_task(_dispatch(msg)): no turn is running, or its queue is full.
CreateTask(m) ==
    /\ Consume(m)
    /\ m \notin Stop
    /\ IF m \in Automation THEN reg[Key[m]] = NoTask ELSE ~HasRoom(Key[m])
    /\ active' = [active EXCEPT ![Key[m]] = @ \cup {m}]
    /\ place' = Moved({m}, "created")
    /\ UNCHANGED <<deferred, box, reg, ahead, cancelled, waiter, timer, canceller>>

-----------------------------------------------------------------------------
(* _cancel_active_tasks and what its callers do next.                      *)

\* Every awaited task is over: cancel_by_session cancels the subagents.
CancelSubagents(c) ==
    LET job == canceller[c]
    IN  /\ job.stage = "tasks"
        /\ \A t \in job.waits : place[t] \in Finished
        /\ place' = Moved({m \in System : Key[m] = job.key /\ place[m] = "brewing"},
                          "dropped")
        /\ canceller' = [canceller EXCEPT ![c] = [@ EXCEPT !.stage = "purge"]]
        /\ UNCHANGED <<inbound, deferred, box, reg, ahead, active, cancelled, waiter, timer>>

\* cmd_stop and _goal_await_timeout pop the pending queue published for the
\* session, whoever owns it by now, and discard what it holds.
DiscardQueue(c) ==
    LET s == canceller[c].key
        t == reg[s]
    IN  /\ canceller[c].stage = "purge"
        /\ canceller' = [canceller EXCEPT ![c] = Idle(s)]
        /\ reg' = [reg EXCEPT ![s] = NoTask]
        /\ IF t = NoTask
           THEN UNCHANGED <<place, box>>
           ELSE /\ place' = Moved(Elements(box[t]), "dropped")
                /\ box' = [box EXCEPT ![t] = <<>>]
        /\ UNCHANGED <<inbound, deferred, ahead, active, cancelled, waiter, timer>>

\* _goal_await_timeout wakes up.  ONE EXPIRY per session at a time: the next
\* timer needs minutes, the cancellation does not.
TimerExpires(s) ==
    /\ timer[s]
    /\ canceller[s].stage = "idle"
    /\ timer' = [timer EXCEPT ![s] = FALSE]
    /\ BeginCancel(s, s)
    /\ UNCHANGED <<place, inbound, deferred, box, reg, ahead, waiter>>

-----------------------------------------------------------------------------
(* _dispatch.                                                              *)

\* First step of the task: it queues up for the session lock.
TaskStart(t) ==
    /\ place[t] = "created" /\ t \notin cancelled
    /\ ahead' = [ahead EXCEPT ![t] = Holding(Key[t])]
    /\ place' = Moved({t}, "waiting")
    /\ UNCHANGED <<inbound, deferred, box, reg, active, cancelled, waiter, timer, canceller>>

\* A task cancelled before its first step never enters _dispatch.
TaskNeverStarts(t) ==
    /\ place[t] = "created" /\ t \in cancelled
    /\ place' = Moved({t}, "aborted")
    /\ UNCHANGED <<inbound, deferred, box, reg, ahead, active, cancelled, waiter,
                   timer, canceller>>

\* The task owns the lock and a slot: it publishes a fresh pending queue and
\* enters RESTORE, where anything but a subagent result ends a goal wait.
TurnBegin(t) ==
    /\ place[t] = "waiting" /\ t \notin cancelled
    /\ ahead[t] = {}
    /\ Cardinality(Running) < GateSlots
    /\ place' = Moved({t}, "running")
    /\ reg' = [reg EXCEPT ![Key[t]] = t]
    /\ box' = [box EXCEPT ![t] = <<>>]
    /\ timer' = [timer EXCEPT ![Key[t]] = @ /\ t \in System]
    /\ UNCHANGED <<inbound, deferred, ahead, active, cancelled, waiter, canceller>>

\* publish_next_deferred_turn.
NextDeferred_Never(s) == <<>>
NextDeferred(s) == IF deferred[s] = <<>> THEN <<>> ELSE <<Head(deferred[s])>>
PopDeferred(s) == IF deferred[s] = <<>> THEN <<>> ELSE Tail(deferred[s])

\* Leaving `async with lock`, and the done callback of the task.
Release(t) ==
    /\ ahead' = [u \in Msg |-> IF u = t THEN {} ELSE ahead[u] \ {t}]
    /\ active' = [active EXCEPT ![Key[t]] = @ \ {t}]

\* Cancelled while it waited for the lock or the gate: the outer finally.
TaskAborts(t) ==
    LET s == Key[t]
    IN  /\ place[t] = "waiting" /\ t \in cancelled
        /\ Release(t)
        /\ place' = [m \in Msg |-> CASE m = t -> "aborted"
                                     [] m \in Elements(NextDeferred(s)) -> "inbound"
                                     [] OTHER -> place[m]]
        /\ inbound' = inbound \o NextDeferred(s)
        /\ deferred' = [deferred EXCEPT ![s] = PopDeferred(s)]
        /\ UNCHANGED <<box, reg, cancelled, waiter, timer, canceller>>

\* How many messages one drain takes, and what it leaves in the queue.
Batch(t) == IF Len(box[t]) < InjectLimit THEN Len(box[t]) ELSE InjectLimit
Unread_Peeks(t) == box[t]
Unread(t) == SubSeq(box[t], Batch(t) + 1, Len(box[t]))

\* A drain: up to InjectLimit messages join the running turn.
Drain(t) ==
    /\ place[t] = "running" /\ t \notin cancelled
    /\ box[t] # <<>>
    /\ place' = Moved(Elements(SubSeq(box[t], 1, Batch(t))), "injected")
    /\ box' = [box EXCEPT ![t] = Unread(t)]
    /\ UNCHANGED <<inbound, deferred, reg, ahead, active, cancelled, waiter,
                   timer, canceller>>

\* AutomationTurnCoordinator.complete.
Answer_OnlySuccess(t, outcome) ==
    waiter' = [m \in Automation |-> IF m = t /\ waiter[m] = "pending" /\ outcome = "ok"
                                    THEN outcome ELSE waiter[m]]
Answer(t, outcome) ==
    waiter' = [m \in Automation |-> IF m = t /\ waiter[m] = "pending"
                                    THEN outcome ELSE waiter[m]]

\* The turn withdraws its pending queue, if it is still the one published.
Withdraw_Never(t) == UNCHANGED reg
Withdraw(t) == reg' = [reg EXCEPT ![Key[t]] = IF @ = t THEN NoTask ELSE @]

\* complete() and the inner finally: the turn withdraws its own queue, puts
\* the leftovers back on the bus in order, then the next deferred automation.
Finish(t, outcome) ==
    LET s == Key[t]
        back == box[t] \o NextDeferred(s)
    IN  /\ place[t] = "running"
        /\ Release(t)
        /\ Answer(t, outcome)
        /\ Withdraw(t)
        /\ place' = [m \in Msg |-> CASE m = t -> "done"
                                     [] m \in Elements(back) -> "inbound"
                                     [] OTHER -> place[m]]
        /\ inbound' = inbound \o back
        /\ box' = [box EXCEPT ![t] = <<>>]
        /\ deferred' = [deferred EXCEPT ![s] = PopDeferred(s)]
        /\ UNCHANGED <<cancelled, canceller>>

\* _process_message returned; in a session with an open goal it may have
\* armed the goal-wait timer (_state_run), which a subagent's turn never does.
TurnReturns(t, arm) ==
    /\ t \notin cancelled
    /\ arm => Key[t] \in GoalSession /\ t \notin System
    /\ Finish(t, "ok")
    /\ timer' = [timer EXCEPT ![Key[t]] = @ \/ arm]

\* _process_message raised an exception.
TurnFails(t) ==
    /\ t \notin cancelled
    /\ Finish(t, "error")
    /\ UNCHANGED timer

\* _process_message was interrupted by the CancelledError.
TurnInterrupted(t) ==
    /\ t \in cancelled
    /\ Finish(t, "error")
    /\ UNCHANGED timer

TurnEnds(t) ==
    \/ \E arm \in BOOLEAN : TurnReturns(t, arm)
    \/ TurnFails(t)
    \/ TurnInterrupted(t)

-----------------------------------------------------------------------------
Route ==
    \E m \in Msg : StopCommand(m) \/ Defer(m) \/ RouteToTurn(m) \/ CreateTask(m)

Next ==
    \/ \E m \in Msg : Send(m) \/ Submit(m) \/ Announce(m)
    \/ \E m \in Automation : Abandon(m)
    \/ \E t, m \in Msg : Spawn(t, m)
    \/ Route
    \/ \E c \in Canceller : CancelSubagents(c) \/ DiscardQueue(c)
    \/ \E s \in Session : TimerExpires(s)
    \/ \E t \in Msg : \/ TaskStart(t) \/ TaskNeverStarts(t) \/ TaskAborts(t)
                      \/ TurnBegin(t) \/ Drain(t) \/ TurnEnds(t)

Spec == Init /\ [][Next]_vars

\* The event loop runs every ready coroutine; a turn ends because its
\* iterations and its model calls are bounded; the lock and the gate are FIFO,
\* so a task at the head of its lock is not passed over for ever.
Fairness ==
    /\ WF_vars(Route)
    /\ \A m \in Msg : WF_vars(Announce(m))
    /\ \A c \in Canceller : WF_vars(CancelSubagents(c) \/ DiscardQueue(c))
    /\ \A t \in Msg : /\ WF_vars(TaskStart(t) \/ TaskNeverStarts(t) \/ TaskAborts(t))
                      /\ WF_vars(TurnEnds(t))
                      /\ SF_vars(TurnBegin(t))

FairSpec == Spec /\ Fairness

-----------------------------------------------------------------------------
(* Type.                                                                   *)

\* Every variable has its type and no pending queue exceeds its capacity.
TypeOK ==
    /\ place \in [Msg -> Place]
    /\ inbound \in Seq(Msg)
    /\ deferred \in [Session -> Seq(Automation)]
    /\ box \in [Msg -> Seq(User \cup System)]
    /\ \A t \in Msg : Len(box[t]) <= PendingCap
    /\ reg \in [Session -> Msg \cup {NoTask}]
    /\ ahead \in [Msg -> SUBSET Msg]
    /\ active \in [Session -> SUBSET Msg]
    /\ cancelled \subseteq Msg
    /\ waiter \in [Automation -> {"none", "pending", "ok", "error"}]
    /\ timer \in [Session -> BOOLEAN]
    /\ canceller \in [Canceller -> CancelJob]

-----------------------------------------------------------------------------
(* Safety.                                                                 *)

NoRepeat(q) == \A i, j \in 1..Len(q) : q[i] = q[j] => i = j

BusConserved ==
    /\ NoRepeat(inbound)
    /\ \A m \in Msg : place[m] = "inbound" <=> m \in Elements(inbound)

DeferredConserved ==
    /\ \A s \in Session : NoRepeat(deferred[s])
    /\ \A m \in Msg, s \in Session :
          m \in Elements(deferred[s]) <=> place[m] = "deferred" /\ Key[m] = s

BoxesConserved ==
    /\ \A t \in Msg : NoRepeat(box[t])
    /\ \A m, t \in Msg : m \in Elements(box[t]) => place[m] = "boxed" /\ Key[m] = Key[t]
    /\ \A m, t, u \in Msg : m \in Elements(box[t]) /\ m \in Elements(box[u]) => t = u
    /\ \A m \in Msg : place[m] = "boxed" => \E t \in Msg : m \in Elements(box[t])

\* No message is lost or duplicated on its way through the queues: the bus, the
\* deferred lists and the pending queues hold each message that is at that
\* stage exactly once, in one queue, of its own session, and nothing else
\* (_dispatch republishes leftovers "rather than silently lost").
MessagesConserved == BusConserved /\ DeferredConserved /\ BoxesConserved

\* Whatever is put in a pending queue will be read or republished: the queue
\* published for a session belongs to a running turn of that session, and only
\* a running turn's queue holds messages (the ownership comments in _dispatch).
QueueHasOwner ==
    /\ \A s \in Session : reg[s] # NoTask =>
          place[reg[s]] = "running" /\ Key[reg[s]] = s
    /\ \A t \in Msg : box[t] # <<>> => place[t] = "running"

\* The session lock is first come, first served: of two tasks that reached it,
\* one is ahead of the other, and only a task with nobody ahead runs.
LockIsFifo ==
    /\ \A t, u \in Msg :
          /\ t # u /\ Key[t] = Key[u]
          /\ place[t] \in {"waiting", "running"} /\ place[u] \in {"waiting", "running"}
          => t \in ahead[u] \/ u \in ahead[t]
    /\ \A t \in Msg : place[t] # "waiting" => ahead[t] = {}

\* "Per-session serial": two turns of one session never run together.
OneTurnPerSession ==
    \A t, u \in Msg : /\ place[t] = "running" /\ place[u] = "running"
                      /\ Key[t] = Key[u]
                     => t = u

\* /stop can find every task of its session: a live task is listed in
\* _active_tasks or has already been cancelled.
StopFindsEveryTask ==
    \A t \in Msg : place[t] \in {"created", "waiting", "running"} =>
                     t \in active[Key[t]] \/ t \in cancelled

\* An unanswered submitter has a turn still to come, unless that turn was
\* cancelled before it began; in particular its message is never injected
\* into the turn of another message.
WaiterHasTurn ==
    \A m \in Automation : waiter[m] = "pending" =>
        place[m] \in {"inbound", "deferred", "created", "waiting", "running", "aborted"}

\* A message is consumed once: read by a turn, made into a turn or thrown away,
\* it never comes back.
ConsumedOnce ==
    [][\A m \in Msg : place[m] \in Settled => place'[m] = place[m]]_vars

\* A session's turn is interrupted only by a /stop or a timer of that session.
InterruptedByOwnSession ==
    [][\A t \in Msg : t \in cancelled' \ cancelled =>
         \E c \in Canceller : canceller'[c].stage = "tasks" /\ canceller'[c].key = Key[t]]_vars

-----------------------------------------------------------------------------
(* Liveness, under FairSpec.                                               *)

\* Without /stop and goal timers every accepted message is read by a turn or
\* gets its own: no leftover, deferred or overflowing message is forgotten.
AcceptedIsServed ==
    \A m \in Msg : place[m] = "inbound" ~> place[m] \in {"injected", "done"}

\* submit: "Submit an automation turn and wait for its session response."
WaiterIsAnswered ==
    \A m \in Automation : waiter[m] = "pending" ~> waiter[m] # "pending"

\* The run loop awaits the tasks it cancels, and always gets back to the bus.
StopReturns ==
    \A c \in Canceller : canceller[c].stage # "idle" ~> canceller[c].stage = "idle"

\* Whatever is cancelled when, an accepted user message or subagent result
\* is disposed of: no cancellation leaves it in a queue nobody reads.
AcceptedIsSettled ==
    \A m \in User \cup System : place[m] = "inbound" ~> place[m] \in Settled

-----------------------------------------------------------------------------
(* What documentation, comments and tests say, and the code does not do.   *)

Busy(s) == \E t \in Msg : Key[t] = s /\ place[t] \in {"created", "waiting", "running"}

\* "If the target session is busy, the trigger waits until that session is
\* idle": a deferred automation waits only while its session has work.
DeferredWaitsWhileBusy ==
    \A s \in Session : deferred[s] # <<>> =>
        Busy(s) \/ \E m \in Elements(inbound) : Key[m] = s
=============================================================================
