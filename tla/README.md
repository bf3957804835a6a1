# nanobot in TLA+

nanobot is a personal agent: chat channels, timers and local scripts put
messages on a bus, one asyncio loop turns each message into an agent *turn* of a
*session*, and the turn's answer goes back to the channel. This directory holds
TLA+ models of the parts of it where order, interleaving and failure matter,
the TLC runs that check them, and proofs of their central properties.

## 1. Inventory

Paths are below `nanobot/`. "Hard" names what tests hardly reach.

| Component | State | Operations | Hard | What makes it correct |
|---|---|---|---|---|
| **Message dispatch** `agent/loop.py` (`run`, `_dispatch`), `bus/queue.py` | inbound bus, pending queue per running turn, session locks, concurrency gate, list of tasks per session | route, create task, begin turn, drain, finish, cancel | every `await` lets other coroutines change the queues; cancellation hits a task anywhere | one turn per session, FIFO per session, no message lost or doubled, every accepted message disposed of |
| **Automation turns** `agent/automation_turns.py`, `agent/cron_turns.py`, `triggers/local_turns.py` | future per submitted turn, deferred list per session | submit, defer, publish next, complete, abandon | the submitter waits for a turn that may be deferred, cancelled or fail | every submitter answered; an automation never injected into a user's turn |
| **/stop and the goal-wait timer** `command/builtin.py`, `agent/loop.py` | cancellation in progress | cancel tasks, cancel subagents, discard the queue | two cancellers and the turn they cancel | every task of the session found, nobody else's touched, cancellation returns |
| **Subagents** `agent/subagent.py` | running tasks by session | spawn, announce, cancel | result arrives in a session that was stopped | result reaches its own session, or is dropped with it |
| **Local triggers** `triggers/local_store.py`, `triggers/local_runner.py` | triggers.json; inbox/, processing/, failed/; run records | create, enable, pause, delete, enqueue, recover, claim, deliver, retry, complete | the gateway exits between or inside file operations; other processes pause and delete | at-least-once: kept until answered; bounded attempts; outcome reported |
| **Turn checkpoint** `agent/loop.py` (`_persist_user_message_early`, `_set_runtime_checkpoint`, `_restore_*`, `_state_*`) | session file, its checkpoint and pending-turn mark | persist early, checkpoint, save, restore | crash or cancel between any two saves | history is a legal sequence, nothing repeated, nothing lost |
| **Session store** `session/manager.py` | cache of Session objects, one JSONL file each | get, save, reload, repair, cap, flush, invalidate, fork, delete | stale objects after invalidate, partial files | last save wins, cursor within bounds, tool calls paired |
| **Consolidation** `agent/memory.py`, `agent/autocompact.py` | `last_consolidated`, history.jsonl, one lock per session | archive, consolidate by tokens and by window, compact idle, check expiry | the model call is awaited while the session changes; two objects of one session | every message summarised or written raw before it leaves the prompt; a /new leaves nothing behind |
| **Cron** `cron/service.py`, `cron/bound_runner.py` | jobs.json, action log, timer, running flag | add, update, enable, remove, run, tick, merge, save | jobs execute across reloads, edits and re-armed timers; a cancelled tick resets the running flag when it has unwound, perhaps under the next one | a due occurrence is started, and once, and never on a stale list |
| **Goals** `session/goal_state.py`, `session/turn_continuation.py`, `agent/tools/long_task.py` | goal in session metadata, continuation counter | start, wait for user, continue, complete | continuation raced by users and timers | no continuation while waiting; an active goal is driven or waits |
| **Runner** `agent/runner.py` | messages of the turn, retry and injection counters | model call, tools, injection, recovery | several bounded retries interact | terminates; every tool call has a result |
| **Tool approval** `agent/tool_approval.py` | pending approvals, bridge per turn | ask, resolve, time out, stop | answer races time-out and stop | one decision per request |
| **Pairing** `pairing/store.py` | pending codes, approved senders | generate, approve, deny, revoke | expiry | a code approves once |
| **Outbound** `channels/manager.py` | outbound bus, the dispatcher's buffer, replies remembered per source | take, coalesce, suppress, send, retry, stop | interleaved streams; calls that raise after they took effect | order of publication, pieces joined only within a stream, nothing waits for ever |
| **Model request** `providers/base.py`, `providers/fallback_provider.py` | attempts, stream segment, circuit breaker shared by all requests | call, stream, recover, retry, fall back, trip | two levels of retry around a stream the user is reading | one answer per segment; failure only at the end; every request returns |
| Channel adapters, provider adapters, tools, context, WebUI, gateway, CLI, config, security | mostly none, or the outside world's | input, output, formatting | | left out, see section 7 |

How they interact: channels, triggers, cron and subagents *publish* to the
inbound bus; the run loop consumes it; a turn drains its pending queue between
model calls; trigger runner and cron *await* the future of the turn they
submitted; /stop and the timer cancel tasks and read the same queues the turns
clean up; consolidation and the turn share the Session object; turns and jobs
*publish* to the outbound bus, which one dispatcher empties; every turn and
every consolidation makes model requests through the one fallback provider.

## 2. Modules

| Module | What it is |
|---|---|
| `TurnDispatch` | The agent loop: routing, queues, locks, gate, cancellation, automation futures, goal-wait timer |
| `TurnDispatchProofs` | Theorems about `TurnDispatch` |
| `MCTurnDispatch` | Instances for TLC |
| `TriggerQueue` | The durable trigger queue at the granularity of file operations |
| `TriggerLedger` | What the queue promises: the abstract at-least-once ledger |
| `TriggerQueueProofs` | Theorems about `TriggerQueue`, the refinement included |
| `MCTriggerQueue` | Instances for TLC |
| `TurnCheckpoint` | The history of one session: what a turn writes and saves, and what a cancellation, an error or an exit leaves of it |
| `TurnCheckpointProofs` | Theorems about `TurnCheckpoint`: types, growth of the history, write-ahead of the checkpoint |
| `TurnHistoryProofs` | The histories it leaves: legal, without repetitions, every turn closed, no step of a turn forgotten |
| `MCTurnCheckpoint` | Instances for TLC |
| `Consolidation` | How messages leave the prompt of a session: Session objects, cursor, consolidation lock, idle compaction, /new |
| `ConsolidationProofs` | Theorems about `Consolidation` |
| `MCConsolidation` | Instance for TLC |
| `CronSchedule` | The cron service: timer, ticks, job file, action log, calls from outside |
| `CronScheduleProofs` | Theorems about `CronSchedule` |
| `MCCronSchedule` | Instances for TLC |
| `OutboundDelivery` | The dispatcher of outbound messages |
| `OutboundFifo` | What it promises a channel: the abstract queue |
| `OutboundDeliveryProofs` | Theorems about `OutboundDelivery`, the refinement included |
| `MCOutboundDelivery` | Instance for TLC |
| `ModelFallback` | Retry, stream recovery, fallback models and circuit breaker of a model request |
| `ModelFallbackProofs` | Theorems about `ModelFallback` |
| `MCModelFallback` | Instance for TLC |

In the component modules a definition `D_Xxx` is a mutant of `D`: the bug that
shows that a property can fail. No specification uses it.

### TurnDispatch

One action is the code between two suspension points of the event loop, so
atomicity is the code's own. A task is named by the message it was created for.

| Model | Code |
|---|---|
| `inbound` | `MessageBus.inbound`, unbounded, so `publish_inbound` never suspends |
| `reg`, `box` | `_pending_queues` and the queue object of a turn: two variables, as the code compares identities when it cleans up |
| `ahead` | the FIFO of waiters of the session's `asyncio.Lock`; the gate is `GateSlots` |
| `active`, `cancelled` | `_active_tasks` and the `cancel()` requests |
| `canceller` | progress of `_cancel_active_tasks` for the run loop (/stop) and per session (timer) |
| `deferred`, `waiter` | the two tables of `AutomationTurnCoordinator` |
| `place` | no variable of the code: the stage of each message's life |
| `Send`, `Submit`, `Spawn`, `Announce`, `Abandon` | the producers and the submitter that gives up |
| `StopCommand`, `Defer`, `RouteToTurn`, `CreateTask` | the four branches of `run` |
| `CancelSubagents`, `DiscardQueue`, `TimerExpires` | `_cancel_active_tasks` after its awaits, `cmd_stop`, `_goal_await_timeout` |
| `TaskStart`, `TaskNeverStarts`, `TurnBegin`, `TaskAborts`, `Drain`, `TurnEnds` | `_dispatch` and `_drain_pending` |

Abstracted: what messages say; the model calls and tools of a turn (a turn may
drain, spawn, and end in success, error or interruption at any point);
streaming; events to the UI; the first drain's wait for a subagent (a drain may
come at any time).
Left out: slash commands other than /stop, which are answered in place;
internal continuation messages; `submit` while the run loop is not running;
a second expiry of a session's timer while the first still cancels.

### TriggerQueue

Every store operation holds the file lock, so it is one action, plus one action
`...Cut` for a process that dies between two of its writes. `Crash` is an exit
between two operations, also of the runner task alone (an exception inside one
of its handlers ends it). `Interrupt` is the cancellation at the awaited turn.
`Raises` is any store failure that the loop's last handler catches: before the
turn is submitted, or after it succeeded, removal of the file included. An
audit record may fail to be written at any time, as the code only logs it.
`enqueued`, `turns`, `answered`, `refused` and `reported` (the deliveries whose
outcome `record_delivery` wrote) are history variables.
The awaited turn is `TurnDispatch`'s automation turn: here it ends with an
answer or an error.

### TurnCheckpoint

`TurnDispatch` shows that turns of a session never overlap, so this module has
one turn at a time and follows it through its states. The pc is the point where
the turn awaits: there a cancellation, an error or an exit can end it.

| Model | Code |
|---|---|
| `file`, `mem` | the session's JSONL file; the `Session` in the cache of `SessionManager` |
| `log`, `check`, `open` of both | `messages`; the two metadata keys of the runtime checkpoint and of the pending user turn |
| `turn.work` | what the runner appended to the initial messages |
| `Begin`, `Restore`, `RunCommand`, `BuildUser`, `BuildFollowup`, `SaveTurn` | the states RESTORE, COMMAND, BUILD and SAVE, a subagent's result included |
| `CallTools` ... `OutOfIterations` | the ways an iteration of `AgentRunner` ends, with what it appends and the checkpoints it emits |
| `Cancel`, `CancelForNew`, `Fail` | the handlers of `_dispatch` for a cancellation and for an error |
| `New` | `cmd_new`, as a turn of its own or after it cancelled the running one |
| `Save` | the atomic save, which may raise: then the object keeps the change and the file does not |
| `Exit`, `Flush`, `Invalidate` | an exit at any await, `flush_all`, idle compaction's `invalidate` |

A history is a sequence of entries that say who made them, in which iteration,
and how many calls or which result; equal texts are distinct entries. A step's
checkpoint holds all results or none, as the runner emits it.
Abstracted: at most one follow-up is taken per drain, and merged follow-ups
stand side by side in `work`; the counters that bound truncated answers and
injections are left to the limit on iterations.
Left out: goal continuations and turns without a saved history; the file cap
and the archive call of /new (`Consolidation`).

### Consolidation

Each action is the code between two suspension points. The consolidation lock
is a FIFO of its holder and waiters (`queue`: the turn in BUILD, the background
task after a turn, idle compaction); `job` is what the holder awaits.

| Model | Code |
|---|---|
| `store.heap`, `.cached`, `.disk` | the `Session` objects alive, the one in `SessionManager._cache`, the JSONL file: a turn or a job may hold an object that is no longer cached |
| `Fetch`, `Save`, `Invalidate`, `Loaded` | `get_or_create`, `save`, `invalidate`, `_load` with the cursor check of `__post_init__` |
| `WindowStart`, `Replayed`, `OverflowEnd`, `Boundaries`, `Kept` | `recent_message_start_index`, `get_history`, `_replay_overflow_boundary`, `pick_consolidation_boundary`, `retain_recent_legal_suffix`, each with its own rule |
| `Consolidate`, `Archived` | `maybe_consolidate_by_tokens`: the pass over what the window hides, then the rounds |
| `Compact`, `Compacted`, `CheckExpired` | `compact_idle_session`, `AutoCompact._archive` and `check_expired` |
| `Begin`, `End`, `StopBuild`, `StopRun`, `Command`, `Deliver` | RESTORE to BUILD, SAVE with the file cap, a cancelled turn, a command, `_deliver_to_channel` |
| `New`, `SnapshotArchived` | `cmd_new` and the background archive it schedules |
| `Crash`, `Shutdown` | an exit that may cut off the end of the file (`_repair`); `close_mcp` and `flush_all` |

A message is a number and a kind; tool calls are part of a reply, as their
legality is `TurnCheckpoint`'s. What messages weigh in tokens is unknown, so
any boundary may be chosen in any round. A summary is the newest message it
covers. `crossed` notes that somebody wrote without the lock while its holder
awaited a model call: see section 6 for what the code then does.

### CronSchedule

Time is counted per job in occurrences of its schedule; `next_run_at_ms` is the
number of an occurrence.

| Model | Code |
|---|---|
| `file`, `log`, `store` | jobs.json, action.jsonl, `_store.jobs` |
| `timer`, `tick` | the timer task: asleep, or executing a job of the list it made when it fired; `tick.live` says whether the job objects of the list are those of `_store` |
| `active`, `leaving` | `_timer_active`; the cancelled timer tasks whose `on_job` has not unwound |
| `Loaded`, `Saved`, `Reload`, `Merged` | `_load_store` (the store after it, the file after it, what else it changes), `_merge_action` |
| `Change`, `Rearm` | the save and `_arm_timer` with its cancellation |
| `Fire`, `FireIdle`, `NextJob`, `TickEnds`, `TickFails` | `_on_timer` and `_execute_job` around the await of `on_job`; the save that raises |
| `Unwound` | the `finally` of a cancelled tick: it resets the flag, whoever set it |
| `RunJob`, `RunJobEnds`, `RunJobRefused`, `RunJobCancelled` | `run_job`: the execution (also forced, of a disabled job), its end, the call that finds the job gone or disabled, and the caller that is cancelled |
| `Add`, `Remove`, `Enable`, `Update`, `List`, `Elsewhere` | the calls of the WebUI and the cron tool; changes another process appends |
| `Start`, `Stop`, `Exit` | the gateway's life |

A cancelled tick leaves the timer at once, because `_arm_timer` has replaced
`_timer_task`, but it is over only when `on_job` has unwound. For a system job,
which runs a whole turn in `on_job`, that takes longer than the next tick takes
to begin. Until then the flag of the old tick keeps the store from being read;
then its `finally` resets the flag, also that of the next tick, and a load
replaces the store under it (`Swapping`, `Polled`). The jobs that tick goes on
to execute are objects nobody saves, and its list is no longer that of the
store. A bound job unwinds within one step of the loop; that it may take longer
here is an over-approximation.

`runs` (what the timer started) and `lost` are history variables. An occurrence
is in `lost` when its end may not reach the file: a tick was cancelled in it; a
refused or cancelled run_job threw its tick away unsaved; a load replaced the
store of its tick; or it was due by a store into which the flag of an unwinding
tick had kept action.jsonl from being merged. Left out: corrupt stores, which
are refused; jobs without a session; run history; a changed schedule in
`update_job`; an `on_job` that swallows its cancellation; a failing save other
than a tick's; run_job of a service that does not run. How a deferred or failed
automation turn ends `on_job` is `TurnDispatch`'s and makes no difference here.

### OutboundDelivery

| Model | Code |
|---|---|
| `queue`, `pending` | `bus.outbound`; the buffer of `_dispatch_outbound` for the message that ended a run of deltas |
| `Handle`, `Take` | the body of the loop up to the call |
| `Coalesce` | `_coalesce_stream_deltas` |
| `Reply` | `_should_suppress_outbound` with its fingerprints |
| `Sent`, `SendFails` | `_send_with_retry`; a call that raises may have had its effect |
| `Stop` | the cancellation in `stop_all` |

A message is named by its place in the order of publication. One source message
per stream stands for the fingerprints' keys. Everything that is not delivered
by rule (progress a channel did not ask for, retry notices) is `hidden`.

### ModelFallback

| Model | Code |
|---|---|
| `Start`, `Enter` | `chat_stream_with_retry`, `chat_with_retry` and each round of `_run_with_retry` |
| `PrimaryAnswers`, `PrimaryError`, `FallbackAnswers`, `Fallback` | `_try_with_fallback` |
| `Fail` | the guards of `_run_with_retry` |
| `streamed`, `inner`, `muted`, `innerMuted` | the two tracking flags and the withdrawn callbacks |
| `segment` | whose text the user sees in the open segment of the stream |
| `failures`, `tripped` | the breaker, shared by all requests |
| `Cancel` | /stop, or the wall-clock limit of `_request_model` |

An error is one of six classes that the two classifiers tell apart; where they
judge by text, both outcomes are possible. Left out: persistent retry (chosen
by configuration) and what the finalization calls ask.

## 3. Runs

| Run | Instance | Shows |
|---|---|---|
| `dispatch` | 1 session; 2 user messages, 1 subagent, 1 automation, 1 /stop, timer; queue of 1 | turns never overlap, /stop finds every task, nothing settled comes back |
| `dispatch_served` | no cancellation, fair | every accepted message is served, every submitter answered |
| `dispatch_cancelled` | 2 sessions, /stop and timer, fair | every cancellation returns and stays in its session, no message is left in a queue |
| `triggers` | 1 trigger, 2 deliveries, 2 attempts, 2 exits, fair | the queue's safety, its refinement of `TriggerLedger`, and that every delivery is settled |
| `checkpoint` | 1 user message, 1 subagent result, 1 command; 2 calls per answer, 2 iterations, 1 exit, 1 failing save | after any cancellation, error, exit or failing save the history is legal, without repetitions or open turns, and it never shrinks; the checkpoint is written ahead of the tools |
| `consolidation` | 7 messages, window 3, suffix 2, cap 4, 2 rounds, 1 crash | nothing leaves the prompt unarchived, the cursor stays in range, /new leaves nothing behind, the window hides nothing unarchived from a prompt |
| `cron` | 1 recurring and 1 one-shot job, 2 occurrences, 3 calls, 2 starts, 1 failing save, fair | a due job is started; an occurrence once, and on the store as it is, but for the occurrences in `lost` and a tick whose store was replaced (section 2) |
| `outbound` | 4 messages of 2 streams, 2 attempts, 2 calls that raise, fair | refinement of `OutboundFifo`; only repetitions suppressed; every message settled |
| `fallback` | 2 requests, primary and 2 fallbacks, breaker of 2, 1 retry, fair | one answer per segment, failure only at the end, every request returns |

Runs that find what a document, comment or test denies:

| Run | Says | The code |
|---|---|---|
| `waiter_unanswered` | `submit`: "wait for its session response" | a task cancelled before its turn begins answers nobody: the trigger runner or cron job waits for ever |
| `delete_revived` | a delete leaves no delivery file | the retry of a delivery in hand writes it back |
| `cron_rerun` | "Each job should have run exactly once, not looped" | a call that re-arms the timer cancels the tick, and the job it was executing runs again |

**Bounds.** Two messages of a kind are what it takes to have one in a turn and
one behind it; with three tasks of a session there is one running, one waiting
and one created. `PendingCap = 1` makes the queue overflow with two messages
(20 in the code), `InjectLimit = 1` makes a drain partial (3 in the code).
`MaxAttempts = 2` (10 in the code) has one requeue and one giving up; with two
exits recovery itself can be cut off and repeated; batches of two have a
delivery behind the one in hand. For checkpoints, two calls tell a finished
step from one with error results, two iterations a checkpoint from the one it
replaces, and three messages give an interrupted turn, the turn that restores
it and one behind. One exit and one failing save meet every point of all three
turns. For consolidation, seven messages are three turns and one more: more
than the window, the cap and the idle suffix at once, so that every boundary
rule cuts, with a cursor inside and outside of what is cut; three objects are
one in the cache, one of a turn and one of a job. For cron, two occurrences are
what it takes to run one twice and another late, and a call before, during and
after a tick needs three (`MaxEdits` counts the calls and the failing save
together); three also give a call that cancels a tick, a poll or an action of
another process that the late `finally` lets into the next one, and a third. Four outbound messages are a run of two deltas, the
message that ends it and one behind; two failures use up the attempts of one
message. With a breaker of two and two requests, it is tripped by either, and
one tick ends its rest; one retry tells the first attempt from the last.
The proofs hold for every value. `CHECK_DEADLOCK FALSE`: when all messages
are settled, the clock stands at its bound, or the gateway polls an empty inbox,
nothing happens; `checkpoint` ends when its messages are used up.

**Fairness.** The event loop resumes every coroutine that is ready: weak
fairness of the run loop, of cancellations and of tasks. A turn ends because
iterations, retries and model calls are bounded. Lock and gate are FIFO queues,
but whether the gate has room comes and goes, hence strong fairness of
`TurnBegin`. Nothing makes a person write, a timer expire or a turn drain: no
fairness there. For triggers: a gateway that exited is started again, its loop
runs and a submitted turn ends. That last point is an assumption here:
`waiter_unanswered` is its exception. The cron service's timer task runs and
`on_job` returns, with the same exception; a
cancelled `on_job` may unwind late or never (no fairness of `Unwound`). The
outbound dispatcher runs, and a
channel's call returns or raises. A model's call answers or times out, and a
pause between attempts ends.

## 4. Proofs

Checked by TLAPS for all constants satisfying `DispatchAssumption`
(`TriggerAssumption`, `CheckpointAssumption`, `ConsolidationAssumption`,
`CronAssumption`, `OutboundAssumption`, `FallbackAssumption`).

`TurnDispatch`:

| Theorem | Property |
|---|---|
| `TypeCorrect`, `NothingLost`, `QueuesOwned` | `TypeOK`, `MessagesConserved`, `QueueHasOwner` |
| `NoReplay` | `ConsumedOnce` |
| `LockOrder`, `Serial` | `LockIsFifo`, `OneTurnPerSession` |
| `StopIsComplete` | `StopFindsEveryTask` |
| `WaitersHaveTurns` | `WaiterHasTurn` |
| `CancellationIsLocal` | `InterruptedByOwnSession` |

The argument goes in two rounds. `QueueInv` says that the queues and `place`
agree and that a published queue has a running owner; it needs no more to be
inductive, because every transfer takes a message from one queue and puts it in
one other. Its proof rests on lemmas about the elements of a queue after
append, tail, concatenation and split. From it follows what a step may do to
one message (`Steps`, `After`), whence `NoReplay`. `DispatchInv` adds the
FIFO of the lock and the task list (`TasksListed`): mutual exclusion needs
both that of two tasks one is ahead and that a running task has nobody ahead.

`TriggerQueue`:

| Theorem | Property |
|---|---|
| `QueueTypeCorrect` | `TypeOK` |
| `NothingForgotten` | `KeptUntilAnswered` |
| `OneCopy` | `SingleCopy` |
| `BoundedTurns` | `TurnsBounded` |
| `OutcomesReported` | `GoneIsReported` |
| `HonestRecords` | `SuccessIsTrue` |
| `QueueImplementsLedger` | `ImplementsLedger` |

None of these is inductive. `QueueInv` there says of each delivery who knows of
it (`Known`), where its files are and how they relate to the batch in memory
(`Kept`), that its attempts bound its turns in whatever file they are written
(`Counted`), and whether its own outcome was told (`Reported`): `GoneIsReported`
speaks of every single delivery, so that one is not covered by the status
another has left on their trigger. The case that
needs care is a move cut off by an exit: two files, of which the one in
processing/ is rewritten by recovery to the *same* directory, because the
attempts in it decide which that is. Refinement maps a delivery to *pending*
while it has a file in inbox/ or processing/, and shows for each action which
step of the ledger it is.

`TurnCheckpoint`:

| Theorem | Property |
|---|---|
| `CheckpointTypeCorrect` | `TypeOK` |
| `HistoryOnlyGrows` | `HistoryGrows` |
| `ToolsAreWrittenAhead` | `WriteAhead` |
| `HistoryStaysLegal` | `HistoryLegal` |
| `NothingTwice` | `NoRepeats` |
| `TurnsAreClosed` | `EveryTurnClosed` |
| `ProgressIsKept` | `ProgressKept` |

`TypeInv` adds to the types that a turn whose tools run is below its limit of
iterations. Recovery looks for the longest overlap of the checkpoint with the
end of the history; that there is one (`OverlapFits`) follows from the least
element of a set of naturals, and is all that is needed: recovery, like every
other step but /new, only appends (`RestoreAppends`, `GrowStep`).
`AheadInv` says that while tools run the file *is* the cached session: a
checkpoint is saved or the turn ends, and nobody else changes the object.
`LegalInv` carries legality from the two copies of the session to what the
turn appended so far, calls under way excepted (`LegalTurn`), and says that a
checkpoint holds an assistant message. Its core is `LegalRestore`: in a legal
history calls come with all their results, so a history that ends with a part
of a checkpoint's messages ends with all of them; recovery then adds nothing,
and otherwise a block that is legal on its own. So a partial overlap, for which
the code's comparison of messages is written, cannot leave unanswered calls.

That nothing is written twice is `OnceInv`. Distinct entries are not enough:
the invariant must say why the next write is new. So a history speaks only of
messages `seen`; the checkpoint of a session belongs to a turn of whose run the
history has nothing (`SessionOnce`); what the running turn appended is in
iterations before the current one and in no history yet (`RunOnce`,
`WorkOnce`); before its message is written nobody knows of it (`Unheard`). A
history may end with a user message only while it is marked open or has a
checkpoint, whence `EveryTurnClosed`. `RestoreOnce` and `CloseOnce` are the two
recoveries, `OnceStep` has a step for each action. `ProgressKept` is an action
property: each action that writes the session keeps its entries, and makes its
checkpoint history or replaces it by one of the same turn that is no earlier
(`Passes`); that the later checkpoint is of the same turn is `RunOnce`.

`CronSchedule`:

| Theorem | Property |
|---|---|
| `CronTypes` | `TypeOK` |
| `OccurrencesRunOnce` | `OncePerOccurrence` |
| `OnlyDueJobsStart` | `StartsAreDue` |

`CronInv` says of each copy of the schedule how far behind the timer it may be.
A copy is ahead of a started occurrence when it holds a later one, or none, or
the occurrence is in `lost`: the store, but for the one in execution
(`StoreAhead`); the entries of action.jsonl (`LogAhead`), which during a tick
speak of other occurrences than its list does (`LogAfter`); and the file while
no tick with a live list still owes it (`FileAhead`). All but `LogAfter` holds
until a save fails. `TodoDue` keeps the list of
due jobs true: the store of a live list is changed by its tick alone, because
whatever else changes it cancels the tick or, after the late `finally`, takes
the list from the store; then all it still has to do is in `lost`. What is left
after a step that ends the execution is the same for all of them
(`SettledKeeps`); `CutOff`, `BeginKeeps` and `PolledKeeps` are the steps that
cancel a tick, start a job and replace the store under one.

`OutboundDelivery`:

| Theorem | Property |
|---|---|
| `OutboundTypes` | `TypeOK` |
| `OnlyRepetitionsSuppressed` | `SuppressedWasSaid` |
| `DeliveryInOrder` | `ImplementsFifo` |

`OutboundInv` says that what the dispatcher holds, `current`, then `pending`,
then `queue`, is in the order of publication (`InOrder`), that `current` is one
message or pieces of one stream (`InOneCall`), and that a remembered reply was
said, and sent or given up unless it is the one in the call (`Remembered`).
That `pending` holds at most one message is what makes the order inductive: a
delta is joined with the queue only when nothing waits before it.

`ModelFallback`:

| Theorem | Property |
|---|---|
| `RequestTypes` | `TypeOK` |
| `SegmentsHoldOneAnswer` | `OneAnswerPerSegment` |
| `FailuresAreFinal` | `FailsOnlyAtTheEnd` |

`FallbackInv` ties the open segment to the two flags that guard it: text of
this call or an earlier one in the segment means that the outer flag is set or
the callbacks are withdrawn, and between two calls of the wrapper that the
inner flag is down. Every way to another call closes the segment or mutes it.

`Consolidation`:

| Theorem | Property |
|---|---|
| `ConsolidationTypes` | `TypeOK` |
| `MessagesAreKept` | `NothingLost` |
| `CursorsInRange` | `CursorInRange` |
| `NewStartsFresh` | `NewIsFresh` |
| `PromptsAreWhole` | `PromptIsWhole` |

`NothingLost`, `CursorInRange`, `NewIsFresh` and `PromptIsWhole` are about
behaviours without `crossed` (section 6): `NewStartsFresh` says nothing of a
/new during a compaction, where the code restores the old messages.

None of these is inductive: what a job writes when its model call returns
was computed before it. `Inv` has five parts. `ControlTypes` and `Steady` type
the control state and count the messages a turn will still add. `LockOrder` is
the lock: nobody queues twice, only the head awaits, a turn has no background
job of an earlier turn behind it. `Sound` says that whatever is kept anywhere
(`store`, which is a member of `Worlds`, the job, the summaries) speaks only of
`Current` messages, those after the last /new. `Covered` is the heart: unless a
write crossed a job, the messages still owed (`Missing`) are behind the cursor
of the file and of every object somebody refers to, hence may save; and the
awaited job has the cached object and what it will remove from it is in the
chunk it archives (`Fits`). The long part of the proofs is what the boundary
operators do to a session: what a cut removes from behind the cursor is what
it reports as dropped (`CutMade`), and a cursor moves only past the chunk of
its job (`CursorMoves`).

`PromptIsWhole` compares what a turn is shown when its consolidation returns
with the file as it was before that step: two objects may be involved, and a
compaction or a background consolidation may have come in between.
`PromptInv` says what survives that: the cached object is the file, or what was
loaded from it (`CacheIsFile`); an archive only moves a cursor forward and a
compaction keeps an end of the session (`JobMoves`, with `CutFollows` for what
the cut keeps); the object of a waiting turn has all messages of the file, at
some distance, and its cursor is not past the file's (`TurnSees`: `SeesForward`
and `SeesCut` are its two steps); and the turn's own archive goes up to a
`Frontier`, an index that the window reaches and where it opens (`RoundAims`,
`OverflowAims`). With `WindowOpens`, that the window then starts at or before
that index whichever object is asked, what is behind it is shown and what is
before it is in the chunk (`ConversationShown`, `ArchivedShown`). The exception
in the property, a last turn longer than the window, is in `Frontier` too.

Every invariant and every action property of a passing run is stated by a
theorem. Model-checked only are the liveness properties, which need fairness:
`AcceptedIsServed`, `WaiterIsAnswered`, `StopReturns`, `AcceptedIsSettled`,
`EventuallySettled`, `DueIsStarted`, `EachIsSettled` and `RequestReturns`.

## 5. Plan

What is left, in order of worth:

1. Persistent retry in `ModelFallback`.
2. Goal continuations in `TurnCheckpoint`, with a turn that ends in another.
3. Composition of `TriggerQueue` and `CronSchedule` with `TurnDispatch`'s
   futures; so far each assumes of the other what the other's runs show.

## 6. Known deviations

Formulas that are in the modules, that a comment or a document suggests, and
that the code does not keep; TLC finds a counterexample of each in a small
instance. Three of the kind are runs (section 3).

| Formula | What the code does |
|---|---|
| `TurnDispatch.DeferredWaitsWhileBusy` | a task cancelled before its first step publishes no deferred automation: it stays deferred in an idle session until the session's next turn ends |
| `TurnCheckpoint.AccumulatedKept` | a checkpoint replaces the one before it, so a cancelled turn keeps only its latest step |
| `TurnCheckpoint.InjectedKept` | a follow-up merged into the turn's own user message, after a first model call without an answer, is answered and never saved |
| `CronSchedule.TickKeepsStore` | "During _on_timer execution, return the existing store" (docstring of `_load_store`): a cancelled tick resets `_timer_active` when it has unwound, also under the next tick, and a poll then replaces the store of that tick |
| `ModelFallback.LastErrorIsReturned` | "Return the last error response we saw (primary or last fallback)": when no fallback can be created the primary's error is replaced by "circuit open and no fallbacks available" |
| `ModelFallback.OneProbe` | "Half-open: allow one probe attempt": every request that comes after the cooldown probes |

In `Consolidation` the properties are about behaviours in which nobody wrote
without the consolidation lock while its holder awaited a model call. The code
allows it: /new takes no lock, so a compaction it meets restores
`messages_to_keep` (`agent/memory.py:1146`) and a consolidation writes a cursor
of the old session (`:1065`); a delivery or a command during a compaction is
overwritten.

In `CronSchedule`, a save that raises ends the timer (`DueIsStarted` excepts
it), and a tick whose `on_job` never returns holds up every other job. A run_job
that is refused or cancelled re-arms the timer and so throws a tick in progress
away unsaved: what it has executed runs again. After the late `finally` of a
cancelled tick (service.py:579-580) a load replaces the store of
the next tick: what that tick executes is not saved and runs again, and a job
deleted meanwhile is started all the same. `OncePerOccurrence` and `StartsAreDue`
except exactly these.

In `OutboundDelivery`, a reply is remembered before it is sent
(`channels/manager.py:323`). When it is given up, a repetition for the same
source is suppressed all the same; `SuppressedWasSaid` accepts that.

## 7. Not modelled

Channel and provider adapters, tools, WebUI, CLI and configuration are input,
output, parsing and rendering; their state is a service's or a file's. They are
by far most of the code, so the modules map a small share of its lines: the part
in which order and failure decide. Prompts and skills are text; path and
network policies are predicates without state.

- **Goals**: whether a goal goes on is decided by tools the model calls; what
  the loop does for them is the timer (`TurnDispatch`) and messages to itself.
- **Tool approval**, **pairing**: each operation is a few synchronous
  statements on one dictionary or one small file under a lock.
- **Subagents' own runs**: a runner like a turn's, without a saved session.
- **Dream** (the curation of MEMORY.md from history.jsonl) and the text of
  summaries: what a model writes.
- **Exec sessions and MCP connections**: processes of the operating system.
