---------------------------- MODULE CronSchedule ----------------------------
(***************************************************************************)
(* How the cron service runs its jobs (nanobot/cron/service.py).           *)
(*                                                                         *)
(* Jobs live in jobs.json and in self._store.  A timer task sleeps until   *)
(* the earliest job is due, then executes every due job in turn, awaiting  *)
(* on_job for each, and saves.  The WebUI and the cron tool add, remove,   *)
(* change and run jobs while that goes on; each of these calls reloads the *)
(* file, unless _timer_active is set, saves, and re-arms the timer, which  *)
(* cancels the timer task whatever it is doing.  Other processes leave     *)
(* their changes in action.jsonl, which is merged at the next load.        *)
(*                                                                         *)
(* A cancelled tick is over when on_job has unwound, which may take longer *)
(* than the next tick takes to begin; only then does its `finally` reset   *)
(* _timer_active, whoever has set it.                                      *)
(*                                                                         *)
(* Time is the number of occurrences of a job's schedule that have passed, *)
(* and next_run_at_ms the number of an occurrence, 0 for None.             *)
(***************************************************************************)
EXTENDS Naturals, Sequences, FiniteSets

CONSTANTS
    Job,         \* job ids
    Recurring,   \* jobs scheduled "every" or "cron"; the others are "at"
    DeleteAfter, \* "at" jobs with delete_after_run
    System,      \* jobs the gateway registers when it starts
    Initial,     \* jobs in the file at the beginning
    NoJob,
    NoRec,       \* no job of this id
    MaxSlots,    \* bound on the occurrences of a job
    MaxEdits,    \* bound on the calls from outside and the saves that fail
    MaxStarts,   \* bound on the starts of the gateway
    MaxFaults    \* bound on the saves that fail

ASSUME CronAssumption ==
    /\ Recurring \subseteq Job /\ DeleteAfter \subseteq Job \ Recurring
    /\ System \subseteq Recurring /\ Initial \subseteq Job
    /\ NoJob \notin Job
    /\ MaxSlots \in Nat /\ MaxEdits \in Nat /\ MaxStarts \in Nat /\ MaxFaults \in Nat
    /\ NoRec \notin [enabled : BOOLEAN, next : Nat]

VARIABLES
    now,      \* now[j]: occurrences of j's schedule that have passed
    file,     \* jobs.json
    log,      \* action.jsonl
    up,       \* the gateway process exists
    running,  \* _running
    store,    \* _store.jobs
    timer,    \* _timer_task
    active,   \* _timer_active
    leaving,  \* cancelled timer tasks that are still unwinding in on_job
    tick,     \* the _on_timer of the timer task: the job in execution, those
              \* still to do, the occurrence each was listed for, and whether
              \* the listed job objects are those of _store
    manual,   \* a run_job in progress; live: its job object is in _store
    runs,     \* history: the occurrences of j the timer has started, in order
    lost,     \* history: occurrences of which the end may not reach the file
    edits, starts, faults

timing == <<timer, active, leaving, tick>>
bounds == <<edits, starts, faults>>
vars == <<now, file, log, up, running, store, timing, manual, runs, lost, bounds>>

Rec == [enabled : BOOLEAN, next : Nat]
Jobs == [Job -> Rec \cup {NoRec}]
NoTick == [job |-> NoJob, todo |-> {}, due |-> [j \in Job |-> 0], live |-> FALSE]
NoManual == [job |-> NoJob, live |-> FALSE]

\* _compute_next_run
NextRun(j) == IF j \in Recurring THEN now[j] + 1 ELSE IF now[j] = 0 THEN 1 ELSE 0

Fresh(j) == [enabled |-> TRUE, next |-> NextRun(j)]
Here(jobs, j) == jobs[j] # NoRec
Due(jobs, j) == /\ Here(jobs, j) /\ jobs[j].enabled
                /\ jobs[j].next > 0 /\ jobs[j].next <= now[j]
DueJobs(jobs) == {j \in Job : Due(jobs, j)}

Init ==
    /\ now = [j \in Job |-> 0]
    /\ file = [j \in Job |-> IF j \in Initial THEN [enabled |-> TRUE, next |-> 1] ELSE NoRec]
    /\ log = <<>>
    /\ up = FALSE
    /\ running = FALSE
    /\ store = [j \in Job |-> NoRec]
    /\ timer = "off" /\ active = FALSE /\ leaving = 0
    /\ tick = NoTick
    /\ manual = NoManual
    /\ runs = [j \in Job |-> <<>>]
    /\ lost = {}
    /\ edits = 0 /\ starts = 0 /\ faults = 0

-----------------------------------------------------------------------------
(* Loading and saving.                                                     *)

\* _merge_action: the entries are applied in order, so the last of a job wins.
\* The entry of a deletion is NoRec.
Merged(jobs) ==
    [j \in Job |->
        LET about == {i \in 1..Len(log) : log[i].job = j}
        IN  IF about = {} THEN jobs[j]
            ELSE log[CHOOSE i \in about : \A k \in about : k <= i].rec]

\* Mutant: the store is read again while a tick executes.
Loaded_Always == Merged(file)

\* _load_store while the service runs: what self._store is afterwards.  With
\* the flag set it stays; otherwise the file is read and the actions merged.
Loaded == IF active THEN store ELSE Merged(file)

\* The actions are consumed, and the job object of a run_job in progress no
\* longer belongs to the store.
Reload ==
    /\ log' = IF active THEN log ELSE <<>>
    /\ manual' = IF active THEN manual ELSE [manual EXCEPT !.live = FALSE]

\* A load saves what it has merged.
Saved == IF active THEN file ELSE Merged(file)

Executing == timer = "executing"

\* The flag was reset under the tick: a load takes the store away from it.
Swapping == Executing /\ ~active

\* The occurrence in execution, and all the tick still has to do.
Current == IF Executing THEN {<<tick.job, tick.due[tick.job]>>} ELSE {}
Listed == Current \cup {<<j, tick.due[j]>> : j \in tick.todo}

\* What the jobs executed so far in this tick were due for: the file does not
\* say yet that they have run.
Unsaved == {<<j, file[j].next>> : j \in {k \in Job : Here(file, k) /\ file[k] # store[k]}}

\* Mutant: the timer is replaced, but the tick it was in goes on.
Rearm_KeepsTick(on) ==
    /\ timer' = IF on THEN "sleeping" ELSE "off"
    /\ UNCHANGED <<active, leaving, tick>>

\* _arm_timer, stop: the timer task is cancelled even when it executes a job.
\* It is told so at its next step, and until it has unwound the flag is set.
Rearm(on) ==
    /\ timer' = IF on THEN "sleeping" ELSE "off"
    /\ leaving' = IF Executing THEN leaving + 1 ELSE leaving
    /\ tick' = NoTick
    /\ UNCHANGED active

\* A call that loads, changes the store to `jobs`, saves and re-arms.
Change(jobs) ==
    /\ store' = jobs
    /\ file' = jobs
    /\ Reload
    /\ lost' = lost \cup Current \cup (IF Swapping THEN Unsaved ELSE {})
    /\ Rearm(TRUE)

-----------------------------------------------------------------------------
(* The process.                                                            *)

Elapse(j) ==
    /\ now[j] < MaxSlots
    /\ j \in Recurring \/ now[j] = 0
    /\ now' = [now EXCEPT ![j] = @ + 1]
    /\ UNCHANGED <<file, log, up, running, store, timing, manual, runs, lost, bounds>>

\* register_system_job for each system job, then start: next runs are computed
\* afresh for every enabled job.
Start ==
    /\ ~up
    /\ starts < MaxStarts
    /\ starts' = starts + 1
    /\ up' = TRUE
    /\ running' = TRUE
    /\ LET jobs == [j \in Job |->
                      IF j \in System THEN Fresh(j)
                      ELSE IF Here(Merged(file), j) /\ Merged(file)[j].enabled
                      THEN Fresh(j) ELSE Merged(file)[j]]
       IN  /\ store' = jobs
           /\ file' = jobs
    /\ log' = <<>>
    /\ timer' = "sleeping"
    /\ UNCHANGED <<now, active, leaving, tick, manual, runs, lost, edits, faults>>

\* stop: the timer task is cancelled; the process is about to exit.
Stop ==
    /\ running
    /\ running' = FALSE
    /\ Rearm(FALSE)
    /\ lost' = lost \cup Current
    /\ UNCHANGED <<now, file, log, up, store, manual, runs, bounds>>

\* The process exits, in order or not.
Exit ==
    /\ up
    /\ up' = FALSE /\ running' = FALSE
    /\ timer' = "off" /\ active' = FALSE /\ leaving' = 0
    /\ tick' = NoTick /\ manual' = NoManual
    /\ store' = [j \in Job |-> NoRec]
    /\ UNCHANGED <<now, file, log, runs, lost, bounds>>

-----------------------------------------------------------------------------
(* The timer task.                                                         *)

\* The next job of the list, whose objects are those of _store or not.
Begin(due, todo, live) ==
    \E j \in todo :
        /\ tick' = [job |-> j, todo |-> todo \ {j}, due |-> due, live |-> live]
        /\ runs' = [runs EXCEPT ![j] = Append(@, due[j])]

\* Changes that a tick begins without: the flag of a cancelled one keeps them
\* in action.jsonl.
Unmerged == {<<j, store[j].next>> : j \in {k \in DueJobs(store) :
                \E i \in 1..Len(log) : log[i].job = k}}

\* _on_timer up to the first await: the due jobs are listed once, now.
Fire ==
    /\ timer = "sleeping"
    /\ running
    /\ DueJobs(Loaded) # {}
    /\ Reload
    /\ store' = Loaded
    /\ file' = Saved
    /\ lost' = IF active THEN lost \cup Unmerged ELSE lost
    /\ timer' = "executing" /\ active' = TRUE
    /\ Begin([j \in Job |-> IF Due(Loaded, j) THEN Loaded[j].next ELSE 0],
             DueJobs(Loaded), TRUE)
    /\ UNCHANGED <<now, up, running, leaving, bounds>>

\* _on_timer with nothing due: the store is saved, the flag reset and the
\* timer armed again.
FireIdle ==
    /\ timer = "sleeping"
    /\ running
    /\ DueJobs(Loaded) = {}
    /\ Reload
    /\ store' = Loaded
    /\ file' = Loaded
    /\ active' = FALSE
    /\ UNCHANGED <<now, up, running, timer, leaving, tick, runs, lost, bounds>>

\* The end of _execute_job, whatever became of on_job.
Executed(jobs, j) ==
    IF ~Here(jobs, j) THEN jobs
    ELSE IF j \in Recurring THEN [jobs EXCEPT ![j].next = NextRun(j)]
    ELSE IF j \in DeleteAfter THEN [jobs EXCEPT ![j] = NoRec]
    ELSE [jobs EXCEPT ![j].enabled = FALSE, ![j].next = 0]

\* A job object that is no longer in the store takes its new state with it, but
\* a one-shot job is deleted by its id.
AfterJob(j, live) ==
    IF live THEN Executed(store, j)
    ELSE IF j \in DeleteAfter THEN [store EXCEPT ![j] = NoRec] ELSE store

\* on_job returns and another job of the list is due.
NextJob ==
    /\ Executing /\ tick.todo # {}
    /\ store' = AfterJob(tick.job, tick.live)
    /\ Begin(tick.due, tick.todo, tick.live)
    /\ UNCHANGED <<now, file, log, up, running, timer, active, leaving, manual, lost, bounds>>

\* Mutant: the timer is not armed again.
TickEnds_NotArmed ==
    /\ Executing /\ tick.todo = {}
    /\ store' = AfterJob(tick.job, tick.live)
    /\ file' = store'
    /\ timer' = "off" /\ active' = FALSE /\ tick' = NoTick
    /\ UNCHANGED <<now, log, up, running, leaving, manual, runs, lost, bounds>>

\* on_job returns, the list is done, the store is saved, the flag reset and the
\* timer armed.
TickEnds ==
    /\ Executing /\ tick.todo = {}
    /\ store' = AfterJob(tick.job, tick.live)
    /\ file' = store'
    /\ timer' = "sleeping" /\ active' = FALSE /\ tick' = NoTick
    /\ UNCHANGED <<now, log, up, running, leaving, manual, runs, lost, bounds>>

\* The same with a save that raises: nothing arms the timer again.
TickFails ==
    /\ Executing /\ tick.todo = {}
    /\ faults < MaxFaults /\ edits + faults < MaxEdits
    /\ faults' = faults + 1
    /\ store' = AfterJob(tick.job, tick.live)
    /\ timer' = "off" /\ active' = FALSE /\ tick' = NoTick
    /\ UNCHANGED <<now, file, log, up, running, leaving, manual, runs, lost, edits, starts>>

\* on_job of a cancelled tick has unwound: its `finally` resets the flag, also
\* the one that the next tick has set.
Unwound ==
    /\ leaving > 0
    /\ leaving' = leaving - 1
    /\ active' = FALSE
    /\ UNCHANGED <<now, file, log, up, running, store, timer, tick, manual, runs, lost, bounds>>

-----------------------------------------------------------------------------
(* Calls of the WebUI and of the cron tool, and changes of other processes *)

Edit == /\ edits + faults < MaxEdits
        /\ edits' = edits + 1
        /\ UNCHANGED <<now, up, starts, faults>>

Call == running /\ Edit /\ UNCHANGED <<running, runs>>

\* list_jobs, get_job, status: a load, which may take the store away from a tick.
Polled ==
    /\ store' = Loaded
    /\ file' = Saved
    /\ tick' = IF Swapping THEN [tick EXCEPT !.live = FALSE] ELSE tick
    /\ lost' = IF Swapping THEN lost \cup Unsaved \cup Listed ELSE lost
    /\ UNCHANGED <<timer, active, leaving>>

List ==
    /\ Call
    /\ Reload
    /\ Polled

\* A job that is added has an id of its own.
NewId(j) == j \notin Initial /\ ~Here(Merged(store), j) /\ runs[j] = <<>>

Add(j) ==
    /\ Call
    /\ ~Here(Loaded, j) /\ NewId(j)
    /\ Change([Loaded EXCEPT ![j] = Fresh(j)])

Remove(j) ==
    /\ Call
    /\ Here(Loaded, j) /\ j \notin System
    /\ Change([Loaded EXCEPT ![j] = NoRec])

Disabled == [enabled |-> FALSE, next |-> 0]

\* Mutant: a tick in progress goes on with its list.
Enable_LeavesTick(j, on) ==
    /\ Call
    /\ Here(Loaded, j)
    /\ store' = [Loaded EXCEPT ![j] = IF on THEN Fresh(j) ELSE Disabled]
    /\ file' = store'
    /\ Reload
    /\ UNCHANGED <<timing, lost>>

Enable(j, on) ==
    /\ Call
    /\ Here(Loaded, j)
    /\ Change([Loaded EXCEPT ![j] = IF on THEN Fresh(j) ELSE Disabled])

\* update_job with the same schedule.
Update(j) ==
    /\ Call
    /\ Here(Loaded, j) /\ j \notin System
    /\ Change([Loaded EXCEPT ![j].next = IF Loaded[j].enabled THEN NextRun(j) ELSE 0])

\* run_job up to its await, with force=True also for a disabled job.  It does
\* not set _timer_active.
RunJob(j) ==
    /\ Call
    /\ manual = NoManual
    /\ Here(Loaded, j)
    /\ log' = IF active THEN log ELSE <<>>
    /\ manual' = [job |-> j, live |-> TRUE]
    /\ Polled

\* run_job finds the job gone or disabled: nothing is saved, but the timer is
\* armed again all the same.
RunJobRefused(j) ==
    /\ Call
    /\ ~(Here(Loaded, j) /\ Loaded[j].enabled)
    /\ Reload
    /\ store' = Loaded
    /\ file' = Saved
    /\ lost' = lost \cup Current \cup (IF Executing THEN Unsaved ELSE {})
    /\ Rearm(TRUE)

\* The rest of run_job.  _running goes back to what it was when run_job began,
\* even after a stop.
RunJobEnds ==
    /\ manual # NoManual
    /\ store' = AfterJob(manual.job, manual.live)
    /\ file' = store'
    /\ manual' = NoManual
    /\ running' = TRUE
    /\ lost' = lost \cup Current
    /\ Rearm(TRUE)
    /\ UNCHANGED <<now, log, up, runs, bounds>>

\* The caller of run_job is cancelled: the job's state is left as it is and
\* nothing is saved, but _running and the timer are restored.
RunJobCancelled ==
    /\ manual # NoManual
    /\ manual' = NoManual
    /\ running' = TRUE
    /\ lost' = lost \cup Current \cup Unsaved
    /\ Rearm(TRUE)
    /\ UNCHANGED <<now, file, log, up, store, runs, bounds>>

\* add_job, remove_job, enable_job of a service that does not run, in another
\* process: the change is appended to action.jsonl.
Elsewhere(j) ==
    /\ Edit
    /\ Here(Merged(file), j) \/ NewId(j)
    /\ \E rec \in {NoRec, Fresh(j), Disabled} :
         /\ rec # NoRec \/ j \notin System
         /\ log' = Append(log, [job |-> j, rec |-> rec])
    /\ UNCHANGED <<file, running, store, timing, manual, runs, lost>>

TimerStep == Fire \/ FireIdle \/ NextJob \/ TickEnds

Next ==
    \/ \E j \in Job : Elapse(j)
    \/ Start \/ Stop \/ Exit
    \/ TimerStep \/ TickFails \/ Unwound
    \/ List \/ RunJobEnds \/ RunJobCancelled
    \/ \E j \in Job : \/ Add(j) \/ Remove(j) \/ Update(j) \/ Elsewhere(j)
                      \/ RunJob(j) \/ RunJobRefused(j)
                      \/ \E on \in BOOLEAN : Enable(j, on)

Spec == Init /\ [][Next]_vars

\* The event loop runs the timer task, and on_job returns.
FairSpec == Spec /\ WF_vars(TimerStep)

-----------------------------------------------------------------------------
(* Properties.                                                             *)

LogEntry == [job : Job, rec : Rec \cup {NoRec}]

TypeOK ==
    /\ now \in [Job -> 0..MaxSlots]
    /\ file \in Jobs /\ store \in Jobs /\ log \in Seq(LogEntry)
    /\ up \in BOOLEAN /\ running \in BOOLEAN
    /\ running => up
    /\ timer \in {"off", "sleeping", "executing"}
    /\ timer # "off" => running
    /\ active \in BOOLEAN /\ leaving \in Nat
    /\ tick \in [job : Job \cup {NoJob}, todo : SUBSET Job, due : [Job -> Nat], live : BOOLEAN]
    /\ Executing <=> tick # NoTick
    /\ active => Executing \/ leaving > 0
    /\ manual \in [job : Job \cup {NoJob}, live : BOOLEAN]
    /\ runs \in [Job -> Seq(Nat)]
    /\ lost \subseteq Job \X Nat
    /\ edits \in 0..MaxEdits /\ starts \in 0..MaxStarts /\ faults \in 0..MaxFaults

\* An occurrence of a job is started by the timer at most once, also across
\* restarts, merges and manual runs (the `next_run_at_ms` update must not be
\* lost), until a save has failed.  The exceptions, each for the occurrences it
\* concerns: the timer task was cancelled in the middle of it; a run_job that
\* is refused or cancelled threw the tick away before its save; the flag of a
\* cancelled tick was reset under the next one and a load replaced its store;
\* or that flag kept a change of another process from being merged first.
OncePerOccurrence ==
    faults > 0 \/ \A j \in Job : \A a, b \in 1..Len(runs[j]) :
        (a # b /\ runs[j][a] = runs[j][b]) => <<j, runs[j][a]>> \in lost

\* The list of due jobs is made before the first await; still, a job is only
\* ever started by the timer while it is enabled and due in the store, unless
\* the flag was reset under the tick and a load has replaced that store.
StartsAreDue ==
    [][\A j \in Job : (runs'[j] # runs[j] /\ tick'.live) => Due(store', j)]_vars

\* A job that is due gets started, or changed, while the service runs, unless
\* a save has failed.
DueIsStarted ==
    \A j \in Job : (running /\ Due(store, j) /\ faults = 0)
        ~> (~running \/ ~Due(store, j) \/ tick.job = j \/ faults > 0)

\* Refuted: "During _on_timer execution, return the existing store" (docstring
\* of _load_store), so that no load takes the store away from a tick.
TickKeepsStore == Executing => tick.live

\* Refuted: a due job runs once, whatever else is called meanwhile.
EachOccurrenceOnce ==
    \A j \in Job : \A a, b \in 1..Len(runs[j]) : a # b => runs[j][a] # runs[j][b]
=============================================================================
