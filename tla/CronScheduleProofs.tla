-------------------------- MODULE CronScheduleProofs --------------------------
(***************************************************************************)
(* Proofs about CronSchedule, for every set of jobs of every kind and      *)
(* every bound on occurrences, calls, starts and failures.                 *)
(***************************************************************************)
EXTENDS CronSchedule, SequenceTheorems, WellFoundedInduction, TLAPS

-----------------------------------------------------------------------------
(* The inductive invariant.                                                *)

\* The timer has not started the n-th occurrence of j, or its end may be lost.
Strict(j, n) ==
    n = 0 \/ <<j, n>> \in lost \/ \A a \in 1..Len(runs[j]) : runs[j][a] # n

\* The same, but for the occurrence in execution.
Ahead(j, n) == Strict(j, n) \/ (tick.job = j /\ n = tick.due[j])

Runnable(jobs, j) == Here(jobs, j) /\ jobs[j].enabled

ManualUp == manual = NoManual \/ (up /\ manual.job \in Job)

\* The list of due jobs stays true while its jobs are executed, or everything
\* on it was taken out of the store and is counted as lost.
TodoDue ==
    Executing =>
        /\ tick.job \in Job \ tick.todo
        /\ \A j \in tick.todo : tick.due[j] > 0 /\ tick.due[j] <= now[j]
        /\ tick.live => \A j \in tick.todo : Due(store, j) /\ store[j].next = tick.due[j]
        /\ ~tick.live => Listed \subseteq lost

\* What was started was due.
Started == \A j \in Job : \A a \in 1..Len(runs[j]) : runs[j][a] <= now[j]

\* A change that waits in the log during a tick is about other occurrences than
\* those the tick has listed.
LogAfter ==
    \A i \in 1..Len(log) :
        (Executing /\ log[i].job \in tick.todo /\ log[i].rec # NoRec) =>
            \/ log[i].rec.next # tick.due[log[i].job]
            \/ <<log[i].job, tick.due[log[i].job]>> \in lost

StoreAhead == \A j \in Job : Runnable(store, j) => Ahead(j, store[j].next)
LogAhead ==
    \A i \in 1..Len(log) : log[i].rec # NoRec => Strict(log[i].job, log[i].rec.next)

\* While a tick executes, the file may be behind the store it works on.
FileAhead ==
    (running /\ ~tick.live) =>
        \A j \in Job : Runnable(file, j) => Strict(j, file[j].next)

Once ==
    \A j \in Job : \A a, b \in 1..Len(runs[j]) :
        (a # b /\ runs[j][a] = runs[j][b]) => <<j, runs[j][a]>> \in lost

\* Until a save fails.
Schedule == faults = 0 => StoreAhead /\ LogAhead /\ FileAhead /\ Once

CronInv == TypeOK /\ ManualUp /\ TodoDue /\ Started /\ LogAfter /\ Schedule

TickType == [job : Job \cup {NoJob}, todo : SUBSET Job, due : [Job -> Nat], live : BOOLEAN]
ManualType == [job : Job \cup {NoJob}, live : BOOLEAN]

-----------------------------------------------------------------------------
(* Records of jobs.                                                        *)

\* A record written now.
New(rec, j) == rec = NoRec \/ (rec \in Rec /\ rec.next \in {0, now[j] + 1})

LEMMA NoRecIsNone == NoRec \notin Rec
BY CronAssumption DEF Rec

LEMMA FreshIsNew ==
    ASSUME NEW j \in Job, now[j] \in Nat
    PROVE  /\ NextRun(j) \in {0, now[j] + 1} /\ NextRun(j) \in Nat
           /\ Fresh(j) \in Rec /\ Fresh(j).enabled /\ Fresh(j).next = NextRun(j)
           /\ New(Fresh(j), j)
           /\ New(NoRec, j)
           /\ New(Disabled, j)
<1>1. NextRun(j) \in {0, now[j] + 1} /\ NextRun(j) \in Nat
  BY DEF NextRun
<1>2. Fresh(j) \in Rec /\ Fresh(j).enabled /\ Fresh(j).next = NextRun(j)
  BY <1>1 DEF Fresh, Rec
<1>3. New(Fresh(j), j)
  BY <1>1, <1>2 DEF New
<1>4. New(NoRec, j) /\ New(Disabled, j)
  BY DEF New, Rec, Disabled
<1>. QED  BY <1>1, <1>2, <1>3, <1>4

\* A record written now is about an occurrence to come.
LEMMA NewIsAhead ==
    ASSUME TypeOK, Started, NEW j \in Job, NEW rec, New(rec, j), rec # NoRec
    PROVE  Strict(j, rec.next)
<1>1. now[j] \in Nat /\ runs[j] \in Seq(Nat)
  BY DEF TypeOK
<1>2. ASSUME NEW a \in 1..Len(runs[j]) PROVE runs[j][a] # now[j] + 1
  <2>1. runs[j][a] \in Nat /\ runs[j][a] <= now[j]
    BY <1>1, ElementOfSeq DEF Started
  <2>. QED  BY <1>1, <2>1
<1>. QED  BY <1>2 DEF New, Strict

LEMMA Least ==
    ASSUME NEW S \in SUBSET Nat, S # {}
    PROVE  \E k \in S : \A l \in S : k <= l
<1>1. PICK k \in S : \A l \in S : ~(<<l, k>> \in OpToRel(<, Nat))
  BY NatLessThanWellFounded, WFMin
<1>2. ASSUME NEW l \in S PROVE k <= l
  <2>1. ~(l < k)
    BY <1>1 DEF OpToRel
  <2>. QED  BY <2>1
<1>. QED  BY <1>2

LEMMA Greatest ==
    ASSUME NEW n \in Nat, NEW S \in SUBSET (1..n), S # {}
    PROVE  \E k \in S : \A l \in S : l <= k
<1> DEFINE T == {n - k : k \in S}
<1>1. T \in SUBSET Nat /\ T # {}
  <2>1. \A k \in S : n - k \in Nat
    OBVIOUS
  <2>. QED  BY <2>1
<1>2. PICK t \in T : \A u \in T : t <= u
  BY <1>1, Least
<1>3. PICK k \in S : t = n - k
  OBVIOUS
<1>4. ASSUME NEW l \in S PROVE l <= k
  <2>1. n - k <= n - l
    BY <1>2, <1>3
  <2>. QED  BY <2>1
<1>. QED  BY <1>4

\* A merge takes the record of a job from the file or from an action.
LEMMA MergedIs ==
    ASSUME log \in Seq(LogEntry), NEW jobs, NEW j \in Job
    PROVE  \/ Merged(jobs)[j] = jobs[j]
           \/ \E i \in 1..Len(log) : log[i].job = j /\ Merged(jobs)[j] = log[i].rec
<1> DEFINE about == {i \in 1..Len(log) : log[i].job = j}
           last == CHOOSE i \in about : \A k \in about : k <= i
<1>1. Merged(jobs)[j] = IF about = {} THEN jobs[j] ELSE log[last].rec
  BY Zenon DEF Merged
<1>2. CASE about # {}
  <2>1. Len(log) \in Nat
    BY LenProperties
  <2>2. \E i \in about : \A k \in about : k <= i
    BY <1>2, <2>1, Greatest
  <2>3. last \in about
    BY <2>2, Zenon
  <2>. QED  BY <1>1, <1>2, <2>3
<1>. QED  BY <1>1, <1>2

LEMMA MergedType ==
    ASSUME TypeOK, NEW jobs \in Jobs
    PROVE  Merged(jobs) \in Jobs
<1>1. log \in Seq(LogEntry) /\ \A i \in 1..Len(log) : log[i].rec \in Rec \cup {NoRec}
  <2>1. log \in Seq(LogEntry)
    BY DEF TypeOK
  <2>2. \A i \in 1..Len(log) : log[i] \in LogEntry
    BY <2>1, ElementOfSeq
  <2>. QED  BY <2>1, <2>2 DEF LogEntry
<1>2. ASSUME NEW j \in Job PROVE Merged(jobs)[j] \in Rec \cup {NoRec}
  <2>1. CASE Merged(jobs)[j] = jobs[j]
    BY <2>1 DEF Jobs
  <2>2. CASE \E i \in 1..Len(log) : log[i].job = j /\ Merged(jobs)[j] = log[i].rec
    BY <1>1, <2>2
  <2>. QED  BY <1>1, <2>1, <2>2, MergedIs
<1>3. Merged(jobs) = [j \in Job |-> Merged(jobs)[j]]
  <2> DEFINE M(j) ==
        LET about == {i \in 1..Len(log) : log[i].job = j}
        IN  IF about = {} THEN jobs[j]
            ELSE log[CHOOSE i \in about : \A k \in about : k <= i].rec
  <2>1. Merged(jobs) = [j \in Job |-> M(j)]
    BY Zenon DEF Merged
  <2> HIDE DEF M
  <2>. QED  BY <2>1, Zenon
<1>. QED  BY <1>2, <1>3 DEF Jobs

LEMMA LogJobs ==
    ASSUME TypeOK
    PROVE  \A i \in 1..Len(log) : log[i].job \in Job
<1>1. \A i \in 1..Len(log) : log[i] \in LogEntry
  BY ElementOfSeq DEF TypeOK
<1>. QED  BY <1>1 DEF LogEntry

LEMMA NoTickType ==
    /\ NoTick \in TickType /\ NoTick.job = NoJob /\ NoTick.todo = {} /\ ~NoTick.live
    /\ NoManual \in ManualType
BY DEF NoTick, NoManual, TickType, ManualType

\* What self._store holds after a load was not started, or is in execution, or
\* was executed in the tick that the load takes the store from.
LEMMA LoadedOK ==
    ASSUME CronInv, running
    PROVE  /\ Loaded \in Jobs /\ Saved \in Jobs
           /\ \A j \in Job : (faults = 0 /\ Runnable(Loaded, j)) =>
                  \/ Ahead(j, Loaded[j].next)
                  \/ Swapping /\ <<j, Loaded[j].next>> \in Unsaved
           /\ \A j \in Job : (faults = 0 /\ ~Executing /\ Runnable(Loaded, j)) =>
                  Strict(j, Loaded[j].next)
<1>1. TypeOK /\ Schedule
  BY DEF CronInv
<1>2. Loaded \in Jobs /\ Saved \in Jobs
  BY <1>1, MergedType DEF TypeOK, Loaded, Saved
<1>3. ~Executing => tick = NoTick
  BY <1>1 DEF TypeOK
<1>4. ASSUME NEW j \in Job, faults = 0, ~Executing PROVE \A n : Ahead(j, n) => Strict(j, n)
  BY <1>3, <1>4, NoTickType, CronAssumption DEF Ahead
<1>5. ASSUME NEW j \in Job, faults = 0, Runnable(Loaded, j)
      PROVE  /\ Ahead(j, Loaded[j].next) \/ (Swapping /\ <<j, Loaded[j].next>> \in Unsaved)
             /\ ~Executing => Strict(j, Loaded[j].next)
  <2>1. CASE active
    <3>1. Ahead(j, Loaded[j].next)
      BY <1>1, <1>5, <2>1 DEF Loaded, Schedule, StoreAhead
    <3>. QED  BY <1>4, <1>5, <3>1
  <2>2. CASE ~active
    <3>1. Loaded = Merged(file) /\ log \in Seq(LogEntry)
      BY <1>1, <2>2 DEF Loaded, TypeOK
    <3>2. CASE \E i \in 1..Len(log) : log[i].job = j /\ Merged(file)[j] = log[i].rec
      <4>1. Strict(j, Loaded[j].next)
        BY <1>1, <1>5, <3>1, <3>2 DEF Schedule, LogAhead, Runnable, Here
      <4>. QED  BY <4>1 DEF Ahead
    <3>3. CASE Merged(file)[j] = file[j] /\ Executing
      <4>1. CASE file[j] = store[j]
        BY <1>1, <1>5, <3>1, <3>3, <4>1 DEF Schedule, StoreAhead, Runnable, Here
      <4>2. CASE file[j] # store[j]
        BY <1>5, <2>2, <3>1, <3>3, <4>2 DEF Unsaved, Swapping, Runnable, Here
      <4>. QED  BY <3>3, <4>1, <4>2
    <3>4. CASE Merged(file)[j] = file[j] /\ ~Executing
      <4>1. Strict(j, Loaded[j].next)
        BY <1>1, <1>3, <1>5, <3>1, <3>4, NoTickType DEF Schedule, FileAhead, Runnable, Here
      <4>. QED  BY <4>1 DEF Ahead
    <3>. QED  BY <3>1, <3>2, <3>3, <3>4, MergedIs
  <2>. QED  BY <2>1, <2>2
<1>. QED  BY <1>2, <1>5

LEMMA ExecutedOK ==
    ASSUME TypeOK, NEW jobs \in Jobs, NEW j \in Job
    PROVE  /\ Executed(jobs, j) \in Jobs
           /\ \A k \in Job \ {j} : Executed(jobs, j)[k] = jobs[k]
           /\ New(Executed(jobs, j)[j], j)
<1>1. now[j] \in Nat /\ NextRun(j) \in {0, now[j] + 1} /\ NextRun(j) \in Nat
  BY FreshIsNew DEF TypeOK
<1>2. CASE ~Here(jobs, j)
  BY <1>2 DEF Executed, Here, New
<1>3. CASE Here(jobs, j) /\ j \in Recurring
  <2> DEFINE rec == [jobs[j] EXCEPT !.next = NextRun(j)]
  <2>1. Executed(jobs, j) = [jobs EXCEPT ![j] = rec]
    BY <1>3 DEF Executed
  <2>2. jobs[j] \in Rec
    BY <1>3 DEF Here, Jobs
  <2>3. rec \in Rec /\ rec.next = NextRun(j)
    BY <1>1, <2>2 DEF Rec
  <2> HIDE DEF rec
  <2>. QED  BY <1>1, <2>1, <2>3 DEF Jobs, New
<1>4. CASE Here(jobs, j) /\ j \notin Recurring /\ j \in DeleteAfter
  <2>1. Executed(jobs, j) = [jobs EXCEPT ![j] = NoRec]
    BY <1>4 DEF Executed
  <2>. QED  BY <2>1 DEF Jobs, New
<1>5. CASE Here(jobs, j) /\ j \notin Recurring /\ j \notin DeleteAfter
  <2> DEFINE rec == [jobs[j] EXCEPT !.enabled = FALSE, !.next = 0]
  <2>1. Executed(jobs, j) = [jobs EXCEPT ![j] = rec]
    BY <1>5 DEF Executed, Jobs
  <2>2. jobs[j] \in Rec
    BY <1>5 DEF Here, Jobs
  <2>3. rec \in Rec /\ rec.next = 0
    BY <2>2 DEF Rec
  <2> HIDE DEF rec
  <2>. QED  BY <2>1, <2>3 DEF Jobs, New
<1>. QED  BY <1>2, <1>3, <1>4, <1>5

\* A job that has ended leaves later occurrences in the store.
LEMMA AfterJobOK ==
    ASSUME CronInv, NEW j \in Job, NEW live \in BOOLEAN
    PROVE  /\ AfterJob(j, live) \in Jobs
           /\ \A k \in Job \ {j} : AfterJob(j, live)[k] = store[k]
           /\ \A k \in Job : (faults = 0 /\ Runnable(AfterJob(j, live), k)) =>
                  Ahead(k, AfterJob(j, live)[k].next)
           /\ \A k \in Job : (/\ faults = 0 /\ Runnable(AfterJob(j, live), k)
                              /\ Executing /\ j = tick.job /\ live = tick.live) =>
                  Strict(k, AfterJob(j, live)[k].next)
<1> DEFINE jobs == AfterJob(j, live)
<1>1. TypeOK /\ Started /\ Schedule /\ TodoDue /\ store \in Jobs
  BY DEF CronInv, TypeOK
<1>2. /\ jobs \in Jobs
      /\ \A k \in Job \ {j} : jobs[k] = store[k]
      /\ live => New(jobs[j], j)
      /\ ~live => jobs[j] \in {store[j], NoRec}
  <2>1. CASE live
    BY <1>1, <2>1, ExecutedOK DEF AfterJob
  <2>2. CASE ~live /\ j \in DeleteAfter
    BY <1>1, <2>2 DEF AfterJob, Jobs
  <2>3. CASE ~live /\ j \notin DeleteAfter
    BY <1>1, <2>3 DEF AfterJob
  <2>. QED  BY <2>1, <2>2, <2>3
<1> HIDE DEF jobs
<1>3. ASSUME NEW k \in Job, faults = 0, Runnable(jobs, k)
      PROVE  /\ Ahead(k, jobs[k].next)
             /\ (Executing /\ j = tick.job /\ live = tick.live) => Strict(k, jobs[k].next)
  <2>1. CASE live /\ k = j
    <3>1. Strict(k, jobs[k].next)
      BY <1>1, <1>2, <1>3, <2>1, NewIsAhead DEF Runnable, Here
    <3>. QED  BY <3>1 DEF Ahead
  <2>2. CASE ~live \/ k # j
    <3>1. jobs[k] = store[k]
      BY <1>2, <1>3, <2>2 DEF Runnable, Here
    <3>2. Ahead(k, jobs[k].next)
      BY <1>1, <1>3, <3>1 DEF Schedule, StoreAhead, Runnable, Here
    <3>3. ASSUME Executing, j = tick.job, live = tick.live PROVE Strict(k, jobs[k].next)
      <4>1. CASE k # j
        BY <3>2, <3>3, <4>1 DEF Ahead
      <4>2. CASE ~live
        <5>1. <<tick.job, tick.due[tick.job]>> \in lost
          BY <1>1, <3>3, <4>2 DEF TodoDue, Listed, Current
        <5>. QED  BY <3>2, <5>1 DEF Ahead, Strict
      <4>. QED  BY <2>2, <4>1, <4>2
    <3>. QED  BY <3>2, <3>3
  <2>. QED  BY <2>1, <2>2
<1>. QED  BY <1>2, <1>3 DEF jobs

-----------------------------------------------------------------------------
(* What a step does with the occurrences that were started.                *)

LEMMA LostTypes ==
    ASSUME CronInv
    PROVE  /\ Current \subseteq Job \X Nat /\ Listed \subseteq Job \X Nat
           /\ Unsaved \subseteq Job \X Nat /\ Unmerged \subseteq Job \X Nat
<1>1. TypeOK /\ TodoDue
  BY DEF CronInv
<1>2. \A j \in Job : tick.due[j] \in Nat
  BY <1>1 DEF TypeOK
<1>3. Current \subseteq Job \X Nat
  BY <1>1, <1>2 DEF Current, TodoDue
<1>4. Listed \subseteq Job \X Nat
  <2>1. tick.todo \subseteq Job
    BY <1>1 DEF TypeOK
  <2>. QED  BY <1>2, <1>3, <2>1 DEF Listed
<1>5. \A j \in Job : /\ Here(file, j) => file[j].next \in Nat
                     /\ Here(store, j) => store[j].next \in Nat
  BY <1>1 DEF TypeOK, Jobs, Rec, Here
<1>6. Unsaved \subseteq Job \X Nat /\ Unmerged \subseteq Job \X Nat
  BY <1>5 DEF Unsaved, Unmerged, DueJobs, Due
<1>. QED  BY <1>3, <1>4, <1>6

\* An execution that is cut off counts as lost.
LEMMA CutOff ==
    ASSUME CronInv, lost \subseteq lost', Current \subseteq lost', NEW j \in Job, NEW n, Ahead(j, n)
    PROVE  Strict(j, n) \/ <<j, n>> \in lost'
<1>1. CASE tick.job = j /\ n = tick.due[j]
  <2>1. Executing
    BY <1>1, NoTickType, CronAssumption DEF CronInv, TypeOK
  <2>2. <<j, n>> \in Current
    BY <1>1, <2>1 DEF Current
  <2>. QED  BY <2>2
<1>. QED  BY <1>1 DEF Ahead

LEMMA Rearmed ==
    ASSUME TypeOK, NEW on \in BOOLEAN, Rearm(on)
    PROVE  /\ tick' = NoTick /\ timer' \in {"off", "sleeping"} /\ (timer' # "off" => on)
           /\ active' \in BOOLEAN /\ leaving' \in Nat /\ (active' => leaving' > 0)
BY DEF Rearm, TypeOK

LEMMA Reloaded ==
    ASSUME TypeOK, ManualUp, Reload
    PROVE  /\ log' \in {log, <<>>}
           /\ manual' \in ManualType
           /\ manual' = NoManual \/ (up /\ manual'.job \in Job)
<1>1. manual \in ManualType /\ log' \in {log, <<>>}
  BY DEF TypeOK, ManualType, Reload
<1>2. CASE active
  BY <1>1, <1>2 DEF Reload, ManualUp
<1>3. CASE ~active /\ manual = NoManual
  <2>1. manual' = NoManual
    BY <1>3 DEF NoManual, Reload
  <2>. QED  BY <1>1, <1>3, <2>1
<1>4. CASE ~active /\ manual # NoManual
  BY <1>1, <1>4 DEF Reload, ManualUp, ManualType
<1>. QED  BY <1>2, <1>3, <1>4

\* The timer starts the next job of its list.
LEMMA BeginKeeps ==
    ASSUME TypeOK, Started, NEW todo \in SUBSET Job, NEW due \in [Job -> Nat],
           NEW live \in BOOLEAN,
           \A k \in todo : due[k] > 0 /\ due[k] <= now[k],
           NEW j \in todo,
           tick' = [job |-> j, todo |-> todo \ {j}, due |-> due, live |-> live],
           runs' = [runs EXCEPT ![j] = Append(@, due[j])],
           lost \subseteq lost', UNCHANGED now
    PROVE  /\ tick' \in TickType /\ tick' # NoTick
           /\ runs' \in [Job -> Seq(Nat)]
           /\ Started'
           /\ \A k \in Job : \A n : Strict(k, n) => Ahead(k, n)'
           /\ \A k \in Job : \A n :
                  (Strict(k, n) /\ (k = j => n # due[j] \/ <<j, due[j]>> \in lost')) => Strict(k, n)'
           /\ (Once /\ Strict(j, due[j])) => Once'
<1> DEFINE slot == due[j]
<1>1. slot \in Nat /\ slot > 0 /\ slot <= now[j]
  OBVIOUS
<1>2. tick' \in TickType /\ tick'.job = j /\ tick'.due = due
  BY DEF TickType
<1> HIDE DEF slot
<1>3. tick' # NoTick
  BY <1>2, NoTickType, CronAssumption
<1>4. runs \in [Job -> Seq(Nat)]
  BY DEF TypeOK
<1>5. /\ runs'[j] \in Seq(Nat) /\ Len(runs'[j]) = Len(runs[j]) + 1 /\ Len(runs[j]) \in Nat
      /\ runs'[j][Len(runs[j]) + 1] = slot
      /\ \A a \in 1..Len(runs[j]) : runs'[j][a] = runs[j][a] /\ runs[j][a] \in Nat
  <2>1. runs[j] \in Seq(Nat)
    BY <1>4
  <2>2. runs'[j] = Append(runs[j], slot)
    BY <1>4 DEF slot
  <2>. QED  BY <1>1, <2>1, <2>2, AppendProperties, LenProperties, ElementOfSeq
<1>6. \A k \in Job \ {j} : runs'[k] = runs[k]
  BY <1>4
<1>7. runs' \in [Job -> Seq(Nat)]
  BY <1>4, <1>5
<1>8. ASSUME NEW a \in 1..Len(runs'[j])
      PROVE  \/ a \in 1..Len(runs[j]) /\ runs'[j][a] = runs[j][a]
             \/ a = Len(runs[j]) + 1 /\ runs'[j][a] = slot
  BY <1>5
<1>9. Started'
  <2>1. ASSUME NEW k \in Job, NEW a \in 1..Len(runs'[k]) PROVE runs'[k][a] <= now'[k]
    BY <1>1, <1>6, <1>8, <2>1 DEF Started
  <2>. QED  BY <2>1 DEF Started
<1>10. ASSUME NEW k \in Job, NEW n, Strict(k, n), k = j => n # slot \/ <<j, slot>> \in lost'
       PROVE  Strict(k, n)'
  <2>1. CASE k # j
    BY <1>6, <1>10, <2>1 DEF Strict
  <2>2. CASE k = j
    BY <1>8, <1>10, <2>2 DEF Strict
  <2>. QED  BY <2>1, <2>2
<1>11. ASSUME NEW k \in Job, NEW n, Strict(k, n) PROVE Ahead(k, n)'
  <2>1. CASE k = j /\ n = slot
    BY <1>2, <2>1 DEF Ahead, slot
  <2>2. CASE ~(k = j /\ n = slot)
    <3>1. Strict(k, n)'
      BY <1>10, <1>11, <2>2
    <3>. QED  BY <3>1 DEF Ahead
  <2>. QED  BY <2>1, <2>2
<1>12. ASSUME Once, Strict(j, slot) PROVE Once'
  <2>1. ASSUME NEW k \in Job, NEW a \in 1..Len(runs'[k]), NEW b \in 1..Len(runs'[k]),
               a # b, runs'[k][a] = runs'[k][b]
        PROVE  <<k, runs'[k][a]>> \in lost'
    <3>1. CASE k # j
      BY <1>6, <1>12, <2>1, <3>1 DEF Once
    <3>2. CASE k = j
      <4>. <<j, slot>> \in lost' \/ \A c \in 1..Len(runs[j]) : runs[j][c] # slot
        BY <1>1, <1>12 DEF Strict
      <4>1. CASE a \in 1..Len(runs[j]) /\ b \in 1..Len(runs[j])
        BY <1>5, <1>12, <2>1, <3>2, <4>1 DEF Once
      <4>2. CASE a \in 1..Len(runs[j]) /\ b = Len(runs[j]) + 1
        BY <1>5, <2>1, <3>2, <4>2
      <4>3. CASE a = Len(runs[j]) + 1 /\ b \in 1..Len(runs[j])
        BY <1>5, <2>1, <3>2, <4>3
      <4>4. /\ a \in 1..Len(runs[j]) \/ a = Len(runs[j]) + 1
            /\ b \in 1..Len(runs[j]) \/ b = Len(runs[j]) + 1
        BY <1>5, <2>1, <3>2
      <4>. QED  BY <2>1, <4>1, <4>2, <4>3, <4>4
    <3>. QED  BY <3>1, <3>2
  <2>. QED  BY <2>1 DEF Once
<1>. QED  BY <1>2, <1>3, <1>7, <1>9, <1>10, <1>11, <1>12 DEF slot

-----------------------------------------------------------------------------
(* Every step keeps the invariant.                                         *)

\* A step after which nothing is executed, and every occurrence that the store
\* or the file still names was not started or is counted as lost.
LEMMA SettledKeeps ==
    ASSUME CronInv, store' \in Jobs, file' \in Jobs, tick' = NoTick,
           timer' \in {"off", "sleeping"}, timer' # "off" => running',
           active' \in BOOLEAN, leaving' \in Nat, active' => leaving' > 0,
           running' \in BOOLEAN, up' \in BOOLEAN, running' => up',
           log' \in {log, <<>>}, manual' \in ManualType,
           manual' = NoManual \/ (up' /\ manual'.job \in Job),
           lost \subseteq lost', lost' \subseteq Job \X Nat,
           edits' \in 0..MaxEdits, starts' \in 0..MaxStarts, faults' \in 0..MaxFaults,
           faults' = 0 => faults = 0, UNCHANGED <<now, runs>>,
           faults' = 0 => \A j \in Job : Runnable(store', j) =>
               Strict(j, store'[j].next) \/ <<j, store'[j].next>> \in lost',
           faults' = 0 /\ running' => \A j \in Job : Runnable(file', j) =>
               Strict(j, file'[j].next) \/ <<j, file'[j].next>> \in lost'
    PROVE  CronInv'
<1>1. TypeOK /\ Started /\ Schedule
  BY DEF CronInv
<1>2. ~Executing' /\ tick' \in TickType
  BY NoTickType DEF Executing
<1>3. ASSUME NEW j \in Job, NEW n, Strict(j, n) \/ <<j, n>> \in lost' PROVE Strict(j, n)'
  BY <1>3 DEF Strict
<1>4. log' \in Seq(LogEntry)
  <2>1. log \in Seq(LogEntry)
    BY <1>1 DEF TypeOK
  <2>. QED  BY <2>1, EmptySeq
<1>5. now' \in [Job -> 0..MaxSlots] /\ runs' \in [Job -> Seq(Nat)]
  BY <1>1 DEF TypeOK
<1>6. TypeOK'
  BY <1>2, <1>4, <1>5 DEF TypeOK, TickType, ManualType
<1>7. ManualUp' /\ TodoDue' /\ LogAfter'
  BY <1>2 DEF ManualUp, TodoDue, LogAfter
<1>8. Started'
  BY <1>1 DEF Started
<1>9. ASSUME faults' = 0 PROVE StoreAhead' /\ LogAhead' /\ FileAhead' /\ Once'
  <2>1. StoreAhead'
    <3>1. ASSUME NEW j \in Job, Runnable(store', j) PROVE Ahead(j, store[j].next)'
      BY <1>3, <1>9, <3>1 DEF Ahead
    <3>. QED  BY <3>1 DEF StoreAhead, Runnable, Here
  <2>2. FileAhead'
    <3>1. ASSUME NEW j \in Job, running', Runnable(file', j) PROVE Strict(j, file[j].next)'
      BY <1>3, <1>9, <3>1
    <3>. QED  BY <3>1 DEF FileAhead, Runnable, Here
  <2>3. LogAhead'
    <3>1. CASE log' = log
      <4>1. ASSUME NEW i \in 1..Len(log), log[i].rec # NoRec
            PROVE  \A n : n = log[i].rec.next => Strict(log[i].job, n)'
        <5>1. log[i].job \in Job /\ Strict(log[i].job, log[i].rec.next)
          BY <1>1, <1>9, <4>1, LogJobs DEF Schedule, LogAhead
        <5>. QED  BY <3>1, <5>1 DEF Strict
      <4>. QED  BY <3>1, <4>1 DEF LogAhead
    <3>2. CASE log' = <<>>
      <4>1. Len(log') = 0
        BY <3>2, EmptySeq
      <4>. QED  BY <4>1 DEF LogAhead
    <3>. QED  BY <3>1, <3>2
  <2>4. Once'
    BY <1>1, <1>9 DEF Schedule, Once
  <2>. QED  BY <2>1, <2>2, <2>3, <2>4
<1>10. Schedule'
  BY <1>9 DEF Schedule
<1>. QED  BY <1>6, <1>7, <1>8, <1>10 DEF CronInv

\* What no call changes.
LEMMA CallBounds ==
    ASSUME CronInv, Call
    PROVE  /\ running = TRUE /\ up = TRUE /\ UNCHANGED <<now, runs, starts, faults, up, running>>
           /\ edits' \in 0..MaxEdits /\ starts' \in 0..MaxStarts /\ faults' \in 0..MaxFaults
<1>1. /\ running /\ edits + faults < MaxEdits /\ edits' = edits + 1
      /\ UNCHANGED <<now, runs, starts, faults, up, running>>
  BY DEF Call, Edit
<1>2. TypeOK
  BY DEF CronInv
<1>3. running = TRUE /\ up = TRUE /\ starts' \in 0..MaxStarts /\ faults' \in 0..MaxFaults
  BY <1>1, <1>2 DEF TypeOK
<1>4. edits \in Nat /\ faults \in Nat /\ MaxEdits \in Nat
  BY <1>2, CronAssumption DEF TypeOK
<1>5. edits' \in 0..MaxEdits
  BY <1>1, <1>4
<1>. QED  BY <1>1, <1>3, <1>5

\* add_job, remove_job, enable_job, update_job.
LEMMA ChangeKeeps ==
    ASSUME CronInv, Call, NEW j \in Job, NEW rec, New(rec, j),
           Change([Loaded EXCEPT ![j] = rec])
    PROVE  CronInv'
<1> DEFINE jobs == [Loaded EXCEPT ![j] = rec]
<1>1. /\ running = TRUE /\ up = TRUE /\ UNCHANGED <<now, runs, starts, faults, up, running>>
      /\ edits' \in 0..MaxEdits /\ starts' \in 0..MaxStarts /\ faults' \in 0..MaxFaults
  BY CallBounds
<1>2. TypeOK /\ Started /\ ManualUp
  BY DEF CronInv
<1>3. Loaded \in Jobs
  BY <1>1, LoadedOK
<1>4. jobs \in Jobs /\ jobs[j] = rec /\ \A k \in Job \ {j} : jobs[k] = Loaded[k]
  BY <1>3 DEF Jobs, New
<1>5. /\ store' = jobs /\ file' = jobs /\ Reload /\ Rearm(TRUE)
      /\ lost' = lost \cup Current \cup (IF Swapping THEN Unsaved ELSE {})
  BY DEF Change
<1> HIDE DEF jobs
<1>6. lost \subseteq lost' /\ Current \subseteq lost' /\ lost' \subseteq Job \X Nat
  BY <1>2, <1>5, LostTypes DEF TypeOK
<1>7. ASSUME faults = 0, NEW k \in Job, Runnable(jobs, k)
      PROVE  Strict(k, jobs[k].next) \/ <<k, jobs[k].next>> \in lost'
  <2>1. CASE k = j
    BY <1>2, <1>4, <1>7, <2>1, NewIsAhead DEF Runnable, Here
  <2>2. CASE k # j
    <3>1. jobs[k] = Loaded[k] /\ Runnable(Loaded, k)
      BY <1>4, <1>7, <2>2 DEF Runnable, Here
    <3>2. CASE Ahead(k, Loaded[k].next)
      BY <1>6, <3>1, <3>2, CutOff
    <3>3. CASE Swapping /\ <<k, Loaded[k].next>> \in Unsaved
      BY <1>5, <3>1, <3>3
    <3>. QED  BY <1>1, <1>7, <3>1, <3>2, <3>3, LoadedOK
  <2>. QED  BY <2>1, <2>2
<1>8. /\ tick' = NoTick /\ timer' \in {"off", "sleeping"}
      /\ active' \in BOOLEAN /\ leaving' \in Nat /\ (active' => leaving' > 0)
  BY <1>2, <1>5, Rearmed
<1>9. /\ log' \in {log, <<>>} /\ manual' \in ManualType
      /\ manual' = NoManual \/ (up /\ manual'.job \in Job)
  BY <1>2, <1>5, Reloaded
<1>. QED  BY <1>1, <1>4, <1>5, <1>6, <1>7, <1>8, <1>9, SettledKeeps

LEMMA CallKeeps ==
    ASSUME CronInv, NEW j \in Job,
           Add(j) \/ Remove(j) \/ Update(j) \/ \E on \in BOOLEAN : Enable(j, on)
    PROVE  CronInv'
<1>1. now[j] \in Nat
  <2>1. TypeOK
    BY DEF CronInv
  <2>. QED  BY <2>1 DEF TypeOK
<1>2. CASE Add(j)
  BY <1>1, <1>2, FreshIsNew, ChangeKeeps DEF Add
<1>3. CASE Remove(j)
  BY <1>1, <1>3, FreshIsNew, ChangeKeeps DEF Remove
<1>4. CASE \E on \in BOOLEAN : Enable(j, on)
  <2>1. PICK on \in BOOLEAN : Enable(j, on)
    BY <1>4
  <2> DEFINE rec == IF on THEN Fresh(j) ELSE Disabled
  <2>2. New(rec, j)
    BY <1>1, FreshIsNew
  <2>3. Call /\ Change([Loaded EXCEPT ![j] = rec])
    BY <2>1 DEF Enable
  <2> HIDE DEF rec
  <2>. QED  BY <2>2, <2>3, ChangeKeeps
<1>5. CASE Update(j)
  <2> DEFINE next == IF Loaded[j].enabled THEN NextRun(j) ELSE 0
             rec == [Loaded[j] EXCEPT !.next = next]
  <2>1. Call /\ Here(Loaded, j) /\ Change([Loaded EXCEPT ![j].next = next])
    BY <1>5 DEF Update
  <2>2. running
    BY <2>1 DEF Call
  <2>3. Loaded[j] \in Rec
    BY <2>1, <2>2, LoadedOK DEF Here, Jobs
  <2>4. next \in {0, now[j] + 1} /\ next \in Nat
    BY <1>1, FreshIsNew
  <2>5. rec \in Rec /\ rec.next = next
    BY <2>3, <2>4 DEF Rec
  <2>6. New(rec, j)
    BY <2>4, <2>5 DEF New
  <2>7. Change([Loaded EXCEPT ![j] = rec])
    BY <2>1
  <2> HIDE DEF rec
  <2>. QED  BY <2>1, <2>6, <2>7, ChangeKeeps
<1>. QED  BY <1>2, <1>3, <1>4, <1>5

\* A record of the file is the one of the store, or what it names is unsaved.
LEMMA FileIsStore ==
    ASSUME CronInv, faults = 0, lost \subseteq lost', Current \subseteq lost',
           Unsaved \subseteq lost', NEW j \in Job, Runnable(file, j)
    PROVE  Strict(j, file[j].next) \/ <<j, file[j].next>> \in lost'
<1>1. CASE file[j] # store[j]
  BY <1>1 DEF Unsaved, Runnable
<1>2. CASE file[j] = store[j]
  <2>1. Ahead(j, file[j].next)
    BY <1>2 DEF CronInv, Schedule, StoreAhead, Runnable, Here
  <2>. QED  BY <2>1, CutOff
<1>. QED  BY <1>1, <1>2

\* run_job refuses: the tick is cut off and what it did is not in the file.
LEMMA RefusedKeeps ==
    ASSUME CronInv, NEW j \in Job, RunJobRefused(j)
    PROVE  CronInv'
<1>1. /\ running = TRUE /\ up = TRUE /\ UNCHANGED <<now, runs, starts, faults, up, running>>
      /\ edits' \in 0..MaxEdits /\ starts' \in 0..MaxStarts /\ faults' \in 0..MaxFaults
  BY CallBounds DEF RunJobRefused
<1>2. TypeOK /\ Schedule /\ ManualUp
  BY DEF CronInv
<1>3. /\ store' = Loaded /\ file' = Saved /\ Reload /\ Rearm(TRUE)
      /\ lost' = lost \cup Current \cup (IF Executing THEN Unsaved ELSE {})
  BY DEF RunJobRefused
<1>4. lost \subseteq lost' /\ Current \subseteq lost' /\ lost' \subseteq Job \X Nat
  BY <1>2, <1>3, LostTypes DEF TypeOK
<1>5. Loaded \in Jobs /\ Saved \in Jobs
  BY <1>1, LoadedOK
<1>6. ASSUME faults = 0, NEW k \in Job, Runnable(Loaded, k)
      PROVE  Strict(k, Loaded[k].next) \/ <<k, Loaded[k].next>> \in lost'
  <2>1. CASE Ahead(k, Loaded[k].next)
    BY <1>4, <2>1, CutOff
  <2>2. CASE Swapping /\ <<k, Loaded[k].next>> \in Unsaved
    BY <1>3, <2>2 DEF Swapping
  <2>. QED  BY <1>1, <1>6, <2>1, <2>2, LoadedOK
<1>7. ASSUME faults = 0, NEW k \in Job, Runnable(Saved, k)
      PROVE  Strict(k, Saved[k].next) \/ <<k, Saved[k].next>> \in lost'
  <2>1. CASE ~active
    BY <1>6, <1>7, <2>1 DEF Saved, Loaded
  <2>2. CASE active /\ Executing
    <3>1. Saved = file /\ Unsaved \subseteq lost'
      BY <1>3, <2>2 DEF Saved
    <3>. QED  BY <1>4, <1>7, <3>1, FileIsStore
  <2>3. CASE active /\ ~Executing
    <3>1. Saved = file /\ ~tick.live
      BY <1>2, <2>3, NoTickType DEF Saved, TypeOK
    <3>. QED  BY <1>1, <1>2, <1>7, <3>1 DEF Schedule, FileAhead
  <2>. QED  BY <2>1, <2>2, <2>3
<1>8. /\ tick' = NoTick /\ timer' \in {"off", "sleeping"}
      /\ active' \in BOOLEAN /\ leaving' \in Nat /\ (active' => leaving' > 0)
  BY <1>2, <1>3, Rearmed
<1>9. /\ log' \in {log, <<>>} /\ manual' \in ManualType
      /\ manual' = NoManual \/ (up /\ manual'.job \in Job)
  BY <1>2, <1>3, Reloaded
<1>. QED  BY <1>1, <1>3, <1>4, <1>5, <1>6, <1>7, <1>8, <1>9, SettledKeeps

\* run_job ends or is cancelled, perhaps after a stop.
LEMMA RunJobOverKeeps ==
    ASSUME CronInv, RunJobEnds \/ RunJobCancelled
    PROVE  CronInv'
<1>1. /\ manual # NoManual /\ manual' = NoManual /\ running' = TRUE /\ Rearm(TRUE)
      /\ UNCHANGED <<now, log, up, runs, edits, starts, faults>>
      /\ \/ /\ store' = AfterJob(manual.job, manual.live) /\ file' = store'
            /\ lost' = lost \cup Current
         \/ UNCHANGED <<file, store>> /\ lost' = lost \cup Current \cup Unsaved
  BY DEF RunJobEnds, RunJobCancelled, bounds
<1>2. TypeOK /\ Schedule /\ up = TRUE /\ manual.job \in Job /\ manual.live \in BOOLEAN
  BY <1>1 DEF CronInv, ManualUp, TypeOK
<1>3. lost \subseteq lost' /\ Current \subseteq lost' /\ lost' \subseteq Job \X Nat
  BY <1>1, <1>2, LostTypes DEF TypeOK
<1>4. /\ store' \in Jobs /\ file' \in Jobs
      /\ faults = 0 => \A k \in Job : Runnable(store', k) =>
             Strict(k, store'[k].next) \/ <<k, store'[k].next>> \in lost'
      /\ faults = 0 => \A k \in Job : Runnable(file', k) =>
             Strict(k, file'[k].next) \/ <<k, file'[k].next>> \in lost'
  <2>1. CASE store' = AfterJob(manual.job, manual.live) /\ file' = store'
    <3>1. store' \in Jobs
      BY <1>2, <2>1, AfterJobOK
    <3>2. ASSUME faults = 0, NEW k \in Job, Runnable(store', k) PROVE Ahead(k, store'[k].next)
      BY <1>2, <2>1, <3>2, AfterJobOK
    <3>. QED  BY <1>3, <2>1, <3>1, <3>2, CutOff
  <2>2. CASE UNCHANGED <<file, store>> /\ lost' = lost \cup Current \cup Unsaved
    <3>1. ASSUME faults = 0, NEW k \in Job, Runnable(store, k) PROVE Ahead(k, store[k].next)
      BY <1>2, <3>1 DEF Schedule, StoreAhead
    <3>2. file \in Jobs /\ store \in Jobs
      BY <1>2 DEF TypeOK
    <3>3. Unsaved \subseteq lost'
      BY <2>2
    <3>. QED  BY <1>3, <2>2, <3>1, <3>2, <3>3, CutOff, FileIsStore
  <2>. QED  BY <1>1, <2>1, <2>2
<1>5. /\ tick' = NoTick /\ timer' \in {"off", "sleeping"}
      /\ active' \in BOOLEAN /\ leaving' \in Nat /\ (active' => leaving' > 0)
  BY <1>1, <1>2, Rearmed
<1>6. /\ edits' \in 0..MaxEdits /\ starts' \in 0..MaxStarts /\ faults' \in 0..MaxFaults
      /\ up' \in BOOLEAN
  BY <1>1, <1>2 DEF TypeOK
<1>. QED  BY <1>1, <1>2, <1>3, <1>4, <1>5, <1>6, NoTickType, SettledKeeps

LEMMA ProcessKeeps ==
    ASSUME CronInv, Start \/ Stop \/ Exit
    PROVE  CronInv'
<1>1. TypeOK /\ Started /\ Schedule /\ ManualUp
  BY DEF CronInv
<1>2. CASE Start
  <2> DEFINE jobs == [j \in Job |->
                        IF j \in System THEN Fresh(j)
                        ELSE IF Here(Merged(file), j) /\ Merged(file)[j].enabled
                        THEN Fresh(j) ELSE Merged(file)[j]]
  <2>1. /\ ~up /\ starts < MaxStarts /\ starts' = starts + 1 /\ up' = TRUE /\ running' = TRUE
        /\ store' = jobs /\ file' = jobs /\ log' = <<>> /\ timer' = "sleeping"
        /\ UNCHANGED <<now, active, leaving, tick, manual, runs, lost, edits, faults>>
    BY <1>2 DEF Start
  <2>2. Merged(file) \in Jobs /\ tick = NoTick /\ (active => leaving > 0)
    BY <1>1, <2>1, MergedType DEF TypeOK, Executing
  <2>3. ASSUME NEW j \in Job PROVE New(Fresh(j), j) /\ Fresh(j) \in Rec
    BY <1>1, FreshIsNew DEF TypeOK
  <2>4. jobs \in Jobs
    BY <2>2, <2>3 DEF Jobs
  <2>5. ASSUME NEW j \in Job, Runnable(jobs, j) PROVE Strict(j, jobs[j].next)
    <3>1. jobs[j] = Fresh(j)
      BY <2>5 DEF Runnable, Here
    <3>. QED  BY <1>1, <2>3, <3>1, NewIsAhead, NoRecIsNone
  <2> HIDE DEF jobs
  <2>6. /\ active' \in BOOLEAN /\ leaving' \in Nat /\ manual' \in ManualType
        /\ lost' \subseteq Job \X Nat /\ edits' \in 0..MaxEdits /\ faults' \in 0..MaxFaults
    BY <1>1, <2>1 DEF TypeOK, ManualType
  <2>7. starts' \in 0..MaxStarts
    BY <1>1, <2>1, CronAssumption DEF TypeOK
  <2>8. manual' = NoManual \/ (up' /\ manual'.job \in Job)
    BY <1>1, <2>1 DEF ManualUp
  <2>. QED  BY <2>1, <2>2, <2>4, <2>5, <2>6, <2>7, <2>8, SettledKeeps
<1>3. CASE Stop
  <2>1. /\ running' = FALSE /\ Rearm(FALSE) /\ lost' = lost \cup Current
        /\ UNCHANGED <<now, file, log, up, store, manual, runs, edits, starts, faults>>
    BY <1>3 DEF Stop, bounds
  <2>2. /\ tick' = NoTick /\ timer' \in {"off", "sleeping"} /\ (timer' # "off" => FALSE)
        /\ active' \in BOOLEAN /\ leaving' \in Nat /\ (active' => leaving' > 0)
    BY <1>1, <2>1, Rearmed
  <2>3. lost \subseteq lost' /\ Current \subseteq lost' /\ lost' \subseteq Job \X Nat
    BY <1>1, <2>1, LostTypes DEF TypeOK
  <2>4. /\ store' \in Jobs /\ file' \in Jobs /\ up' \in BOOLEAN /\ manual' \in ManualType
        /\ edits' \in 0..MaxEdits /\ starts' \in 0..MaxStarts /\ faults' \in 0..MaxFaults
    BY <1>1, <2>1 DEF TypeOK, ManualType
  <2>5. ASSUME faults = 0, NEW j \in Job, Runnable(store, j)
        PROVE  Strict(j, store[j].next) \/ <<j, store[j].next>> \in lost'
    <3>1. Ahead(j, store[j].next)
      BY <1>1, <2>5 DEF Schedule, StoreAhead
    <3>. QED  BY <2>3, <3>1, CutOff
  <2>6. manual' = NoManual \/ (up' /\ manual'.job \in Job)
    BY <1>1, <2>1 DEF ManualUp
  <2>. QED  BY <2>1, <2>2, <2>3, <2>4, <2>5, <2>6, SettledKeeps
<1>4. CASE Exit
  <2>1. /\ up' = FALSE /\ running' = FALSE /\ timer' = "off" /\ active' = FALSE /\ leaving' = 0
        /\ tick' = NoTick /\ manual' = NoManual /\ store' = [j \in Job |-> NoRec]
        /\ UNCHANGED <<now, file, log, runs, lost, edits, starts, faults>>
    BY <1>4 DEF Exit, bounds
  <2>2. store' \in Jobs /\ \A j \in Job : ~Runnable(store', j)
    BY <2>1 DEF Jobs, Runnable, Here
  <2>3. /\ file' \in Jobs /\ lost' \subseteq Job \X Nat
        /\ edits' \in 0..MaxEdits /\ starts' \in 0..MaxStarts /\ faults' \in 0..MaxFaults
    BY <1>1, <2>1 DEF TypeOK
  <2>. QED  BY <2>1, <2>2, <2>3, NoTickType, SettledKeeps
<1>. QED  BY <1>2, <1>3, <1>4

\* The end of a tick, with or without its save, or a tick with nothing due.
LEMMA TickOverKeeps ==
    ASSUME CronInv, TickEnds \/ TickFails \/ FireIdle
    PROVE  CronInv'
<1>1. TypeOK /\ Started /\ Schedule /\ ManualUp /\ TodoDue
  BY DEF CronInv
<1>2. CASE TickEnds \/ TickFails
  <2> DEFINE jobs == AfterJob(tick.job, tick.live)
  <2>1. /\ Executing /\ store' = jobs /\ tick' = NoTick /\ active' = FALSE
        /\ UNCHANGED <<now, log, up, running, leaving, manual, runs, lost, edits, starts>>
        /\ \/ file' = jobs /\ timer' = "sleeping" /\ faults' = faults
           \/ file' = file /\ timer' = "off" /\ faults' = faults + 1 /\ faults < MaxFaults
    BY <1>2 DEF TickEnds, TickFails, bounds
  <2>2. tick.job \in Job /\ tick.live \in BOOLEAN /\ running
    BY <1>1, <2>1 DEF TodoDue, TypeOK, Executing
  <2>3. /\ jobs \in Jobs
        /\ faults = 0 => \A k \in Job : Runnable(jobs, k) => Strict(k, jobs[k].next)
    BY <2>1, <2>2, AfterJobOK
  <2> HIDE DEF jobs
  <2>4. faults \in Nat /\ faults' \in 0..MaxFaults
    BY <1>1, <2>1, CronAssumption DEF TypeOK
  <2>5. /\ file' \in Jobs /\ leaving' \in Nat /\ running' \in BOOLEAN /\ up' \in BOOLEAN
        /\ running' => up'
        /\ manual' \in ManualType /\ lost' \subseteq Job \X Nat
        /\ edits' \in 0..MaxEdits /\ starts' \in 0..MaxStarts
    BY <1>1, <2>1, <2>3 DEF TypeOK, ManualType
  <2>6. manual' = NoManual \/ (up' /\ manual'.job \in Job)
    BY <1>1, <2>1 DEF ManualUp
  <2>7. faults' = 0 => faults = 0 /\ file' = jobs
    BY <2>1, <2>4
  <2>. QED  BY <2>1, <2>2, <2>3, <2>4, <2>5, <2>6, <2>7, SettledKeeps
<1>3. CASE FireIdle
  <2>1. /\ timer = "sleeping" /\ running /\ store' = Loaded /\ file' = Loaded /\ Reload
        /\ active' = FALSE
        /\ UNCHANGED <<now, up, running, timer, leaving, tick, runs, lost, edits, starts, faults>>
    BY <1>3 DEF FireIdle, bounds
  <2>2. ~Executing /\ tick = NoTick
    BY <1>1, <2>1 DEF TypeOK, Executing
  <2>3. /\ Loaded \in Jobs
        /\ faults = 0 => \A k \in Job : Runnable(Loaded, k) => Strict(k, Loaded[k].next)
    BY <2>1, <2>2, LoadedOK
  <2>4. /\ log' \in {log, <<>>} /\ manual' \in ManualType
        /\ manual' = NoManual \/ (up /\ manual'.job \in Job)
    BY <1>1, <2>1, Reloaded
  <2>5. /\ leaving' \in Nat /\ running' \in BOOLEAN /\ up' \in BOOLEAN /\ (running' => up')
        /\ lost' \subseteq Job \X Nat
        /\ edits' \in 0..MaxEdits /\ starts' \in 0..MaxStarts /\ faults' \in 0..MaxFaults
    BY <1>1, <2>1 DEF TypeOK
  <2>. QED  BY <2>1, <2>2, <2>3, <2>4, <2>5, SettledKeeps
<1>. QED  BY <1>2, <1>3

\* Nothing changes but a run_job in progress, the flag and the number of calls.
LEMMA SameKeeps ==
    ASSUME CronInv, UNCHANGED <<now, file, log, up, running, store, timer, tick, runs, lost,
                                starts, faults>>,
           manual' \in ManualType, manual' = NoManual \/ (up /\ manual'.job \in Job),
           active' \in BOOLEAN, leaving' \in Nat, active' => Executing \/ leaving' > 0,
           edits' \in 0..MaxEdits
    PROVE  CronInv'
<1>1. TypeOK' /\ ManualUp' /\ Started'
  BY DEF CronInv, TypeOK, ManualType, ManualUp, Started, Executing
<1>2. TodoDue' /\ LogAfter'
  BY DEF CronInv, TodoDue, LogAfter, Listed, Current, Executing, Due, Here
<1>3. Schedule'
  <2>1. Once' <=> Once
    BY DEF Once
  <2>2. \A j : \A n : (Strict(j, n)' <=> Strict(j, n)) /\ (Ahead(j, n)' <=> Ahead(j, n))
    BY DEF Strict, Ahead
  <2>3. (StoreAhead => StoreAhead') /\ (FileAhead => FileAhead')
    BY <2>2 DEF StoreAhead, FileAhead, Runnable, Here
  <2>4. LogAhead => LogAhead'
    BY <2>2 DEF LogAhead
  <2>. QED  BY <2>1, <2>3, <2>4 DEF CronInv, Schedule
<1>. QED  BY <1>1, <1>2, <1>3 DEF CronInv

\* list_jobs and run_job: a load that may take the store away from the tick.
LEMMA PolledKeeps ==
    ASSUME CronInv, running = TRUE, up = TRUE, Polled, log' = IF active THEN log ELSE <<>>,
           manual' \in ManualType, manual' = NoManual \/ (up /\ manual'.job \in Job),
           edits' \in 0..MaxEdits, UNCHANGED <<now, up, running, runs, starts, faults>>
    PROVE  CronInv'
<1>1. TypeOK /\ Started /\ Schedule /\ TodoDue
  BY DEF CronInv
<1>2. /\ store' = Loaded /\ file' = Saved
      /\ tick' = IF Swapping THEN [tick EXCEPT !.live = FALSE] ELSE tick
      /\ lost' = IF Swapping THEN lost \cup Unsaved \cup Listed ELSE lost
      /\ UNCHANGED <<timer, active, leaving>>
  BY DEF Polled
<1>3. CASE active
  <2>1. UNCHANGED <<file, log, store, tick, lost>>
    BY <1>2, <1>3 DEF Swapping, Loaded, Saved
  <2>. QED  BY <1>1, <1>2, <2>1, SameKeeps DEF TypeOK
<1>4. CASE ~active /\ ~Executing
  <2>1. store' = Loaded /\ file' = Loaded /\ UNCHANGED <<tick, lost>> /\ tick = NoTick
    BY <1>1, <1>2, <1>4 DEF Swapping, Loaded, Saved, TypeOK
  <2>2. /\ Loaded \in Jobs
        /\ faults = 0 => \A k \in Job : Runnable(Loaded, k) => Strict(k, Loaded[k].next)
    BY <1>4, LoadedOK
  <2>3. /\ timer' \in {"off", "sleeping"} /\ (timer' # "off" => running')
        /\ active' \in BOOLEAN /\ leaving' \in Nat /\ (active' => leaving' > 0)
        /\ lost' \subseteq Job \X Nat /\ starts' \in 0..MaxStarts /\ faults' \in 0..MaxFaults
    BY <1>1, <1>2, <1>4, <2>1 DEF TypeOK, Executing
  <2>. QED  BY <1>4, <2>1, <2>2, <2>3, SettledKeeps
<1>5. CASE Swapping
  <2>1. /\ ~active /\ Executing /\ Executing' /\ store' = Loaded /\ file' = Loaded
        /\ log' = <<>> /\ tick' = [tick EXCEPT !.live = FALSE]
        /\ lost' = lost \cup Unsaved \cup Listed
    BY <1>2, <1>5 DEF Swapping, Loaded, Saved, Executing
  <2>2. tick \in TickType
    BY <1>1 DEF TypeOK, TickType
  <2>3. /\ tick' \in TickType /\ tick'.job = tick.job /\ tick'.todo = tick.todo
        /\ tick'.due = tick.due /\ ~tick'.live
    BY <2>1, <2>2 DEF TickType
  <2>4. tick.job \in Job /\ tick' # NoTick
    BY <1>1, <2>1, <2>3, NoTickType, CronAssumption DEF TodoDue
  <2>5. lost \subseteq lost' /\ Listed \subseteq lost' /\ Unsaved \subseteq lost'
        /\ Current \subseteq lost'
    BY <2>1 DEF Listed
  <2>6. lost' \subseteq Job \X Nat
    BY <1>1, <2>1, LostTypes DEF TypeOK
  <2>7. Len(log') = 0 /\ log' \in Seq(LogEntry)
    BY <2>1, EmptySeq
  <2>8. TypeOK'
    <3>1. store' \in Jobs /\ file' \in Jobs
      BY <2>1, LoadedOK
    <3>2. tick' \in [job : Job \cup {NoJob}, todo : SUBSET Job, due : [Job -> Nat], live : BOOLEAN]
      BY <2>3 DEF TickType
    <3>3. manual' \in [job : Job \cup {NoJob}, live : BOOLEAN]
      BY DEF ManualType
    <3>. QED  BY <1>1, <1>2, <2>1, <2>4, <2>6, <2>7, <3>1, <3>2, <3>3 DEF TypeOK
  <2>9. ManualUp' /\ LogAfter' /\ Started'
    BY <1>1, <2>7 DEF ManualUp, LogAfter, Started
  <2>10. TodoDue'
    <3>1. Listed' = Listed
      BY <2>1, <2>3 DEF Listed, Current
    <3>. QED  BY <1>1, <2>1, <2>3, <2>5, <3>1 DEF TodoDue
  <2>11. ASSUME faults' = 0 PROVE StoreAhead' /\ LogAhead' /\ FileAhead' /\ Once'
    <3>1. ASSUME NEW k \in Job, Runnable(Loaded, k)
          PROVE  \A n : n = Loaded[k].next => Strict(k, n)' /\ Ahead(k, n)'
      <4>1. CASE Ahead(k, Loaded[k].next)
        BY <2>5, <4>1, CutOff DEF Strict, Ahead
      <4>2. CASE <<k, Loaded[k].next>> \in Unsaved
        BY <2>5, <4>2 DEF Strict, Ahead
      <4>. QED  BY <2>11, <3>1, <4>1, <4>2, LoadedOK
    <3>2. StoreAhead' /\ FileAhead'
      BY <2>1, <3>1 DEF StoreAhead, FileAhead, Runnable, Here
    <3>3. LogAhead'
      BY <2>7 DEF LogAhead
    <3>4. Once'
      BY <1>1, <2>5, <2>11 DEF Schedule, Once
    <3>. QED  BY <3>2, <3>3, <3>4
  <2>12. Schedule'
    BY <2>11 DEF Schedule
  <2>. QED  BY <2>8, <2>9, <2>10, <2>12 DEF CronInv
<1>. QED  BY <1>3, <1>4, <1>5 DEF Swapping

LEMMA ListKeeps ==
    ASSUME CronInv, List
    PROVE  CronInv'
BY CallBounds, Reloaded, PolledKeeps DEF List, CronInv, Reload

LEMMA RunJobKeeps ==
    ASSUME CronInv, NEW j \in Job, RunJob(j)
    PROVE  CronInv'
<1>1. manual' \in ManualType /\ manual'.job \in Job
  BY DEF RunJob, ManualType
<1>. QED  BY <1>1, CallBounds, PolledKeeps DEF RunJob

LEMMA UnwoundKeeps ==
    ASSUME CronInv, Unwound
    PROVE  CronInv'
<1>1. TypeOK /\ ManualUp
  BY DEF CronInv
<1>2. /\ leaving > 0 /\ leaving' = leaving - 1 /\ active' = FALSE
      /\ UNCHANGED <<now, file, log, up, running, store, timer, tick, manual, runs, lost,
                     edits, starts, faults>>
  BY DEF Unwound, bounds
<1>3. leaving' \in Nat /\ manual' \in ManualType /\ edits' \in 0..MaxEdits
  BY <1>1, <1>2 DEF TypeOK, ManualType
<1>. QED  BY <1>1, <1>2, <1>3, SameKeeps DEF ManualUp

\* The timer fires and lists the due jobs.
LEMMA FireKeeps ==
    ASSUME CronInv, Fire
    PROVE  CronInv'
<1> DEFINE todo == DueJobs(Loaded)
           due == [k \in Job |-> IF Due(Loaded, k) THEN Loaded[k].next ELSE 0]
<1>1. /\ timer = "sleeping" /\ running /\ Reload /\ store' = Loaded /\ file' = Saved
      /\ lost' = (IF active THEN lost \cup Unmerged ELSE lost)
      /\ timer' = "executing" /\ active' = TRUE
      /\ UNCHANGED <<now, up, running, leaving, edits, starts, faults>>
  BY DEF Fire, bounds
<1>2. PICK j \in todo :
         /\ tick' = [job |-> j, todo |-> todo \ {j}, due |-> due, live |-> TRUE]
         /\ runs' = [runs EXCEPT ![j] = Append(@, due[j])]
  BY DEF Fire, Begin
<1>3. TypeOK /\ Started /\ Schedule /\ ManualUp
  BY DEF CronInv
<1>4. ~Executing /\ Executing' /\ tick = NoTick
  BY <1>1, <1>3 DEF TypeOK, Executing
<1>5. /\ Loaded \in Jobs /\ Saved \in Jobs
      /\ faults = 0 => \A k \in Job : Runnable(Loaded, k) => Strict(k, Loaded[k].next)
  BY <1>1, <1>4, LoadedOK
<1>6. todo \in SUBSET Job /\ \A k \in todo : Due(Loaded, k)
  BY DEF DueJobs
<1>7. /\ due \in [Job -> Nat]
      /\ \A k \in todo : due[k] = Loaded[k].next /\ due[k] > 0 /\ due[k] <= now[k]
  <2>1. \A k \in Job : Due(Loaded, k) => Loaded[k].next \in Nat
    BY <1>5 DEF Due, Here, Jobs, Rec
  <2>. QED  BY <1>6, <2>1 DEF Due
<1> HIDE DEF todo, due
<1>8. lost \subseteq lost' /\ lost' \subseteq Job \X Nat
  BY <1>1, <1>3, LostTypes DEF TypeOK
<1>9. /\ tick' \in TickType /\ tick' # NoTick
      /\ runs' \in [Job -> Seq(Nat)] /\ Started'
      /\ \A k \in Job : \A n : Strict(k, n) => Ahead(k, n)'
      /\ \A k \in Job : \A n :
             (Strict(k, n) /\ (k = j => n # due[j] \/ <<j, due[j]>> \in lost')) => Strict(k, n)'
      /\ (Once /\ Strict(j, due[j])) => Once'
  BY <1>1, <1>2, <1>3, <1>6, <1>7, <1>8, BeginKeeps
<1>10. /\ tick'.job = j /\ tick'.todo = todo \ {j} /\ tick'.due = due /\ tick'.live = TRUE
  BY <1>2
<1>11. /\ log' \in {log, <<>>} /\ (~active => log' = <<>>)
       /\ manual' \in ManualType /\ (manual' = NoManual \/ (up /\ manual'.job \in Job))
  BY <1>1, <1>3, Reloaded DEF Reload
<1>12. log' \in Seq(LogEntry)
  <2>1. log \in Seq(LogEntry)
    BY <1>3 DEF TypeOK
  <2>. QED  BY <1>11, <2>1, EmptySeq
\* An entry that waits in the log is about a job whose occurrence counts as lost.
<1>13. ASSUME NEW i \in 1..Len(log'), log'[i].job \in todo
       PROVE  log' = log /\ <<log'[i].job, due[log'[i].job]>> \in lost'
  <2>1. log' = log /\ active
    <3>1. Len(<<>>) = 0
      BY EmptySeq
    <3>. QED  BY <1>11, <1>13, <3>1
  <2>2. log[i].job \in DueJobs(store) /\ due[log[i].job] = store[log[i].job].next
    BY <1>7, <1>13, <2>1 DEF todo, Loaded
  <2>3. <<log[i].job, store[log[i].job].next>> \in Unmerged
    BY <1>13, <2>1, <2>2 DEF Unmerged
  <2>. QED  BY <1>1, <2>1, <2>2, <2>3
<1>14. TypeOK'
  <2>1. tick' \in [job : Job \cup {NoJob}, todo : SUBSET Job, due : [Job -> Nat], live : BOOLEAN]
    BY <1>9 DEF TickType
  <2>2. manual' \in [job : Job \cup {NoJob}, live : BOOLEAN]
    BY <1>11 DEF ManualType
  <2>. QED  BY <1>1, <1>3, <1>4, <1>5, <1>8, <1>9, <1>12, <2>1, <2>2 DEF TypeOK
<1>15. ManualUp'
  BY <1>1, <1>11 DEF ManualUp
<1>16. TodoDue'
  BY <1>1, <1>6, <1>7, <1>10 DEF TodoDue, Due, Here
<1>17. LogAfter'
  BY <1>10, <1>13 DEF LogAfter
<1>18. ASSUME faults' = 0 PROVE StoreAhead' /\ LogAhead' /\ FileAhead' /\ Once'
  <2>1. faults = 0 /\ \A k \in Job : Runnable(Loaded, k) => Strict(k, Loaded[k].next)
    BY <1>1, <1>5, <1>18
  <2>2. StoreAhead'
    <3>1. ASSUME NEW k \in Job, Runnable(Loaded, k)
          PROVE  \A n : n = Loaded[k].next => Ahead(k, n)'
      BY <1>9, <2>1, <3>1
    <3>. QED  BY <1>1, <3>1 DEF StoreAhead, Runnable, Here
  <2>3. LogAhead'
    <3>1. ASSUME NEW i \in 1..Len(log'), log'[i].rec # NoRec
          PROVE  \A k, n : k = log'[i].job /\ n = log'[i].rec.next => Strict(k, n)'
      <4>1. log' = log
        <5>1. Len(<<>>) = 0
          BY EmptySeq
        <5>. QED  BY <1>11, <3>1, <5>1
      <4>2. log[i].job \in Job /\ Strict(log[i].job, log[i].rec.next)
        BY <1>3, <2>1, <3>1, <4>1, LogJobs DEF Schedule, LogAhead
      <4>3. log[i].job = j => <<j, due[j]>> \in lost'
        BY <1>13, <3>1, <4>1
      <4>. QED  BY <1>9, <4>1, <4>2, <4>3
    <3>. QED  BY <3>1 DEF LogAhead
  <2>4. FileAhead'
    BY <1>10 DEF FileAhead
  <2>5. Once'
    <3>1. Runnable(Loaded, j) /\ j \in Job
      BY <1>6 DEF Due, Runnable
    <3>2. Strict(j, due[j])
      BY <1>7, <2>1, <3>1
    <3>. QED  BY <1>3, <1>9, <2>1, <3>2 DEF Schedule
  <2>. QED  BY <2>2, <2>3, <2>4, <2>5
<1>19. Schedule'
  BY <1>18 DEF Schedule
<1>. QED  BY <1>9, <1>14, <1>15, <1>16, <1>17, <1>19 DEF CronInv

LEMMA NextJobKeeps ==
    ASSUME CronInv, NextJob
    PROVE  CronInv'
<1> DEFINE jobs == AfterJob(tick.job, tick.live)
           todo == tick.todo
           due == tick.due
<1>1. /\ Executing /\ store' = jobs
      /\ UNCHANGED <<now, file, log, up, running, timer, active, leaving, manual, lost,
                     edits, starts, faults>>
  BY DEF NextJob, bounds
<1>2. PICK j \in todo :
         /\ tick' = [job |-> j, todo |-> todo \ {j}, due |-> due, live |-> tick.live]
         /\ runs' = [runs EXCEPT ![j] = Append(@, due[j])]
  BY DEF NextJob, Begin
<1>3. TypeOK /\ Started /\ Schedule /\ ManualUp /\ TodoDue
  BY DEF CronInv
<1>4. /\ tick.job \in Job \ todo /\ todo \in SUBSET Job /\ due \in [Job -> Nat]
      /\ tick.live \in BOOLEAN /\ Executing'
      /\ \A k \in todo : due[k] > 0 /\ due[k] <= now[k]
      /\ tick.live => \A k \in todo : Due(store, k) /\ store[k].next = due[k]
      /\ ~tick.live => \A k \in todo : <<k, due[k]>> \in lost
  <2>1. \A k \in todo : <<k, due[k]>> \in Listed
    BY DEF Listed
  <2>. QED  BY <1>1, <1>3, <2>1 DEF TodoDue, TypeOK, Executing
<1>5. /\ jobs \in Jobs /\ \A k \in Job \ {tick.job} : jobs[k] = store[k]
      /\ faults = 0 => \A k \in Job : Runnable(jobs, k) => Strict(k, jobs[k].next)
  BY <1>1, <1>4, AfterJobOK
<1> HIDE DEF jobs, todo, due
<1>6. /\ tick' \in TickType /\ tick' # NoTick
      /\ runs' \in [Job -> Seq(Nat)] /\ Started'
      /\ \A k \in Job : \A n : Strict(k, n) => Ahead(k, n)'
      /\ \A k \in Job : \A n :
             (Strict(k, n) /\ (k = j => n # due[j] \/ <<j, due[j]>> \in lost')) => Strict(k, n)'
      /\ (Once /\ Strict(j, due[j])) => Once'
  BY <1>1, <1>2, <1>3, <1>4, BeginKeeps
<1>7. tick'.job = j /\ tick'.todo = todo \ {j} /\ tick'.due = due /\ tick'.live = tick.live
  BY <1>2
<1>8. TypeOK'
  <2>1. tick' \in [job : Job \cup {NoJob}, todo : SUBSET Job, due : [Job -> Nat], live : BOOLEAN]
    BY <1>6 DEF TickType
  <2>. QED  BY <1>1, <1>3, <1>4, <1>5, <1>6, <2>1 DEF TypeOK
<1>9. ManualUp'
  BY <1>1, <1>3 DEF ManualUp
<1>10. TodoDue'
  <2>1. tick.live => \A k \in todo : Due(store, k)' /\ store'[k].next = due[k]
    BY <1>1, <1>4, <1>5 DEF Due, Here
  <2>2. ~tick.live => Listed' \subseteq lost'
    BY <1>1, <1>4, <1>7 DEF Listed, Current
  <2>. QED  BY <1>1, <1>4, <1>7, <2>1, <2>2 DEF TodoDue
<1>11. LogAfter'
  BY <1>1, <1>7 DEF CronInv, LogAfter, todo, due
<1>12. ASSUME faults' = 0 PROVE StoreAhead' /\ LogAhead' /\ FileAhead' /\ Once'
  <2>1. faults = 0 /\ \A k \in Job : Runnable(jobs, k) => Strict(k, jobs[k].next)
    BY <1>1, <1>5, <1>12
  <2>2. StoreAhead'
    <3>1. ASSUME NEW k \in Job, Runnable(jobs, k)
          PROVE  \A n : n = jobs[k].next => Ahead(k, n)'
      BY <1>6, <2>1, <3>1
    <3>. QED  BY <1>1, <3>1 DEF StoreAhead, Runnable, Here
  <2>3. LogAhead'
    <3>1. ASSUME NEW i \in 1..Len(log), log[i].rec # NoRec
          PROVE  \A k, n : k = log[i].job /\ n = log[i].rec.next => Strict(k, n)'
      <4>1. log[i].job \in Job /\ Strict(log[i].job, log[i].rec.next)
        BY <1>3, <2>1, <3>1, LogJobs DEF Schedule, LogAhead
      <4>2. log[i].job = j => log[i].rec.next # due[j] \/ <<j, due[j]>> \in lost'
        BY <1>1, <3>1 DEF CronInv, LogAfter, todo, due
      <4>. QED  BY <1>6, <4>1, <4>2
    <3>. QED  BY <1>1, <3>1 DEF LogAhead
  <2>4. FileAhead'
    <3>1. ASSUME running, ~tick.live, NEW k \in Job, Runnable(file, k)
          PROVE  \A n : n = file[k].next => Strict(k, n)'
      <4>1. Strict(k, file[k].next)
        BY <1>3, <2>1, <3>1 DEF Schedule, FileAhead
      <4>. QED  BY <1>1, <1>4, <1>6, <3>1, <4>1
    <3>. QED  BY <1>1, <1>7, <3>1 DEF FileAhead, Runnable, Here
  <2>5. Once'
    <3>1. CASE tick.live
      <4>1. j \in Job /\ jobs[j] = store[j] /\ Due(store, j) /\ store[j].next = due[j]
        BY <1>4, <1>5, <3>1
      <4>2. Strict(j, due[j])
        BY <2>1, <4>1 DEF Due, Runnable, Here
      <4>. QED  BY <1>3, <1>6, <2>1, <4>2 DEF Schedule
    <3>2. CASE ~tick.live
      <4>1. Strict(j, due[j])
        BY <1>4, <3>2 DEF Strict
      <4>. QED  BY <1>3, <1>6, <2>1, <4>1 DEF Schedule
    <3>. QED  BY <3>1, <3>2
  <2>. QED  BY <2>2, <2>3, <2>4, <2>5
<1>13. Schedule'
  BY <1>12 DEF Schedule
<1>. QED  BY <1>6, <1>8, <1>9, <1>10, <1>11, <1>13 DEF CronInv

LEMMA ElsewhereKeeps ==
    ASSUME CronInv, NEW j \in Job, Elsewhere(j)
    PROVE  CronInv'
<1>1. PICK rec \in {NoRec, Fresh(j), Disabled} : log' = Append(log, [job |-> j, rec |-> rec])
  BY DEF Elsewhere
<1>2. /\ edits + faults < MaxEdits /\ edits' = edits + 1
      /\ UNCHANGED <<now, up, file, running, store, timer, active, leaving, tick, manual, runs,
                     lost, starts, faults>>
  BY DEF Elsewhere, Edit, timing
<1>3. TypeOK /\ Started /\ TodoDue /\ Schedule /\ (Executing' <=> Executing)
  BY <1>2 DEF CronInv, Executing
<1>4. now[j] \in Nat /\ edits' \in 0..MaxEdits
  BY <1>2, <1>3, CronAssumption DEF TypeOK
<1>5. New(rec, j)
  BY <1>4, FreshIsNew
<1> DEFINE entry == [job |-> j, rec |-> rec]
<1>6. entry \in LogEntry /\ entry.job = j /\ entry.rec = rec
  BY <1>5 DEF LogEntry, New
<1> HIDE DEF entry
<1>7. /\ log' \in Seq(LogEntry) /\ Len(log') = Len(log) + 1 /\ Len(log) \in Nat
      /\ log'[Len(log) + 1] = entry
      /\ \A i \in 1..Len(log) : log'[i] = log[i]
  <2>1. log \in Seq(LogEntry) /\ log' = Append(log, entry)
    BY <1>1, <1>3 DEF TypeOK, entry
  <2>. QED  BY <1>6, <2>1, AppendProperties, LenProperties
<1>8. ASSUME NEW i \in 1..Len(log')
      PROVE  i \in 1..Len(log) \/ i = Len(log) + 1
  BY <1>7
<1>9. TypeOK'
  <2>1. /\ now' \in [Job -> 0..MaxSlots] /\ file' \in Jobs /\ store' \in Jobs
        /\ runs' \in [Job -> Seq(Nat)] /\ lost' \subseteq Job \X Nat
        /\ tick' \in TickType /\ manual' \in ManualType
    BY <1>2, <1>3 DEF TypeOK, TickType, ManualType
  <2>2. /\ up' \in BOOLEAN /\ running' \in BOOLEAN /\ (running' => up')
        /\ timer' \in {"off", "sleeping", "executing"} /\ (timer' # "off" => running')
        /\ active' \in BOOLEAN /\ leaving' \in Nat
        /\ (Executing' <=> tick' # NoTick) /\ (active' => Executing' \/ leaving' > 0)
        /\ starts' \in 0..MaxStarts /\ faults' \in 0..MaxFaults
    BY <1>2, <1>3 DEF TypeOK
  <2>. QED  BY <1>4, <1>7, <2>1, <2>2, Zenon DEF TypeOK, TickType, ManualType
<1>10. ManualUp' /\ TodoDue' /\ Started'
  BY <1>2, <1>3 DEF CronInv, ManualUp, TodoDue, Listed, Current, Started, Due, Here
<1>11. LogAfter'
  <2>1. ASSUME NEW i \in 1..Len(log'), Executing, log'[i].job \in tick.todo,
               log'[i].rec # NoRec
        PROVE  \/ log'[i].rec.next # tick.due[log'[i].job]
               \/ <<log'[i].job, tick.due[log'[i].job]>> \in lost
    <3>1. CASE i \in 1..Len(log)
      BY <1>7, <2>1, <3>1 DEF CronInv, LogAfter
    <3>2. CASE i = Len(log) + 1
      <4>1. j \in tick.todo /\ rec # NoRec /\ log'[i] = entry
        BY <1>6, <1>7, <2>1, <3>2
      <4>2. tick.due[j] \in Nat /\ tick.due[j] > 0 /\ tick.due[j] <= now[j]
        BY <1>3, <2>1, <4>1 DEF TodoDue, TypeOK
      <4>3. tick.due[j] # rec.next
        BY <1>4, <1>5, <4>1, <4>2 DEF New
      <4>. QED  BY <1>6, <4>1, <4>3
    <3>. QED  BY <1>8, <3>1, <3>2
  <2>. QED  BY <1>2, <1>3, <2>1 DEF LogAfter
<1>12. ASSUME faults' = 0 PROVE StoreAhead' /\ LogAhead' /\ FileAhead' /\ Once'
  <2>1. faults = 0 /\ StoreAhead /\ LogAhead /\ FileAhead /\ Once
    BY <1>2, <1>3, <1>12 DEF Schedule
  <2>2. \A k : \A n : (Strict(k, n)' <=> Strict(k, n)) /\ (Ahead(k, n)' <=> Ahead(k, n))
    BY <1>2 DEF Strict, Ahead
  <2>3. StoreAhead' /\ FileAhead' /\ Once'
    BY <1>2, <2>1, <2>2 DEF StoreAhead, FileAhead, Once, Runnable, Here
  <2>4. ASSUME NEW i \in 1..Len(log'), log'[i].rec # NoRec
        PROVE  Strict(log'[i].job, log'[i].rec.next)
    <3>1. CASE i \in 1..Len(log)
      BY <1>7, <2>1, <2>4, <3>1 DEF LogAhead
    <3>2. CASE i = Len(log) + 1
      BY <1>3, <1>5, <1>6, <1>7, <2>4, <3>2, NewIsAhead
    <3>. QED  BY <1>8, <3>1, <3>2
  <2>5. LogAhead'
    BY <1>2, <2>4 DEF LogAhead, Strict
  <2>. QED  BY <2>3, <2>5
<1>13. Schedule'
  BY <1>12 DEF Schedule
<1>. QED  BY <1>9, <1>10, <1>11, <1>13 DEF CronInv

LEMMA ElapseKeeps ==
    ASSUME CronInv, NEW j \in Job, Elapse(j)
    PROVE  CronInv'
<1>1. /\ now[j] < MaxSlots /\ now' = [now EXCEPT ![j] = @ + 1]
      /\ UNCHANGED <<file, log, up, running, store, timer, active, leaving, tick, manual, runs,
                     lost, edits, starts, faults>>
  BY DEF Elapse, timing, bounds
<1>2. TypeOK /\ TodoDue /\ Started /\ Schedule /\ (Executing' <=> Executing)
  BY <1>1 DEF CronInv, Executing
<1>3. now' \in [Job -> 0..MaxSlots] /\ \A k \in Job : now[k] \in Nat /\ now[k] <= now'[k]
  <2>1. now \in [Job -> 0..MaxSlots] /\ MaxSlots \in Nat
    BY <1>2, CronAssumption DEF TypeOK
  <2>. QED  BY <1>1, <2>1
<1>4. TypeOK'
  <2>1. /\ file' \in Jobs /\ store' \in Jobs /\ log' \in Seq(LogEntry)
        /\ runs' \in [Job -> Seq(Nat)] /\ lost' \subseteq Job \X Nat
        /\ tick' \in TickType /\ manual' \in ManualType
    BY <1>1, <1>2 DEF TypeOK, TickType, ManualType
  <2>2. /\ up' \in BOOLEAN /\ running' \in BOOLEAN /\ (running' => up')
        /\ timer' \in {"off", "sleeping", "executing"} /\ (timer' # "off" => running')
        /\ active' \in BOOLEAN /\ leaving' \in Nat
        /\ (Executing' <=> tick' # NoTick) /\ (active' => Executing' \/ leaving' > 0)
        /\ edits' \in 0..MaxEdits /\ starts' \in 0..MaxStarts /\ faults' \in 0..MaxFaults
    BY <1>1, <1>2 DEF TypeOK
  <2>. QED  BY <1>3, <2>1, <2>2, Zenon DEF TypeOK, TickType, ManualType
<1>5. ManualUp' /\ LogAfter'
  BY <1>1, <1>2 DEF CronInv, ManualUp, LogAfter
<1>6. TodoDue'
  <2>1. \A k \in Job : Due(store, k) => Due(store, k)'
    <3>1. \A k \in Job : Here(store, k) => store[k].next \in Nat
      BY <1>2 DEF TypeOK, Jobs, Rec, Here
    <3>. QED  BY <1>1, <1>3, <3>1 DEF Due, Here
  <2>2. tick.todo \subseteq Job /\ \A k \in Job : tick.due[k] \in Nat
    BY <1>2 DEF TypeOK
  <2>3. Executing => \A k \in tick.todo : tick.due[k] <= now'[k]
    <3>1. ASSUME Executing, NEW k \in tick.todo PROVE tick.due[k] <= now'[k]
      <4>1. k \in Job /\ tick.due[k] \in Nat /\ tick.due[k] <= now[k]
        BY <1>2, <2>2, <3>1 DEF TodoDue
      <4>2. now[k] \in Nat /\ now'[k] \in Nat /\ now[k] <= now'[k]
        BY <1>3, <4>1
      <4>. QED  BY <4>1, <4>2
    <3>. QED  BY <3>1
  <2>. QED  BY <1>1, <1>2, <2>1, <2>2, <2>3 DEF TodoDue, Listed, Current
<1>7. Started'
  <2>1. \A k \in Job : \A a \in 1..Len(runs[k]) : runs[k][a] \in Nat
    BY <1>2, ElementOfSeq DEF TypeOK
  <2>2. ASSUME NEW k \in Job, NEW a \in 1..Len(runs[k]) PROVE runs[k][a] <= now'[k]
    <3>1. runs[k][a] \in Nat /\ runs[k][a] <= now[k]
      BY <1>2, <2>1 DEF Started
    <3>2. now[k] \in Nat /\ now'[k] \in Nat /\ now[k] <= now'[k]
      BY <1>3
    <3>. QED  BY <3>1, <3>2
  <2>. QED  BY <1>1, <2>2 DEF Started
<1>8. Schedule'
  BY <1>1, <1>2 DEF Schedule, StoreAhead, LogAhead, FileAhead, Once, Runnable, Here, Ahead, Strict
<1>. QED  BY <1>4, <1>5, <1>6, <1>7, <1>8 DEF CronInv

LEMMA CronInitially ==
    ASSUME Init
    PROVE  CronInv
<1>1. /\ up = FALSE /\ running = FALSE /\ timer = "off" /\ tick = NoTick /\ manual = NoManual
      /\ active = FALSE /\ leaving = 0 /\ log = <<>> /\ faults = 0
      /\ store = [j \in Job |-> NoRec] /\ lost = {} /\ edits = 0 /\ starts = 0
      /\ \A j \in Job : runs[j] = <<>>
  BY DEF Init
<1>2. Len(<<>>) = 0 /\ ~Executing
  BY <1>1, EmptySeq DEF Executing
<1>3. TypeOK
  <2>1. /\ tick \in [job : Job \cup {NoJob}, todo : SUBSET Job, due : [Job -> Nat], live : BOOLEAN]
        /\ manual \in [job : Job \cup {NoJob}, live : BOOLEAN]
    BY <1>1, NoTickType DEF TickType, ManualType
  <2>2. file \in Jobs /\ store \in Jobs
    BY DEF Init, Jobs, Rec
  <2>3. runs \in [Job -> Seq(Nat)] /\ log \in Seq(LogEntry)
    BY EmptySeq DEF Init
  <2>4. /\ now \in [Job -> 0..MaxSlots]
        /\ edits \in 0..MaxEdits /\ starts \in 0..MaxStarts /\ faults \in 0..MaxFaults
    BY CronAssumption DEF Init
  <2>. QED  BY <1>1, <1>2, <2>1, <2>2, <2>3, <2>4 DEF TypeOK
<1>4. ManualUp /\ TodoDue /\ LogAfter /\ Started
  BY <1>1, <1>2 DEF ManualUp, TodoDue, LogAfter, Started
<1>5. StoreAhead /\ LogAhead /\ FileAhead /\ Once
  BY <1>1, <1>2 DEF StoreAhead, LogAhead, FileAhead, Once, Runnable, Here
<1>. QED  BY <1>3, <1>4, <1>5 DEF CronInv, Schedule

LEMMA CronStep ==
    ASSUME CronInv, [Next]_vars
    PROVE  CronInv'
<1>1. ASSUME NEW j \in Job, Elapse(j) PROVE CronInv'
  BY <1>1, ElapseKeeps
<1>2. CASE Start \/ Stop \/ Exit
  BY <1>2, ProcessKeeps
<1>3. CASE TimerStep \/ TickFails \/ Unwound
  BY <1>3, FireKeeps, NextJobKeeps, TickOverKeeps, UnwoundKeeps DEF TimerStep
<1>4. CASE List \/ RunJobEnds \/ RunJobCancelled
  BY <1>4, ListKeeps, RunJobOverKeeps
<1>5. ASSUME NEW j \in Job,
             \/ Add(j) \/ Remove(j) \/ Update(j) \/ RunJob(j) \/ RunJobRefused(j)
             \/ Elsewhere(j) \/ \E on \in BOOLEAN : Enable(j, on)
      PROVE  CronInv'
  BY <1>5, CallKeeps, RunJobKeeps, RefusedKeeps, ElsewhereKeeps
<1>6. CASE UNCHANGED vars
  <2>1. /\ UNCHANGED <<now, file, log, up, running, store, timer, tick, runs, lost,
                       starts, faults>>
        /\ UNCHANGED <<manual, active, leaving, edits>>
    BY <1>6 DEF vars, timing, bounds
  <2>2. TypeOK /\ ManualUp
    BY DEF CronInv
  <2>3. /\ manual' \in ManualType /\ active' \in BOOLEAN /\ leaving' \in Nat
        /\ (active' => Executing \/ leaving' > 0) /\ edits' \in 0..MaxEdits
        /\ manual' = NoManual \/ (up /\ manual'.job \in Job)
    BY <2>1, <2>2 DEF TypeOK, ManualType, ManualUp
  <2>. QED  BY <2>1, <2>3, SameKeeps
<1>. QED  BY <1>1, <1>2, <1>3, <1>4, <1>5, <1>6 DEF Next

LEMMA CronAlways == Spec => []CronInv
<1>1. Init => CronInv
  BY CronInitially
<1>2. CronInv /\ [Next]_vars => CronInv'
  BY CronStep
<1>. QED  BY <1>1, <1>2, PTL DEF Spec

-----------------------------------------------------------------------------
(* What the cron service promises.                                         *)

\* A timer task only exists while the service runs, it executes a job exactly
\* when it holds one, and the flag is set only while it does or while a
\* cancelled one still unwinds.
THEOREM CronTypes == Spec => []TypeOK
<1>1. CronInv => TypeOK
  BY DEF CronInv
<1>. QED  BY <1>1, CronAlways, PTL

\* Through reloads, merges of action.jsonl, manual runs, stops and crashes, the
\* timer starts an occurrence once, until a save has failed.  The occurrences
\* in `lost` are excepted: those the timer task was cancelled in the middle of,
\* those of a tick that a refused or cancelled run_job threw away, those of a
\* tick of which the flag was reset by an earlier one and the store replaced,
\* and those that such a flag kept a change of another process from.
THEOREM OccurrencesRunOnce == Spec => []OncePerOccurrence
<1>1. CronInv => OncePerOccurrence
  <2>1. CronInv => faults \in Nat
    BY CronAssumption DEF CronInv, TypeOK
  <2>. QED  BY <2>1 DEF CronInv, Schedule, Once, OncePerOccurrence
<1>. QED  BY <1>1, CronAlways, PTL

\* A job later in the list of a tick is still enabled and due in the store when
\* its turn comes: whatever changes it cancels the tick, or, after an earlier
\* tick has reset its flag, has replaced the store the tick works on, which is
\* the exception.
THEOREM OnlyDueJobsStart == Spec => StartsAreDue
<1>1. CronInv /\ [Next]_vars =>
          [\A j \in Job : (runs'[j] # runs[j] /\ tick'.live) => Due(store', j)]_vars
  <2>. SUFFICES ASSUME CronInv, [Next]_vars, NEW j \in Job, runs'[j] # runs[j], tick'.live
                PROVE  Due(store', j)
    OBVIOUS
  <2>1. runs \in [Job -> Seq(Nat)]
    BY DEF CronInv, TypeOK
  <2>2. CASE Fire
    <3>1. store' = Loaded
      BY <2>2 DEF Fire
    <3>2. j \in DueJobs(Loaded)
      BY <2>1, <2>2 DEF Fire, Begin
    <3>. QED  BY <3>1, <3>2 DEF DueJobs
  <2>3. CASE NextJob
    <3>1. j \in tick.todo /\ Executing /\ store' = AfterJob(tick.job, tick.live) /\ tick.live
      BY <2>1, <2>3 DEF NextJob, Begin
    <3>2. tick.job \in Job /\ j # tick.job /\ Due(store, j)
      BY <3>1 DEF CronInv, TodoDue
    <3>3. \A k \in Job \ {tick.job} : AfterJob(tick.job, tick.live)[k] = store[k]
      <4>1. tick.live \in BOOLEAN
        BY DEF CronInv, TypeOK
      <4>. QED  BY <3>2, <4>1, AfterJobOK
    <3>4. store'[j] = store[j]
      BY <3>1, <3>2, <3>3
    <3>. QED  BY <3>2, <3>4 DEF Due, Here
  <2>4. CASE ~Fire /\ ~NextJob
    <3>1. runs' = runs
      BY <2>4 DEF Next, TimerStep, Elapse, Start, Stop, Exit, FireIdle, TickEnds, TickFails,
                  Unwound, List, RunJobEnds, RunJobCancelled, Add, Remove, Update, RunJob,
                  RunJobRefused, Elsewhere, Enable, Call, vars
    <3>. QED  BY <3>1
  <2>. QED  BY <2>2, <2>3, <2>4
<1>. QED  BY <1>1, CronAlways, PTL DEF Spec, StartsAreDue
=============================================================================
