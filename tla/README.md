# Formal models of slurm-workflows

TLA+ models of the slurm-workflows library, TLC configurations that check them on
small instances, and TLAPS proofs about them for every instance.
The models are translated from the code in `src/src/slurm_workflows`;
`PROJECT.json` maps each definition to the lines it stands for.
Below, *executor* is `slurm_pilot_executor.py`, *worker* is `slurm_pilot_worker.py`.

## The system

A driver program holds a `SlurmPilotExecutor`. It submits *pilot jobs* to Slurm;
each runs a worker script for each of its Slurm tasks; each script runs one
`PilotWorker` process after another. Driver and workers never talk to each other:
both are clients of a ds-service server, which holds the task queues, maps,
counters and time series. `swtop` watches the same server.

| Component | State | Operations | Talks to |
|---|---|---|---|
| executor: pilot jobs | `group.jobs`, `next_job_index` | `define_job_group`, `scale_jobs`, `stop`, `close` | Slurm by `sbatch`, `squeue`, `scancel`; server map |
| executor: restart | locals of `_wait_for_restart` | `restart_jobs` | server counter, `worker_info:`, `worker_exit:`; `squeue` |
| executor: waits | task handles, locals of `_as_completed`, `_Progress` | `submit`, `wait`, `as_completed` | server queue and time series; `squeue` |
| executor: map | locals | `map`, `map_reduce` | server queue; the waits |
| worker | generation, rate limit, actor, monitors | constructor, `main`, `close` | server |
| batch and worker script | traps, exit status | start, restart loop, exit | Slurm, worker |
| `slurm_utils` | none | the three Slurm commands | Slurm |
| `monitors` | election counter, threads, last samples | start, sample, stop | worker, server, NVML, cgroup files |
| `swtop` collector | four caches, `_progress_seen` | `snapshot` | server |
| `swtop` widgets and poller | poll in flight, last snapshot, rows, filter | `poll_now`, `_tick`, `attach`, `sync_table`, clicks | collector |
| templates | none | parse, render, quote | files |

### Where it is hard, and what makes it correct

* **Restart.** `restart_jobs` promises that after it returns every task runs on a
  new worker. Nothing links the parties but a counter and two key families, each
  read and written by requests of its own, while workers start, crash, fail to
  read, fail to publish, and Slurm answers late or not at all.
  *Correct:* no old worker serves after the wait; the code and the actor
  arguments a serving worker loaded are as new as the request; a generation is
  never newer than the code; one restart for one request; the wait ends.
* **Waits.** A poll, two checks of the queues and a policy act on states read at
  different moments. *Correct:* each task meets one fate; outputs come home and
  say what happened; the policy is kept; the progress shown ends at what was given;
  what the periodic check gives up never finishes; no call waits for ever.
* **Map.** Items and map tasks race; a claim is not idempotent; a failure may fall
  on either side of a report. *Correct:* a result holds every item exactly once,
  or the call raises, and with the error of the task that failed.
* **Pilot jobs.** Each Slurm command can fail, or work and not say so.
  *Correct:* no job leaks; names are never reused; a job's exit comes after its
  workers'.
* **Monitors.** Workers of a node elect one of them by a counter whose key holds
  the restart generation; its threads may hang in a request, and die with it.
  *Correct:* the node is monitored unless the elected worker is lost, and again
  after a restart, by one worker of a generation; a GPU with readings has its
  identity on the server. A rate is taken from two sums, which may fall.
* **swtop.** A snapshot is many requests to a server that goes on, over caches
  that outlive a failed poll. *Correct:* its rows were there, and what was there is
  in it; a running task shows its worker's name; a progress bar never goes back.
  The table is drawn by a coroutine among ticks, clicks and messages. *Correct:* it
  shows the last good snapshot, rows keep their place, no older reading replaces a
  newer one, and a call for a fresh read is answered.

`PROJECT.json` lists these hazards line by line, with the property that covers each.

## Modules

| Module | Models | Composition |
|---|---|---|
| `Restart` | worker, worker script, server keys, Slurm and `_wait_for_restart` together | extended by `MCRestart`, `RestartProofs` |
| `TaskWait` | `_as_completed`, `_counted`, both checks, the task queue and jobs around them | extends `Filter`, instantiates `WaitPromise`; extended by `MCTaskWait`, `TaskWaitProofs` |
| `WaitPromise` | what `wait` and `as_completed` promise their caller | the abstract specification |
| `PilotJobs` | `scale_jobs`, `stop`, `close`, the batch script, the Slurm commands | extended by `MCPilotJobs`, `PilotJobsProofs` |
| `MapCall` | one `map` or `map_reduce`, its tasks and workers | instantiates `MapPromise`; extended by `MapCallProofs` |
| `MapPromise` | what a map call promises: a result with every item once, or an exception | the abstract specification |
| `Monitors` | the election on a node, the monitor threads, `close()`, with the worker's restarts | extended by `MCMonitors`, `MonitorsProofs` |
| `JobCpu` | the CPU rate of `CgroupSampler` | extended by `MCJobCpu` |
| `Collector` | `Collector.snapshot`, request by request, and the run it watches | extended by `MCCollector`, `CollectorProofs` |
| `View` | `SnapshotPoller`, `BlockTable`, `TaskTable`, `sync_table`, the filter, the tab label | extends `Filter`; extended by `ViewProofs` |
| `Filter` | the list comprehension with a condition | extended by `TaskWait`, `View`, `FilterProofs` |
| `FilterProofs` | what such a list holds, in which order, and how often | extended by `TaskWaitProofs`, `ViewProofs` |
| `RestartProofs`, `MapCallProofs`, `PilotJobsProofs`, `TaskWaitProofs`, `MonitorsProofs`, `CollectorProofs`, `ViewProofs` | proofs about the module each is named for | |

An operator whose comment begins with "Mutant" is a plausible bug in the operator
after it. No specification uses it; TLC finds a property violated when it takes
that operator's place.

### Restart

A *slot* is one run of the worker script and `inc[s]` counts its processes, so
`<<s, inc[s]>>` is the worker id. `worker[s].pc` follows `PilotWorker`: the
constructor reads the counter (`ReadGeneration`), publishes (`PublishIdentity`),
imports the code and reads two keys (`BuildActor`, three steps); `main` checks
(`SkipRead`, `ReadCounter`, `ReadFails`), claims, runs and reports. A worker on its
way out publishes its exit, or fails to (`PublishExit`), and lives on until it closed
its client and its actor (`Close`): a process may outlive its exit key, and the wait
may return before it ended. `NoOldWorkerServes` says what matters of that, that it
claims and runs nothing any more. `HandlerFails` is an exception of the task whose
handler raises too: nothing is reported, and none of the sleeps of a report pass. `skip` says that the rate limit of
`_restart_requested` may answer the next check; `Report` clears it as
`task_finished` does. The driver's `phase` follows one pass of the loop of
`_wait_for_restart`: `scan` reads the keys, `exits` looks each old worker up,
then `squeue` if it is due, then `decide`. `seen` is the union of `old`, `new` and
`done`: the loop reads each key once.
Two variables record promises, and no step reads them: `promised[j]` is the last
generation a returned wait covered for job `j`, `written[g]` what was on disk when
the counter reached `g`.

Assumed: a worker id is never reused inside a job (the code puts the process id in
it; with a reused one the wait would take the exit of the predecessor for that of a
worker that is alive and old, which no property covers), and a task that raises `SystemExit` does not use `RESTART_EXIT_CODE`.
`ReportOutlastsCheckInterval` compares the module's constants with each other, as
the code's three constants happen to.

### TaskWait

`server` is the queue's state of each task; `dependency` is a failure with the
`DEPENDENCY_FAILED_PREFIX` output. A claimed task has a `runner` until it ends or
is lost. `phase` follows `_as_completed`: `start` (the first check), `cached`
(handles that have an output), `poll`, `round` (one task at a time), `check` and
`squeue` (the two requests of the periodic check), `end`. `held` is TRUE while the
generator of `as_completed` waits for its caller, who may submit, scale, or leave.
`Drop`, `Deliver` and `Leave` are `drop`, the yield through `_counted`, and its
`finally`. Both requests of `_counted` may fail: a task whose count does not go out
(`CountFails`) is counted and never given to the caller. `sent` is the last value of the
progress series that arrived; `Yield` may keep a value back, which stands for the
interval of `_Progress.record`. One call runs at a time.
`tracked` holds the queues with a job in `group.jobs`, `running` those with a job in
`squeue`; a forgotten job that still runs keeps its queue out of the first and in the
second. `LiveQueues` needs both, as `_live_queues` does, so the code counts the queue of
a forgotten job as dead; `Hopeless`, which the properties use, needs `squeue` to list none.
`Above` is the walk up from a task over `_parents`, stated as the least set that is
closed under it, so that proofs can use it: what the code's stack finds.
`WaitPromise` sees the list, the policy, what was given and given up, the count,
the count it showed last, and how the call ended; the server, the workers, the jobs
and the loop are gone from it.

### PilotJobs

A job is `<<group, index>>`, the two parts of its name. `Sbatch` has three
outcomes: accepted, accepted and unanswered, rejected. `CancelJobs` and `CancelAll`
likewise. `script` follows the batch script around `srun`, and bash runs a trap
only when its foreground command ended. A canceled job is `ending` until it
leaves `squeue`. A batch worker is the case of one worker.

### MapCall

A fold is the number of times it holds each item, which is all `MapPromise` needs.
`task[0]` is the reduce task. What the waits do is in `TaskWait`; here they take
the outputs of finished tasks and raise for the first failed one. A lost worker
leaves its task and its item Running for ever, as in the code.

### Monitors

One pilot job on one node; the key of the election (`host_monitor:<host>:<job>:<generation>`)
holds both, so other nodes and jobs have elections of their own. A slot is one run
of the worker script, as in `Restart`, of which the restart protocol keeps only the
generation. `worker[s].pc`: `boot` and `elect` are the constructor up to the
monitors, `serve` the rest of it and `main`, `stop`, `join` and `close` are
`close()` or the constructor's handler, which does the same; `again` ended with
`RESTART_EXIT_CODE`, `gone` for good. `Elect` is `_start_monitors`: one increment,
and the worker that sees 1 starts the monitors. `ElectFails` is a request that
failed before the server counted it or after: its worker may have won without
knowing. A thread is `reading` (inside `append_sample`) or `waiting` (in
`_stopping.wait`). `Join` returns when the thread ended or ten seconds later, so it
has no guard, and a thread may go on after it, until its process ends.
`OneMonitorPerGeneration` speaks of all the threads there are, those included. The
server does not restart here. If it did, the memory of `GpuMonitor` (`_published`,
`monitors.py` lines 451 to 456) would outlive the key it stands for: a monitor that goes
on against an empty server appends readings and does not write the key again.
`lost` records the generations whose elected worker ended, and not to
restart; no step reads it.

### JobCpu

A job's processes use CPU and end; `charged` is what the kernel's counter of the
cgroup says, `spent` what each process says while it lives. `Sample` takes a
reading from one of three sources, as `CgroupSampler` does, and turns two of them
into a rate clamped at 0.

### Collector

`server` counts how often each key was written, so a cached value is the write it
was read from. `poll.got` holds what became of each request of a poll: `sent`,
`absent`, `found` (a search found the key and it is to be read), `known`. A request
and what the collector does with its answer are one step; the guards are the
`await`s and `gather`s that order them. A request that raises ends the poll and the
caches keep what was read. `began` and `shown` record the server when the poll began and
the progress of the last good snapshot; no step of the program reads them. There is one pilot job, one worker and
one task: two of a kind share nothing but the searches.

### View

All of it runs on one event loop; a step is what happens between two awaits or
messages. `polls` holds the polls in flight, which should be one at most: a set,
so that a bug could make it two. `Collect` is the collector's answer and `Deliver`
the rest of the poll up to the next `await`. A click posts `Changed`, handled later
(`HandleChanged`); a change of the row count posts `CountChanged` to the pane.
`SyncTable` is `sync_table` on sequences: rows that go, rows that stay, rows that are new.
`Mount` is the whole of `on_mount`, whose await of `open_collector` it leaves out
(`swtop_widgets.py` lines 473 to 475). A `poll_now` during that await would fail the
assertion at line 529, which is outside the `try` of `_poll`, and leave `_polling` set;
so nobody asks before `Mount`.
`Listing` is the collector's `sorted` by state, then by name. A task is absent, open or ended, two of
the filter's boxes. `owed` records the calls of `poll_now` that no poll has
answered; no step reads it.

## Runs

| Run | Instance | Distinct states | Shows |
|---|---|---|---|
| `restart` | 1 slot, 1 request, 3 processes, 1 edit and 1 redefinition | 121,216 | the promise of `restart_jobs`, for generations and for code; one restart a request; at most one late claim; the wait ends |
| `wait` | parent and child on two queues, lists with a repeated task and with a child alone, 3 policies, 2 calls | 244,812 | the fates, outputs and policies of the waits; what the checks give up; the refinement of `WaitPromise`, with the progress shown; a call ends |
| `jobs` | 1 group, 2 jobs, 2 workers each | 382,932 | leaks, names, order of exits |
| `map_call` | up to 3 items, up to 2 map tasks, both calls | 13,184 | the refinement of `MapPromise` and what it rests on; a call ends |
| `monitors` | 2 slots, the job and GPU monitors, 1 restart | 145,390 | the node is monitored, and again after a restart, by one worker of a generation; GPU identities |
| `polls` | three runs of the keys one part of a snapshot depends on; 1 name, 2 waits of 2 tasks | 106,054 | rows are true, holders are named, progress does not go back |
| `tab` | 2 tasks, 2 clicks, 1 call of `poll_now` | 301,208 | the table, its rows' places, the order of readings; a call is answered |

Five more runs expect a violation: see *Findings*.

**Why the bounds are enough to be of use.**
In `restart` a slot starts, restarts for the request, and starts a third time where
a bug makes it restart twice; an edit and a redefinition fall on any side of the
request and of each read of the constructor. Slots meet only in `old` being
empty; instances with more slots or requests take long to check with liveness, and the
theorems hold for any number of both. `late` stops at 2, one more than the property allows.
In `wait` a chain of two on two queues gives a task with a live queue that must be
given up for its parent, and one with a finished parent that must not; two calls
give handles with outputs. In `jobs` two jobs give one that is kept and one that is canceled, and two workers an exit
after the first from one after the last. In `map_call` three items on two tasks make
one task claim twice. In `monitors` two workers elect one, and one request lets each
be old, new, or gone while the other elects; the host monitor starts and runs as the
job monitor does, so one of the two stands for both. In `polls` the three runs
are sets of keys (one for pilot jobs, one for tasks and their workers, one for the
progress display): every decision of the collector reads keys that one of them has; two waits
of two tasks give a display that names a newer wait than the series that was read. In `tab` two
tasks give an order, two clicks a message that finds the boxes changed again, and
ticks, which no bound limits, let the one call fall before, during or after a poll;
the poller keeps nothing of a call that was answered. `MaxGen`, `MaxInc`, `MaxVersion`,
`MaxCalls`, `MaxJobs`, `MaxItems`, `MaxTasks`, `MaxNames`, `MaxWaits`, `MaxCount`,
`MaxToggles`, `MaxAsks` and `MaxTime` bound counters in the guards.

`CHECK_DEADLOCK` is off where the bounds, or the program, let everything stop: all
requests were made, all jobs ended, the executor is closed, the call is done, the
viewer left. It is on for `TaskWait`'s runs, where the driver can always scale.

### Fairness

A fairness that only one property needs is the antecedent of that property.

* `Restart`: the driver's loop runs (`WaitStep`), its clock reaches the next
  `squeue`, and `squeue` answers again and again. `WaitEnds` states two things. If
  every job meets its time limit, which Slurm enforces, the wait ends, whatever
  workers do. If instead workers run, tasks end, and reads of the counter do not
  fail for ever, it ends and needs no job to; that excepts a worker that died
  without a key, as the docstring does.
* `TaskWait`: the loop runs and its caller asks for every task; the clock reaches
  the next check; `squeue` answers now and then. `CallEnds` adds that pilot jobs
  end; `CallEndsWithTheTasks` adds instead that workers claim what they can and end
  what they claim, and excepts a lost task.
* `MapCall`: driver and workers run; `CallEndsUnlessLost` excepts a lost worker.
* `Monitors`: worker processes run and restart (`WorkerStep`). Nothing is assumed of
  the monitor threads, of NVML or of their requests, which may hang: that `close()`
  gets past a hanging thread is the point of `MonitoredAfterRestart`.
* `View`: a poll ends, by an answer or an exception, and the event loop runs
  (`PollStep`). Nothing is assumed of the interval: `AskIsServed` must not need the
  next tick.

## Findings

| Run | What the documentation says | What the code does |
|---|---|---|
| `restart_forgotten` | "Every task claimed after that point runs on a new worker." (`executor.md:192`) | A worker of a job that was forgotten and is not ended yet claims on the old code. |
| `wait_gives_up` | "Both calls give up only on the tasks that cannot finish." (`submit-and-wait.md:173`); abandoning the rest "loses task outputs the server already has" (`developer-notes.md:214`) | The first check drops finished tasks whose queue has no job; the periodic check drops a task that finished after the poll. |
| `jobs_counted` | "The count includes every pilot job the job group submitted and did not cancel" (`executor.md:68`) | A job whose `sbatch` timed out is counted and canceled by nobody. |
| `polls_rename` | "A name published after the executor submitted the task appears at the next poll." (`swtop.md:146`); of names "Nothing ever changes any of them after the first write." (`developer-notes.md:712`) | `set_task_name` can be called again, and the collector shows the first name it read for ever. |
| `cpu_fallback` | CPU is "Cores the job used on that node, averaged since the previous sample" (`swtop.md:174`) | Without the cgroup's files the time of a process that ended is subtracted, and the rate is clamped at 0. |

The properties of the passing runs say what does hold instead: for the jobs a wait
covers (`NoOldWorkerServes`), for tasks that did not end since they were asked about
while no forgotten job runs (`StrandedNeverFinishes`), while no Slurm command fails (`NoLeakWithoutFault`), for what
did not change since the poll began (`RowsAreTrue`).

## Proofs

TLAPS checks each of these for every value of the constants that satisfies the
module's own assumption (`ConstantsOK`, `MonitorsOK`, `CollectorOK`, `ViewOK`);
one theorem has a further one, named below. The bounds of the runs play no part,
beyond the guards that name them.

| Module | Theorems |
|---|---|
| `FilterProofs` | `OnlyEmbeds`, `OnlyMembers`, `OnlyKeepsOrder`, `OnlyLen`, `TimesOnly` |
| `RestartProofs` | `TypeCorrect`, `WaitInvariant`, `NoOldWorkerServesAlways`, `GenerationNeverNewerThanCode`, `ServesPromisedCodeAlways`, `OneRestartPerRequestAlways`, `AtMostOneLateClaimAlways` |
| `MapCallProofs` | `CallInvariant`, `TypeCorrect`, `FinishedMeansCountedAlways`, `NeverMissingAlways`, `OwnErrorFirstAlways`, `PromiseAlwaysKept` |
| `PilotJobsProofs` | `TypeCorrect`, `NamesAlwaysFresh`, `ExitAlwaysAfterWorkers`, `NeverLeaksWithoutFault` |
| `TaskWaitProofs` | `TypeCorrect`, `StarvedAlwaysRaisesFirst`, `OutputsAlwaysTell`, `EveryTaskAlwaysHasOneFate`, `OutputsAreAlwaysHome`, `PolicyIsAlwaysKept`, `StrandedNeverFinish`, `PromiseAlwaysKept` |
| `MonitorsProofs` | `TypeCorrect`, `InfoBeforeSeriesAlways`, `MonitoredUnlessLostAlways`, `OneMonitorAlways` |
| `CollectorProofs` | `TypeCorrect`, `SnapshotInvariant`, `RowsAreTrueAlways`, `HolderIsNamedAlways`, `ProgressNeverGoesBack` |
| `ViewProofs` | `ReadingsAlwaysInOrder`, `TableNeverGoesBack`, `TabInvariant`, `TypeCorrect`, `TableAlwaysShowsTheSnapshot`, `RowsAlwaysKeepTheirPlace` |

So every invariant, every action property and both refinements of the passing runs are
theorems. `PolicyIsAlwaysKept`, the theorem, follows from the refinement `PromiseKept`
of `TaskWait`, so the run checks that one only.

**Filter.** `Only(s, S)`, the members of `s` that are in `S`, is a recursive function,
and what it computes would be shown by induction, for which the library's theorems
take an operator the provers cannot instantiate. The lemmas take a set of naturals
instead, which they can: a set that is not empty has a least member (`LeastNatural`,
from the well-foundedness of `<`), so if the claim failed for some prefix of `s` there
would be a shortest one, and one step from the prefix before it leads to a
contradiction. The claim is that an increasing map takes the places of `Only(s, S)` to
those places of `s` that hold a member of `S`, onto them (`Embeds`). Members, order
and length follow from it with the cardinalities of sets of places: `Times(s, S)` is
the number of places of `s` with a member of `S`.

**Restart.** `NoOldWorkerServes` is not inductive: it says nothing of a wait in
progress. `WaitInv` adds what the developer notes argue in words.
A worker is *past its check* when it serves or when the rate limit may answer its
next check. Such a worker published its identity and read the counter before
(`ReadFirst`, `Published`), so either every scan meets its key or its generation is
that of a later read (`WaitSeesOld`). An exit key belongs to a process that left
`main`, or its constructor, for good, although it may be alive (`ExitsOver`), and a job that an answer of `squeue` lacks has ended and runs nothing
(`RunsInJob`, `WaitLocals`), so what the wait drops from `old` is not past its
check. When `old` is empty, no worker past its check is older than the target
(`NoOldWorkerPastCheck`). One step that passes the check afterwards has read a
counter that is at least the target.

`CodeInv` adds the order of the constructor: the generation is read first, and
versions on disk only grow, so each part it loads later is at least what was on disk
at that generation (`LoadedSoFar`). With the promise on generations this gives the
promise on code. `GenerationNotNewerThanCode` is a theorem only; no run checks it
apart from `ServesPromisedCode`. `KeysInv` orders the keys one slot published, and
says that a worker on its way to a restart is behind the counter. `LateClaimInv`
says that a worker with a late claim cannot claim again without a read:
`AtMostOneLateClaim` excepts failed reads and `HandlerFails`.
`AtMostOneLateClaimAlways` assumes `ReportOutlastsCheckInterval`, which compares the
module's constants with each other as the code's three constants happen to.

**MapCall.** `CallInv` has four parts. `SubmissionInv`: what each phase of the
driver has put on the queues, and what a finished, failed or dependent task implies for
the others. `FoldsInv`: an item is in one fold at most and in one hand at most, in a
fold from the moment its task folds it, and a map task finishes only when the queue
is empty (`DrainedFirst`). `ReducedInv` and `TakenInv`: the reduce task and the
answer hold exactly the folds they took. When all map tasks are finished, every item
is in one fold (`AllFolded`: an item still running would belong to a task that did
not finish), so the answer of a call that returns is complete (`AnswerComplete`), and
each step is a step of `MapPromise` or a stutter: `PromiseAlwaysKept` is the
refinement `Spec => Promise!Spec`.

**PilotJobs.** `Room` bounds what a scale-up still adds, `NamesLeft` says that a
name not given out is nobody's, `ScriptInv` orders the batch script, and
`TrackedInv` says that while no command failed a queued job is tracked or about to
be canceled. The run has one group; the theorems hold for any.

**TaskWait.** `StepShape` sums up what a step may do to a call (`CallStep`), and two
small invariants follow from it: starved tasks come before the first yield
(`StarvedInv`), and an output says what the server held (`OutputInv`), the second half
of `OutputsAreHome`.

`EveryTaskHasOneFate` speaks of a call that ended; `CallInv` says what holds on the
way. `ListsInv`: the three lists of the loop hold tasks of the driver's list, and which
of them are empty in which phase. `ApartInv`: no task still waited for met a fate, and
one the round has yet to reach met one only if the list names it twice, and then the
poll's answer makes it meet the same one. `CountedInv`: each task of the list was
yielded, given up, or is still in a list; and `done` plus the places the lists still
have of the yielded tasks is the places the driver's list has of them, which is where
`TimesOnly` and the lemmas on `Times` come in. `HomeInv`, `FailuresInv` and `EndInv`
give the outputs, the policy and the end. When nothing is left in a list, `CountedInv`
is the property.

`StrandedNeverFinishes` has two halves. What the check drops is hopeless
(`DropsHopeless`): what a walk over the unfinished ancestors finds is among the
ancestors, since the least closed set is in every closed set (`AboveOpen`), so one of
them needs a queue without a job. That it stays hopeless (`HopelessStays`) needs an
invariant of the queue (`QueueInv`): only a running task has a runner, in a queue with
a job, and every parent of a task that is ready, running, finished or failed is finished.
So a task below one that nobody can claim waits until that one is canceled or
forgotten, and then ends with it (`EndsTogether`); a task that runs while its queue has
no job was lost.

`PromiseAlwaysKept` is the refinement `Spec => Promise!Spec`: from `CallInv`, before and
after the step, each step gives a task, gives some up, ends the call, or is a stutter
(`StepPromised`, with a lemma for each action of `WaitPromise`). That a task is not
given more often than the list names it is `CountedInv` after the step.

**Monitors.** Lemmas give the shape of a worker's step and of a thread's step. `InfoInv`: a
monitor that holds a GPU as published has its key on the server. `ElectionInv`: one elected worker for each generation, no election for a generation to
come, and the newest one that has been held is watched unless it is lost. `ThreadsInv`
adds that only an elected worker has threads, which end with its process and not with
the `join` that gave up on them; the two together are `OneMonitorPerGeneration`. The type of the election's count needs a bound,
which is not a matter of types: `CountInv` says that the count of a generation and the
slots that may still raise it are no more than all slots together, so each step that
raises the one lowers the other.

**Collector.** `SnapshotInv` says what each answer implies of the server at the
beginning of the poll and now (`AnswersTrue`), in which order they arrive
(`AnswersOrdered`), and what the row of the task holds (`RowTrue`). `ProgressInv`
chains what is shown, what was seen and what was published, and the waits in between.
`BoundInv` adds what bounds the counters of `TypeOK`: the actions of the run stop at the
bounds, and the collector copies what it reads.

**View.** `ReadingsInv`: what is drawn, delivered, in flight and on the server are
readings in the order of their age, and one poll is in flight at most.
`TabInv` adds the types and `ShowsInv`: the rows are those of the last drawn snapshot
in the chosen states, the last good delivery to an attached table is drawn, the chosen
states are the checked ones but for a message on its way, and the last `CountChanged`,
or the label when there is none, is the number of rows. The step that matters is a
redraw: `RowsShow` says what `rows` returns, and `SyncShows` that `sync_table` leaves a
table without doubles, with the wanted rows and no others, in which the rows that stay
are in their old order.

### Only model-checked

* All liveness, since fairness and `ENABLED` are beyond the prover: `WaitEnds`,
  `CallEnds`, `CallEndsWithTheTasks`, `CallEndsUnlessLost`, `MonitoredAfterRestart`,
  `AskIsServed`.
* The five findings: a counterexample is found, not proved. `JobCpu` has no other run.

## Not modelled

* Template parsing and quoting, log handling, the environment, serialisation, task
  priorities, the values of the user's functions: no property tells them apart.
* `testing.py`: `FakeSlurm` and the fixtures serve tests.
* A negative count for `scale_jobs`, which no caller passes; that a scale-up reaches
  its count and a scale-down takes the newest jobs, which the module does and no
  property states.
* A second wait on a task whose failure an earlier wait met: it returns in silence
  (`executor` line 1238), as the module has it;
  `PromiseKept` speaks of the failures one call meets.
* Overlapping waits of one driver; a reused process id within a job; a task that
  exits with `RESTART_EXIT_CODE`.
* In `Collector`: a server that restarts empty under the same collector, replies that
  arrive after their poll failed, host series, the values of readings and the text of
  rows. In `Monitors`: several GPUs, the values of readings,
  and a server that restarts (see *Monitors* above).
* In `View`: the summary, progress and error lines (functions of the last snapshot),
  layout, the tabs without a filter, and the await inside `on_mount`.

## Plan

1. *Larger instances:* `PilotJobs` with two groups, `Collector` with two tasks of one
   worker, `Monitors` with the host monitor too.
2. *Models:* the collector against a server that restarts; two waits of one driver.
3. *Proofs:* abstract specifications for the restart wait and for the collector's
   poll, and the refinements, from `WaitInv` and `SnapshotInv`.
