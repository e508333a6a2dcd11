------------------------------ MODULE Restart ------------------------------
(***************************************************************************)
(* The worker restart protocol of one job group: the main loop of          *)
(* PilotWorker, the restart counter and the worker_info / worker_exit keys *)
(* on the ds-service server, the restart loop of the worker script, the    *)
(* pilot jobs as squeue reports them, and the driver inside restart_jobs.  *)
(*                                                                         *)
(* A slot is one run of the worker script, that is one Slurm task of one   *)
(* pilot job.  It runs one worker process after another: its incarnations. *)
(* The pair <<slot, incarnation>> stands for the worker id: it is assumed  *)
(* that no process id is used twice inside one pilot job.                  *)
(***************************************************************************)
EXTENDS Naturals, FiniteSets

CONSTANTS
    Slots,                      \* runs of the worker script
    Jobs,                       \* pilot jobs of the group
    SlotJob,                    \* the pilot job each slot belongs to
    MaxGen,                     \* bound on restart requests
    MaxInc,                     \* bound on incarnations of a slot
    MaxVersion,                 \* bound on edits and on redefinitions
    REPORT_ATTEMPTS,            \* tries of a report
    REPORT_RETRY_TIME_S,        \* seconds between two tries
    RESTART_CHECK_INTERVAL_S    \* seconds between two rate-limited reads

ASSUME ConstantsOK ==
    /\ SlotJob \in [Slots -> Jobs]
    /\ MaxGen \in Nat /\ MaxInc \in Nat \ {0} /\ MaxVersion \in Nat
    /\ REPORT_ATTEMPTS \in Nat \ {0}
    /\ REPORT_RETRY_TIME_S \in Nat /\ RESTART_CHECK_INTERVAL_S \in Nat

VARIABLES
    (* The server, the files on disk, and Slurm. *)
    counter,    \* restart_generation:<group>
    info,       \* the worker_info keys
    exited,     \* the worker_exit keys
    disk,       \* versions of the code, actor_class_args, actor_class_kwargs
    job,        \* Slurm state of each pilot job
    (* The worker processes. *)
    inc,        \* which incarnation of its slot each one is
    worker,     \* what each one knows
    (* The driver. *)
    phase,      \* where it stands, "idle" outside the calls modelled here
    tracked,    \* group.jobs
    target,     \* generation
    seen,       \* the workers in old, new or done
    old,        \* old
    todo,       \* the members of old this pass has yet to look up
    live,       \* live_job_ids
    due,        \* the next squeue is due
    (* What the program promised so far; no step reads these. *)
    promised,   \* the last generation a wait that covered the job returned
    written     \* what was on disk when the counter reached a generation

serverVars  == <<counter, info, exited>>
driverVars  == <<phase, tracked, target, seen, old, todo, live, due>>
promiseVars == <<promised, written>>
vars == <<serverVars, disk, job, inc, worker, driverVars, promiseVars>>

-----------------------------------------------------------------------------
Gens     == 0..MaxGen
Incs     == 1..MaxInc
Version  == [code : 0..MaxVersion, args : 0..MaxVersion, kwargs : 0..MaxVersion]
WorkerId == Slots \X Incs
Info     == [id : WorkerId, gen : Gens]
Unknown  == [answered |-> FALSE, ids |-> {}]
Answer   == [answered : BOOLEAN, ids : SUBSET Jobs]
JobState == {"unsubmitted", "pending", "running", "ending", "ended"}
Phase    == {"idle", "define", "scan", "exits", "decide"}

(* off: the script has not started a worker.  boot, identify, build, args, *)
(* kwargs: the constructor.  check, claim, execute: main().  restart:      *)
(* main() returned.  stop: an exception or SystemExit leaves.  restarting, *)
(* stopping: the same, once the exit is published or failed to be.  again: *)
(* the process ended with RESTART_EXIT_CODE.  gone: the script ended too.  *)
Pc == {"off", "boot", "identify", "build", "args", "kwargs", "check", "claim",
       "execute", "restart", "stop", "restarting", "stopping", "again", "gone"}

WorkerState ==
    [pc     : Pc,
     gen    : Gens,       \* self.restart_generation
     loaded : Version,    \* the versions of what it loaded
     read   : BOOLEAN,    \* self._restart_counter_read
     skip   : BOOLEAN,    \* the rate limit may answer the next check
     late   : 0..2]       \* tasks it claimed since a request it knows nothing of

Zero == [code |-> 0, args |-> 0, kwargs |-> 0]

(* No process: what one knew is lost with it. *)
Process(p) == [pc |-> p, gen |-> 0, loaded |-> Zero,
               read |-> FALSE, skip |-> FALSE, late |-> 0]

Id(s)     == <<s, inc[s]>>
Alive(s)  == worker[s].pc \notin {"off", "again", "gone"}

(* The worker got past the check at the top of its loop. *)
Serving(s) == worker[s].pc \in {"claim", "execute"}

(* A failed report takes as long as the sleeps between its tries. *)
ReportOutlastsCheckInterval ==
    (REPORT_ATTEMPTS - 1) * REPORT_RETRY_TIME_S >= RESTART_CHECK_INTERVAL_S

TypeOK ==
    /\ counter \in Gens
    /\ info \subseteq Info
    /\ exited \subseteq WorkerId
    /\ disk \in Version
    /\ job \in [Jobs -> JobState]
    /\ inc \in [Slots -> Incs]
    /\ worker \in [Slots -> WorkerState]
    /\ phase \in Phase
    /\ tracked \subseteq Jobs
    /\ target \in Gens
    /\ seen \subseteq Info
    /\ old \subseteq Info
    /\ todo \subseteq Info
    /\ live \in Answer
    /\ due \in BOOLEAN
    /\ promised \in [Jobs -> Gens]
    /\ written \in [Gens -> Version]

Init ==
    /\ counter = 0 /\ info = {} /\ exited = {} /\ disk = Zero
    /\ job = [j \in Jobs |-> "unsubmitted"]
    /\ inc = [s \in Slots |-> 1]
    /\ worker = [s \in Slots |-> Process("off")]
    /\ phase = "idle" /\ tracked = {}
    /\ target = 0 /\ seen = {} /\ old = {} /\ todo = {}
    /\ live = Unknown /\ due = TRUE
    /\ promised = [j \in Jobs |-> 0]
    /\ written = [g \in Gens |-> Zero]

-----------------------------------------------------------------------------
(* Slurm.                                                                  *)

(* Slurm starts a pending pilot job. *)
StartJob(j) ==
    /\ job[j] = "pending"
    /\ job' = [job EXCEPT ![j] = "running"]
    /\ UNCHANGED <<serverVars, disk, inc, worker, driverVars, promiseVars>>

(* The job's time limit, or a scancel from outside, signals its processes. *)
SignalJob(j) ==
    /\ job[j] = "running"
    /\ job' = [job EXCEPT ![j] = "ending"]
    /\ UNCHANGED <<serverVars, disk, inc, worker, driverVars, promiseVars>>

(* The job leaves squeue: Slurm killed what was left, or nothing was.      *)
EndJob(j) ==
    /\ \/ job[j] = "ending"
       \/ job[j] = "running"
          /\ \A s \in Slots : SlotJob[s] = j => worker[s].pc = "gone"
    /\ job' = [job EXCEPT ![j] = "ended"]
    /\ worker' = [s \in Slots |->
                    IF SlotJob[s] = j THEN Process("gone") ELSE worker[s]]
    /\ UNCHANGED <<serverVars, disk, inc, driverVars, promiseVars>>

-----------------------------------------------------------------------------
(* The worker.                                                             *)

(* The worker of slot s is at p, and becomes w; nothing else happens.      *)
Becomes(s, p, w) ==
    /\ worker[s].pc = p
    /\ worker' = [worker EXCEPT ![s] = w]
    /\ UNCHANGED <<disk, job, driverVars, promiseVars>>

At(s, p) == [worker[s] EXCEPT !.pc = p]

(* The worker script starts its first worker, or another one after a       *)
(* worker that exited with RESTART_EXIT_CODE.                              *)
StartWorker(s) ==
    /\ job[SlotJob[s]] = "running"
    /\ \/ /\ Becomes(s, "off", Process("boot"))
          /\ UNCHANGED inc
       \/ /\ Becomes(s, "again", Process("boot"))
          /\ inc[s] < MaxInc
          /\ inc' = [inc EXCEPT ![s] = @ + 1]
    /\ UNCHANGED serverVars

(* Mutant: the constructor advances the counter it should read. *)
ReadGenerationNext(s) ==
    /\ Becomes(s, "boot", [At(s, "identify") EXCEPT !.gen = counter + 1])
    /\ UNCHANGED <<serverVars, inc>>

(* The constructor reads the restart counter, before all it loads. *)
ReadGeneration(s) ==
    /\ Becomes(s, "boot", [At(s, "identify") EXCEPT !.gen = counter])
    /\ UNCHANGED <<serverVars, inc>>

(* _publish_identity *)
PublishIdentity(s) ==
    /\ Becomes(s, "identify", At(s, "build"))
    /\ info' = info \cup {[id |-> Id(s), gen |-> worker[s].gen]}
    /\ UNCHANGED <<counter, exited, inc>>

(* Mutant: the generation is read and published once the actor is built. *)
BuildActorThenRead(s) ==
    /\ \/ /\ \/ Becomes(s, "build",  [At(s, "args") EXCEPT !.loaded.code = disk.code])
             \/ Becomes(s, "args",   [At(s, "kwargs") EXCEPT !.loaded.args = disk.args])
          /\ UNCHANGED info
       \/ /\ Becomes(s, "kwargs", [At(s, "check") EXCEPT !.loaded.kwargs = disk.kwargs,
                                                          !.gen = counter])
          /\ info' = {i \in info : i.id # Id(s)} \cup {[id |-> Id(s), gen |-> counter]}
    /\ UNCHANGED <<counter, exited, inc>>

(* _build_actor imports the code, then reads the two keys one by one. *)
BuildActor(s) ==
    /\ \/ Becomes(s, "build",  [At(s, "args") EXCEPT !.loaded.code = disk.code])
       \/ Becomes(s, "args",   [At(s, "kwargs") EXCEPT !.loaded.args = disk.args])
       \/ Becomes(s, "kwargs", [At(s, "check") EXCEPT !.loaded.kwargs = disk.kwargs])
    /\ UNCHANGED <<serverVars, inc>>

(* _restart_requested answers without a read, inside the rate limit. *)
SkipRead(s) ==
    /\ worker[s].skip
    /\ Becomes(s, "check", At(s, "claim"))
    /\ UNCHANGED <<serverVars, inc>>

(* Mutant: a restart also for the generation the worker has. *)
ReadCounterAtLeast(s) ==
    /\ IF counter >= worker[s].gen
       THEN Becomes(s, "check", At(s, "restart"))
       ELSE Becomes(s, "check", [At(s, "claim") EXCEPT !.read = TRUE, !.skip = TRUE])
    /\ UNCHANGED <<serverVars, inc>>

(* _restart_requested reads the counter, and main() acts on the answer. *)
ReadCounter(s) ==
    /\ IF counter > worker[s].gen
       THEN Becomes(s, "check", At(s, "restart"))
       ELSE Becomes(s, "check", [At(s, "claim") EXCEPT !.read = TRUE, !.skip = TRUE])
    /\ UNCHANGED <<serverVars, inc>>

(* Mutant: a worker that never read the counter claims all the same. *)
ReadFailsAndServes(s) ==
    /\ Becomes(s, "check", [At(s, "claim") EXCEPT !.late = 0])
    /\ UNCHANGED <<serverVars, inc>>

(* The read fails, which counts as no request.  A worker that never read   *)
(* the counter goes round again without a claim, and reads again.          *)
ReadFails(s) ==
    /\ Becomes(s, "check", [At(s, IF worker[s].read THEN "claim" ELSE "check")
                              EXCEPT !.skip = worker[s].read, !.late = 0])
    /\ UNCHANGED <<serverVars, inc>>

(* task_get hands over a task. *)
Claim(s) ==
    /\ Becomes(s, "claim", [At(s, "execute") EXCEPT
                              !.late = IF worker[s].gen < counter /\ @ < 2
                                       THEN @ + 1 ELSE @])
    /\ UNCHANGED <<serverVars, inc>>

(* NoTaskAvailable, or a request that fails: sleep and go round. *)
NoTask(s) ==
    /\ Becomes(s, "claim", At(s, "check"))
    /\ UNCHANGED <<serverVars, inc>>

(* Mutant: task_finished is not set. *)
ReportQuietly(s) ==
    /\ Becomes(s, "execute", At(s, "check"))
    /\ UNCHANGED <<serverVars, inc>>

(* The task ended, well or not, and its report is accepted: task_finished  *)
(* makes the next check read.                                              *)
Report(s) ==
    /\ Becomes(s, "execute", [At(s, "check") EXCEPT !.skip = FALSE])
    /\ UNCHANGED <<serverVars, inc>>

(* Every try of the report fails, so task_finished stays FALSE; but the    *)
(* sleeps between the tries use up the check interval.                     *)
ReportFails(s) ==
    /\ Becomes(s, "execute", [At(s, "check") EXCEPT
                                !.skip = @ /\ ~ReportOutlastsCheckInterval])
    /\ UNCHANGED <<serverVars, inc>>

(* The task raises, and so does the handler of its exception (str(e) runs  *)
(* the user's code): no report, and no sleep as long as one that fails.    *)
HandlerFails(s) ==
    /\ Becomes(s, "execute", [At(s, "check") EXCEPT !.late = 0])
    /\ UNCHANGED <<serverVars, inc>>

(* The task raises SystemExit, which main() does not catch, with a status  *)
(* other than RESTART_EXIT_CODE.                                           *)
TaskExits(s) ==
    /\ Becomes(s, "execute", At(s, "stop"))
    /\ UNCHANGED <<serverVars, inc>>

(* A constructor that raises, or meets SIGTERM, publishes no exit until it *)
(* reaches the try around the actor, which follows the monitors.           *)
ConstructorFails(s) ==
    /\ \/ \E p \in {"boot", "identify", "build"} : Becomes(s, p, Process("gone"))
       \/ \E p \in {"build", "args", "kwargs"} : Becomes(s, p, At(s, "stop"))
    /\ UNCHANGED <<serverVars, inc>>

(* SIGTERM in main() raises SystemExit. *)
TermWorker(s) ==
    /\ job[SlotJob[s]] = "ending"
    /\ \E p \in {"check", "claim", "execute"} : Becomes(s, p, At(s, "stop"))
    /\ UNCHANGED <<serverVars, inc>>

(* SIGKILL, the OOM killer or a crash ends the worker, which says nothing. *)
KillWorker(s) ==
    /\ Alive(s)
    /\ Becomes(s, worker[s].pc, Process("gone"))
    /\ UNCHANGED <<serverVars, inc>>

(* _publish_exit, which fails or not, and is never tried again.  The       *)
(* process lives on.                                                       *)
PublishExit(s) ==
    /\ \/ Becomes(s, "restart", At(s, "restarting"))
       \/ Becomes(s, "stop", At(s, "stopping"))
    /\ exited' \in {exited, exited \cup {Id(s)}}
    /\ UNCHANGED <<counter, info, inc>>

(* The rest of close(): the client and the actor close, and the process    *)
(* ends, with RESTART_EXIT_CODE if main() returned and neither a SIGTERM   *)
(* nor the actor's own close() raised.                                     *)
Close(s) ==
    /\ \/ \E p \in {"again", "gone"} : Becomes(s, "restarting", Process(p))
       \/ Becomes(s, "stopping", Process("gone"))
    /\ UNCHANGED <<serverVars, inc>>

-----------------------------------------------------------------------------
(* The user and the driver.                                                *)

(* The user edits the code the workers import. *)
EditCode ==
    /\ disk.code < MaxVersion
    /\ disk' = [disk EXCEPT !.code = @ + 1]
    /\ UNCHANGED <<serverVars, job, inc, worker, driverVars, promiseVars>>

(* define_job_group with new actor arguments: two keys, one after the      *)
(* other, and the second write may fail.                                   *)
DefineArgs ==
    /\ phase = "idle" /\ disk.args < MaxVersion
    /\ disk' = [disk EXCEPT !.args = @ + 1]
    /\ phase' = "define"
    /\ UNCHANGED <<serverVars, job, inc, worker, tracked, target, seen, old, todo,
                   live, due, promiseVars>>

DefineKwargs ==
    /\ phase = "define"
    /\ disk' \in {disk, [disk EXCEPT !.kwargs = disk.args]}
    /\ phase' = "idle"
    /\ UNCHANGED <<serverVars, job, inc, worker, tracked, target, seen, old, todo,
                   live, due, promiseVars>>

(* scale_jobs submits one more job. *)
SubmitJob(j) ==
    /\ phase = "idle" /\ job[j] = "unsubmitted"
    /\ job' = [job EXCEPT ![j] = "pending"]
    /\ tracked' = tracked \cup {j}
    /\ UNCHANGED <<serverVars, disk, inc, worker, phase, target, seen, old, todo,
                   live, due, promiseVars>>

(* scale_jobs or stop forgets a job, whether scancel works or not.  An     *)
(* accepted scancel takes a while to end the job.                          *)
ForgetJob(j) ==
    /\ phase = "idle" /\ j \in tracked
    /\ tracked' = tracked \ {j}
    /\ \/ UNCHANGED job
       \/ job[j] = "pending" /\ job' = [job EXCEPT ![j] = "ended"]
       \/ job[j] = "running" /\ job' = [job EXCEPT ![j] = "ending"]
    /\ UNCHANGED <<serverVars, disk, inc, worker, phase, target, seen, old, todo,
                   live, due, promiseVars>>

(* restart_jobs advances the counter. *)
AdvanceCounter ==
    /\ phase = "idle" /\ counter < MaxGen
    /\ counter' = counter + 1
    /\ written' = [written EXCEPT ![counter + 1] = disk]
    /\ UNCHANGED <<info, exited, disk, job, inc, worker, tracked, seen, old, todo,
                   live, due, promised>>

(* restart_jobs(wait=False), or one whose increment loses its reply. *)
RestartNoWait ==
    /\ AdvanceCounter
    /\ UNCHANGED <<phase, target>>

(* restart_jobs(wait=True) *)
RestartAndWait ==
    /\ AdvanceCounter
    /\ target' = counter + 1
    /\ phase' = "scan"

(* The workers this wait has to wait for, among those it looks up. *)
Older(infos) ==
    {i \in infos : SlotJob[i.id[1]] \in tracked /\ i.gen < target}

(* One pass over the worker_info keys. *)
ScanWorkers ==
    /\ phase = "scan"
    /\ seen' = info
    /\ old' = old \cup Older(info \ seen)
    /\ todo' = old'
    /\ phase' = "exits"
    /\ UNCHANGED <<serverVars, disk, job, inc, worker, tracked, target, live, due,
                   promiseVars>>

(* _has_exited, for one old worker. *)
LookUpExit(i) ==
    /\ phase = "exits" /\ i \in todo
    /\ todo' = todo \ {i}
    /\ old' = IF i.id \in exited THEN old \ {i} ELSE old
    /\ UNCHANGED <<serverVars, disk, job, inc, worker, phase, tracked, target, seen,
                   live, due, promiseVars>>

(* What squeue shows: every job that was submitted and has not ended. *)
Queued == {j \in Jobs : job[j] \in {"pending", "running", "ending"}}

(* Mutant: the answer of squeue drops nobody. *)
CheckJobsInVain ==
    /\ phase = "exits" /\ todo = {}
    /\ live' \in {live, [answered |-> TRUE, ids |-> Queued]}
    /\ due' = FALSE
    /\ phase' = "decide"
    /\ UNCHANGED <<serverVars, disk, job, inc, worker, tracked, target, seen, old,
                   todo, promiseVars>>

(* squeue when it is due, and the answer it gave last otherwise; then drop *)
(* every worker whose job the answer does not hold.                        *)
CheckJobs ==
    /\ phase = "exits" /\ todo = {}
    /\ \/ /\ old # {} /\ due
          /\ live' \in {live, [answered |-> TRUE, ids |-> Queued]}
          /\ due' = FALSE
       \/ /\ ~(old # {} /\ due)
          /\ UNCHANGED <<live, due>>
    /\ old' = {i \in old : live'.answered => SlotJob[i.id[1]] \in live'.ids}
    /\ phase' = "decide"
    /\ UNCHANGED <<serverVars, disk, job, inc, worker, tracked, target, seen, todo,
                   promiseVars>>

(* The locals of _wait_for_restart go away. *)
LeaveWait ==
    /\ phase' = "idle" /\ target' = 0
    /\ seen' = {} /\ old' = {} /\ todo' = {} /\ live' = Unknown /\ due' = TRUE
    /\ UNCHANGED <<serverVars, disk, job, inc, worker, tracked, written>>

(* The jobs this executor submitted and no longer tracks: the wait does    *)
(* not look at their workers.                                              *)
Forgotten == {j \in Jobs : job[j] # "unsubmitted"} \ tracked

(* No old worker is left, and restart_jobs returns. *)
WaitReturns ==
    /\ phase = "decide" /\ old = {}
    /\ promised' = [j \in Jobs |-> IF j \in Forgotten THEN promised[j] ELSE target]
    /\ LeaveWait

(* The deadline passed, or a request to the server failed. *)
WaitRaises ==
    /\ phase \in {"scan", "exits", "decide"}
    /\ LeaveWait
    /\ UNCHANGED promised

(* Sleep; the time to ask squeue again may have come. *)
WaitSleeps ==
    /\ phase = "decide" /\ old # {}
    /\ due' \in {due, TRUE}
    /\ phase' = "scan"
    /\ UNCHANGED <<serverVars, disk, job, inc, worker, tracked, target, seen, old,
                   todo, live, promiseVars>>

-----------------------------------------------------------------------------
SlurmStep(j) == StartJob(j) \/ SignalJob(j) \/ EndJob(j)

WorkerStep(s) ==
    \/ StartWorker(s) \/ ReadGeneration(s) \/ PublishIdentity(s) \/ BuildActor(s)
    \/ SkipRead(s) \/ ReadCounter(s) \/ Claim(s) \/ NoTask(s) \/ Report(s)
    \/ PublishExit(s) \/ Close(s)

WorkerFault(s) ==
    \/ KillWorker(s) \/ TermWorker(s) \/ ConstructorFails(s)
    \/ ReadFails(s) \/ ReportFails(s) \/ HandlerFails(s) \/ TaskExits(s)

DriverCall ==
    \/ EditCode \/ DefineArgs \/ DefineKwargs \/ RestartNoWait \/ RestartAndWait
    \/ \E j \in Jobs : SubmitJob(j) \/ ForgetJob(j)

WaitStep ==
    \/ ScanWorkers \/ CheckJobs \/ WaitReturns \/ WaitSleeps
    \/ \E i \in todo : LookUpExit(i)

Next ==
    \/ \E j \in Jobs : SlurmStep(j)
    \/ \E s \in Slots : WorkerStep(s) \/ WorkerFault(s)
    \/ DriverCall \/ WaitStep \/ WaitRaises

Spec == Init /\ [][Next]_vars

-----------------------------------------------------------------------------
(* Safety.                                                                 *)

(* restart_jobs: "Every task claimed after that point runs on a new        *)
(* worker."  Once a wait returned a generation, no worker of a job the     *)
(* wait covered is past its check with an older one: it neither claims     *)
(* nor runs a task.                                                        *)
NoOldWorkerServes ==
    \A s \in Slots : Serving(s) => worker[s].gen >= promised[SlotJob[s]]

(* Version v is at least as new as version w, in each of its parts. *)
NotOlder(v, w) == v.code >= w.code /\ v.args >= w.args /\ v.kwargs >= w.kwargs

(* A worker that serves loaded the code and the actor arguments at least   *)
(* as new as those on disk when the counter reached the generation the     *)
(* wait returned, although each is read by a request of its own.           *)
ServesPromisedCode ==
    \A s \in Slots :
        Serving(s) => NotOlder(worker[s].loaded, written[promised[SlotJob[s]]])

(* A recorded generation is never newer than the code its worker runs,     *)
(* whatever restart requests arrive while the worker starts.               *)
GenerationNotNewerThanCode ==
    \A s \in Slots :
        Serving(s) => NotOlder(worker[s].loaded, written[worker[s].gen])

(* A request restarts a worker once: each incarnation of a slot recorded a *)
(* higher generation than the one before it, so no worker restarts in a    *)
(* loop.                                                                   *)
OneRestartPerRequest ==
    \A i1, i2 \in info :
        i1.id[1] = i2.id[1] /\ i1.id[2] < i2.id[2] => i1.gen < i2.gen

(* Without a wait, "a worker can claim a task or two on the old code       *)
(* before it restarts": after a request it claims at most one, and one     *)
(* more for each read of the counter that fails, and for each task whose   *)
(* exception the worker cannot report.                                     *)
AtMostOneLateClaim == \A s \in Slots : worker[s].late <= 1

-----------------------------------------------------------------------------
(* Liveness.                                                               *)

(* The driver runs, its clock goes on, and squeue answers now and then.    *)
DriverFairness ==
    /\ WF_vars(WaitStep)
    /\ SF_vars(WaitSleeps /\ due')
    /\ SF_vars(CheckJobs /\ ~due' /\ live' = [answered |-> TRUE, ids |-> Queued])

(* Every pilot job meets its time limit, and Slurm then ends it. *)
SlurmFairness == \A j \in Jobs : WF_vars(SignalJob(j)) /\ WF_vars(EndJob(j))

(* Every worker runs, every task and every close() of an actor ends, and   *)
(* not every read of the counter fails.  Nothing is assumed of Slurm.      *)
WorkerFairness ==
    \A s \in Slots : WF_vars(WorkerStep(s)) /\ SF_vars(ReadCounter(s))

FairSpec == Spec /\ DriverFairness


(* A worker of the group that published itself ended without an exit key.  *)
DiedSilently ==
    \E i \in info : /\ i.id \notin exited
                    /\ i.id = Id(i.id[1]) => ~Alive(i.id[1])

(* restart_jobs: a wait without a timeout ends, whatever the workers do,   *)
(* because their jobs do: "A worker that dies without saying so keeps the  *)
(* wait going until its Slurm job ends".  And it needs no job to end: it   *)
(* ends once every old worker finished its task, unless one of them died   *)
(* without saying so.                                                      *)
WaitEnds ==
    /\ SlurmFairness => (phase = "scan" ~> phase = "idle")
    /\ WorkerFairness => (phase = "scan" ~> phase = "idle" \/ DiedSilently)

(* The same promise as restart_jobs words it, for every worker of the job  *)
(* group: "Every task claimed after that point runs on a new worker."      *)
EveryClaimIsNew ==
    [][\A s \in Slots : Claim(s) => \A j \in Jobs : worker[s].gen >= promised[j]]_vars

=============================================================================
