----------------------------- MODULE PilotJobs -----------------------------
(***************************************************************************)
(* The pilot jobs of an executor: scale_jobs, stop and close on one side,  *)
(* and on the other the batch script of each job, which reports its start  *)
(* and its exit around the workers srun runs.  sbatch, squeue and scancel  *)
(* stand between the two, and each can fail, or work without saying so.    *)
(*                                                                         *)
(* A job is named by its group and its index, as in _add_job.              *)
(***************************************************************************)
EXTENDS Naturals, Sequences, SequencesExt

CONSTANTS
    Groups,
    MaxJobs,    \* bound on the jobs of one group
    Workers     \* Slurm tasks of one job

ASSUME ConstantsOK == MaxJobs \in Nat /\ Workers \in Nat \ {0}

VARIABLES
    (* The executor. *)
    nextIndex,  \* group.next_job_index
    jobs,       \* group.jobs, oldest first
    phase,      \* where the driver stands
    group,      \* the arguments of scale_jobs
    count,
    doomed,     \* to_cancel_jobids
    closing,    \* the driver is in close() rather than stop()
    (* Slurm and the batch scripts. *)
    slurm,      \* what became of each job
    script,     \* where its batch script stands
    workers,    \* how many of its workers run
    (* The server: the keys of each job. *)
    info, start, exit,
    (* What happened; no step reads it. *)
    faulted     \* a Slurm command failed, or timed out, since the start

executorVars == <<nextIndex, jobs, phase, group, count, doomed, closing>>
slurmVars    == <<slurm, script, workers>>
keyVars      == <<info, start, exit>>
vars == <<executorVars, slurmVars, keyVars, faulted>>

-----------------------------------------------------------------------------
Job == Groups \X (0..MaxJobs-1)

(* squeue lists a queued job, pending or running, and one that is ending.  *)
Listed == {j \in Job : slurm[j] \in {"queued", "ending"}}
Tracked(g) == {<<g, i>> : i \in Range(jobs[g])}
AllTracked == UNION {Tracked(g) : g \in Groups}

TypeOK ==
    /\ nextIndex \in [Groups -> 0..MaxJobs]
    /\ \A g \in Groups : Range(jobs[g]) \subseteq 0..MaxJobs-1
    /\ phase \in {"idle", "add", "publish", "shrink", "scancel", "stop",
                  "stopcancel", "closed"}
    /\ group \in Groups /\ count \in 0..MaxJobs
    /\ doomed \subseteq Job /\ closing \in BOOLEAN
    /\ slurm \in [Job -> {"none", "queued", "ending", "ended"}]
    /\ script \in [Job -> {"none", "start", "work", "exit", "over"}]
    /\ workers \in [Job -> 0..Workers]
    /\ info \subseteq Job /\ start \subseteq Job /\ exit \subseteq Job
    /\ faulted \in BOOLEAN

Init ==
    /\ nextIndex = [g \in Groups |-> 0] /\ jobs = [g \in Groups |-> <<>>]
    /\ phase = "idle" /\ group \in Groups /\ count = 0
    /\ doomed = {} /\ closing = FALSE
    /\ slurm = [j \in Job |-> "none"] /\ script = [j \in Job |-> "none"]
    /\ workers = [j \in Job |-> 0]
    /\ info = {} /\ start = {} /\ exit = {}
    /\ faulted = FALSE

-----------------------------------------------------------------------------
(* scale_jobs                                                              *)

Return == phase' = "idle" /\ UNCHANGED faulted
Raise  == phase' = "idle" /\ faulted' = TRUE

Scale(g, n) ==
    /\ phase = "idle"
    /\ n <= Len(jobs[g]) \/ nextIndex[g] + n - Len(jobs[g]) <= MaxJobs
    /\ group' = g /\ count' = n
    /\ phase' = "add"
    /\ UNCHANGED <<nextIndex, jobs, doomed, closing, slurmVars, keyVars, faulted>>

(* sbatch accepts job i, or accepts it and the driver never learns its id, *)
(* or rejects it.                                                          *)
Sbatch(i) ==
    \/ /\ slurm' = [slurm EXCEPT ![<<group, i>>] = "queued"]
       /\ \/ /\ jobs' = [jobs EXCEPT ![group] = Append(@, i)]
             /\ phase' = "publish"
             /\ UNCHANGED faulted
          \/ UNCHANGED jobs /\ Raise
    \/ UNCHANGED <<slurm, jobs>> /\ Raise

(* Mutants: an index is used up only by a job the driver learns of; one    *)
(* job too many.                                                           *)
AddJobReuse ==
    /\ phase = "add" /\ Len(jobs[group]) < count
    /\ Sbatch(nextIndex[group])
    /\ nextIndex' = [nextIndex EXCEPT ![group] = IF jobs' = jobs THEN @ ELSE @ + 1]
    /\ UNCHANGED <<group, count, doomed, closing, script, workers, keyVars>>

AddJobOver ==
    /\ phase = "add" /\ Len(jobs[group]) <= count
    /\ nextIndex' = [nextIndex EXCEPT ![group] = @ + 1]
    /\ Sbatch(nextIndex[group])
    /\ UNCHANGED <<group, count, doomed, closing, script, workers, keyVars>>

(* _add_job takes the next index and runs sbatch. *)
AddJob ==
    /\ phase = "add" /\ Len(jobs[group]) < count
    /\ nextIndex' = [nextIndex EXCEPT ![group] = @ + 1]
    /\ Sbatch(nextIndex[group])
    /\ UNCHANGED <<group, count, doomed, closing, script, workers, keyVars>>

(* _publish_pilot_job, whose request may fail. *)
PublishJob ==
    /\ phase = "publish"
    /\ \/ /\ info' = info \cup {<<group, Last(jobs[group])>>}
          /\ phase' = "add"
          /\ UNCHANGED faulted
       \/ /\ phase' = "idle"
          /\ UNCHANGED <<info, faulted>>
    /\ UNCHANGED <<nextIndex, jobs, group, count, doomed, closing, slurmVars, start, exit>>

EndAdding ==
    /\ phase = "add" /\ Len(jobs[group]) >= count
    /\ IF Len(jobs[group]) > count
       THEN phase' = "shrink" /\ UNCHANGED faulted
       ELSE Return
    /\ UNCHANGED <<nextIndex, jobs, group, count, doomed, closing, slurmVars, keyVars>>

(* The group keeps the jobs in kept and forgets those in popped. *)
Pop(kept, popped) ==
    /\ jobs' = [jobs EXCEPT ![group] = kept]
    /\ doomed' = {<<group, i>> : i \in Range(popped)} \cap Listed
    /\ IF doomed' = {} THEN Return ELSE phase' = "scancel" /\ UNCHANGED faulted

(* Mutant: only one of the jobs that go is canceled. *)
PopCancelOne ==
    /\ phase = "shrink"
    /\ LET j == jobs[group] IN Pop(SubSeq(j, 1, count), <<Last(j)>>)
    /\ UNCHANGED <<nextIndex, group, count, closing, slurmVars, keyVars>>

(* squeue answers, and the newest jobs leave group.jobs; or it fails. *)
PopNewest ==
    /\ phase = "shrink"
    /\ LET j == jobs[group] IN
        \/ Pop(SubSeq(j, 1, count), SubSeq(j, count + 1, Len(j)))
        \/ Raise /\ UNCHANGED <<jobs, doomed>>
    /\ UNCHANGED <<nextIndex, group, count, closing, slurmVars, keyVars>>

(* Slurm signals the processes of the jobs it is told to cancel. *)
Signaled ==
    [j \in Job |-> IF j \in doomed /\ slurm[j] = "queued" THEN "ending" ELSE slurm[j]]

(* scancel works; or fails; or works and times out.  The group forgot the  *)
(* jobs in any case.                                                       *)
CancelJobs ==
    /\ phase = "scancel"
    /\ \/ slurm' = Signaled /\ Return
       \/ slurm' \in {slurm, Signaled} /\ Raise
    /\ doomed' = {}
    /\ UNCHANGED <<nextIndex, jobs, group, count, closing, script, workers, keyVars>>

-----------------------------------------------------------------------------
(* stop and close: _cleanup_all_workers reports a failure and drops it.    *)

Stop ==
    /\ phase = "idle"
    /\ closing' \in BOOLEAN
    /\ phase' = "stop"
    /\ UNCHANGED <<nextIndex, jobs, group, count, doomed, slurmVars, keyVars, faulted>>

(* Every group forgets its jobs, whatever became of them. *)
Forget ==
    /\ jobs' = [g \in Groups |-> <<>>]
    /\ doomed' = {}
    /\ phase' = IF closing THEN "closed" ELSE "idle"

(* squeue answers with these jobs of the executor, or fails. *)
CancelThese(ids) ==
    /\ phase = "stop"
    /\ \/ /\ ids # {}
          /\ doomed' = ids
          /\ phase' = "stopcancel"
          /\ UNCHANGED <<jobs, faulted>>
       \/ ids = {} /\ Forget /\ UNCHANGED faulted
       \/ Forget /\ faulted' = TRUE
    /\ UNCHANGED <<nextIndex, group, count, closing, slurmVars, keyVars>>

ListJobs == CancelThese(AllTracked \cap Listed)

CancelAll ==
    /\ phase = "stopcancel"
    /\ \/ slurm' = Signaled /\ UNCHANGED faulted
       \/ slurm' \in {slurm, Signaled} /\ faulted' = TRUE
    /\ Forget
    /\ UNCHANGED <<nextIndex, group, count, closing, script, workers, keyVars>>

-----------------------------------------------------------------------------
(* One pilot job.                                                          *)

JobStep == UNCHANGED <<executorVars, info, faulted>>

(* Slurm starts the batch script. *)
StartScript(j) ==
    /\ slurm[j] = "queued" /\ script[j] = "none"
    /\ script' = [script EXCEPT ![j] = "start"]
    /\ UNCHANGED <<slurm, workers, start, exit>> /\ JobStep

(* report_pilot_job start, or a failure to, which does not end the script; *)
(* then srun, unless the TERM trap ran.                                    *)
ReportStart(j) ==
    /\ script[j] = "start"
    /\ start' \in {start, start \cup {j}}
    /\ IF slurm[j] = "ending"
       THEN script' = [script EXCEPT ![j] = "exit"] /\ UNCHANGED workers
       ELSE /\ script' = [script EXCEPT ![j] = "work"]
            /\ workers' = [workers EXCEPT ![j] = Workers]
    /\ UNCHANGED <<slurm, exit>> /\ JobStep

(* A worker script ends. *)
EndWorker(j) ==
    /\ workers[j] > 0
    /\ workers' = [workers EXCEPT ![j] = @ - 1]
    /\ UNCHANGED <<slurm, script, start, exit>> /\ JobStep

(* Mutant: the trap runs before srun returned. *)
EndSrunEarly(j) ==
    /\ script[j] = "work"
    /\ script' = [script EXCEPT ![j] = "exit"]
    /\ UNCHANGED <<slurm, workers, start, exit>> /\ JobStep

(* srun returns after its last worker, and only then does bash run the     *)
(* trap of a signal it took meanwhile.                                     *)
EndSrun(j) ==
    /\ script[j] = "work" /\ workers[j] = 0
    /\ script' = [script EXCEPT ![j] = "exit"]
    /\ UNCHANGED <<slurm, workers, start, exit>> /\ JobStep

(* The EXIT trap: report_pilot_job exit, or a failure to. *)
ReportExit(j) ==
    /\ script[j] = "exit"
    /\ exit' \in {exit, exit \cup {j}}
    /\ script' = [script EXCEPT ![j] = "over"]
    /\ UNCHANGED <<slurm, workers, start>> /\ JobStep

(* The job meets its time limit. *)
LimitJob(j) ==
    /\ slurm[j] = "queued" /\ script[j] \in {"start", "work", "exit"}
    /\ slurm' = [slurm EXCEPT ![j] = "ending"]
    /\ UNCHANGED <<script, workers, start, exit>> /\ JobStep

(* The job leaves squeue: its script is over, it was canceled while it was *)
(* pending, its processes were killed after KillWait, or its node failed.  *)
EndJob(j) ==
    /\ \/ slurm[j] = "ending"
       \/ slurm[j] = "queued" /\ script[j] # "none"
    /\ slurm' = [slurm EXCEPT ![j] = "ended"]
    /\ script' = [script EXCEPT ![j] = "over"]
    /\ workers' = [workers EXCEPT ![j] = 0]
    /\ UNCHANGED <<start, exit>> /\ JobStep

-----------------------------------------------------------------------------
Executor ==
    \/ \E g \in Groups, n \in 0..MaxJobs : Scale(g, n)
    \/ AddJob \/ PublishJob \/ EndAdding \/ PopNewest \/ CancelJobs
    \/ Stop \/ ListJobs \/ CancelAll

JobSteps(j) ==
    \/ StartScript(j) \/ ReportStart(j) \/ EndWorker(j) \/ EndSrun(j) \/ ReportExit(j)
    \/ LimitJob(j) \/ EndJob(j)

Next == Executor \/ \E j \in Job : JobSteps(j)

Spec == Init /\ [][Next]_vars

-----------------------------------------------------------------------------
(* Safety.                                                                 *)

(* While every Slurm command works, the executor tracks every job that     *)
(* Slurm runs and nobody canceled; after close() there is none.            *)
NoLeakWithoutFault ==
    ~faulted => \A j \in Job : slurm[j] = "queued" => j \in AllTracked \cup doomed

(* The names of pilot jobs, and of the script files a running job reads,   *)
(* are never given out again: not after a failed or an unanswered sbatch,  *)
(* and not after stop().                                                   *)
NamesAreFresh ==
    [][\A g \in Groups : nextIndex'[g] # nextIndex[g] => slurm[<<g, nextIndex[g]>>] = "none"]_vars

(* "The pilot job's exit comes after theirs": a job whose exit key is      *)
(* there, which swtop hides, runs no worker, however it was ended.         *)
ExitAfterWorkers == \A j \in exit : workers[j] = 0 /\ script[j] = "over"

(* scale_jobs counts "every pilot job the job group submitted and did not  *)
(* cancel": between two calls, each job Slurm runs is counted, or is being *)
(* canceled.                                                               *)
CountsEveryJob ==
    phase = "idle" => \A j \in Job : slurm[j] = "queued" => j \in AllTracked

=============================================================================
