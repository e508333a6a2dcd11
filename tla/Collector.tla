------------------------------- MODULE Collector -------------------------------
(***************************************************************************)
(* The Collector of swtop: one poll of the server after the other, each a  *)
(* set of concurrent requests, over the caches that the polls share, while *)
(* the run it watches goes on.                                             *)
(*                                                                         *)
(* There is one pilot job, one worker of it and one task: the rows of two  *)
(* jobs, workers or tasks share nothing but the requests.  The caller      *)
(* awaits one poll at a time, as SnapshotPoller and watch do.              *)
(***************************************************************************)
EXTENDS Naturals

CONSTANTS
    Runs,       \* the keys that the run writes, for each run swtop may watch
    MaxNames,   \* bound on set_task_name for the task
    MaxWaits,   \* bound on the waits that publish their progress
    MaxCount    \* the total of each of them

ASSUME CollectorOK == {MaxNames, MaxWaits, MaxCount} \subseteq Nat

VARIABLES
    writes,     \* the keys that the run writes: one of Runs
    server,     \* how often each key was written
    task,       \* the task on the server
    count,      \* the last point of the progress series of each wait
    recent,     \* the series with a point in the last PROGRESS_TAIL_S
    cache,      \* the write each cached identity was read from, 0 without one
    seen,       \* _progress_seen
    poll,       \* the poll in flight
    began,      \* the server's keys when it began
    shown       \* the progress of the last good snapshot

vars == <<writes, server, task, count, recent, cache, seen, poll, began, shown>>

-----------------------------------------------------------------------------
(* The keys, by their prefix; display is PROGRESS_DISPLAY_KEY, and holds   *)
(* the id of the last wait.                                                *)
Identities == {"job_info", "job_start", "worker_info", "task_name"}
Exits      == {"job_exit", "worker_exit"}
Keys       == Identities \cup Exits \cup {"job_series", "display"}
Waits      == 1..MaxWaits

(* The requests of a poll's first gather, and those that follow it.        *)
Gathered == Keys \ {"task_name"}
Later    == {"task_name", "task_id", "status", "holder"}

(* sent: not answered yet.  absent: the server has no such key.  found: it *)
(* has one, to be read next.  known: nothing is left to read.              *)
Answers == {"sent", "absent", "found", "known"}

TaskStates == {"none", "waiting", "running", "ended"}
Row == [state : TaskStates, worker : {"", "name", "id"}]

Poll == [on : BOOLEAN, got : [Gathered \cup Later -> Answers],
         wait : 0..MaxWaits,        \* the progress id read from the display
         row : Row]                 \* the task as read

NoPoll  == [on |-> FALSE, got |-> [k \in Gathered \cup Later |-> "sent"],
            wait |-> 0, row |-> [state |-> "none", worker |-> ""]]
Nothing == [wait |-> 0, done |-> 0]

(* The types; and what a poll has read is in the cache, so that a poll cut *)
(* short leaves the next one less to read.                                 *)
TypeOK ==
    /\ writes \in Runs
    /\ server \in [Keys -> 0..(MaxNames + MaxWaits + 1)]
    /\ task \in TaskStates
    /\ count \in [Waits -> 0..MaxCount]
    /\ recent \subseteq Waits
    /\ cache \in [Identities -> 0..(MaxNames + 1)]
    /\ seen \in [Waits -> 0..MaxCount]
    /\ poll \in Poll
    /\ \A k \in Identities : poll.got[k] = "known" => cache[k] # 0
    /\ began \in [Keys -> 0..(MaxNames + MaxWaits + 1)]
    /\ shown \in [wait : 0..MaxWaits, done : 0..MaxCount]

Init ==
    /\ writes \in Runs
    /\ server = [k \in Keys |-> 0]
    /\ task = "none"
    /\ count = [i \in Waits |-> 0]
    /\ recent = {}
    /\ cache = [k \in Identities |-> 0]
    /\ seen = [i \in Waits |-> 0]
    /\ poll = NoPoll
    /\ began = server
    /\ shown = Nothing

-----------------------------------------------------------------------------
(* The run that swtop watches.                                             *)

RunMoves == UNCHANGED <<writes, cache, seen, poll, began, shown>>

(* The keys without which k is not written.                                *)
Before(k) == IF k \in {"worker_exit", "job_series"} THEN {"worker_info"} ELSE {}

(* A worker registers, samples and exits; a pilot job starts and exits,    *)
(* also where a request to publish failed; the executor publishes the job  *)
(* when sbatch answers, which may be after the job started.                *)
Publish(k) ==
    /\ k \in writes \ {"display", "task_name"}
    /\ server[k] = 0
    /\ \A b \in Before(k) : server[b] # 0
    /\ server' = [server EXCEPT ![k] = 1]
    /\ UNCHANGED <<task, count, recent>> /\ RunMoves

(* set_task_name, once the task is submitted.                              *)
SetTaskName ==
    /\ task # "none"
    /\ server["task_name"] < MaxNames
    /\ server' = [server EXCEPT !["task_name"] = @ + 1]
    /\ UNCHANGED <<task, count, recent>> /\ RunMoves

(* submit; a claim by the worker, which registered before; a report, or a  *)
(* cancellation.  A worker may exit with its task running.                 *)
TaskMoves ==
    /\ \/ task = "none" /\ "task_name" \in writes /\ task' = "waiting"
       \/ task = "waiting" /\ task' = "ended"
       \/ task = "waiting" /\ task' = "running"
          /\ server["worker_info"] # 0 /\ server["worker_exit"] = 0
       \/ task = "running" /\ task' = "ended"
    /\ UNCHANGED <<server, count, recent>> /\ RunMoves

(* _publish_progress: the display names a new wait.                        *)
PublishDisplay ==
    /\ "display" \in writes /\ server["display"] < MaxWaits
    /\ server' = [server EXCEPT !["display"] = @ + 1]
    /\ UNCHANGED <<task, count, recent>> /\ RunMoves

(* The current wait appends a point, the first of which is 0.              *)
AppendProgress ==
    LET i == server["display"] IN
    /\ i # 0
    /\ \E n \in {count[i], count[i] + 1} :
          n <= MaxCount /\ count' = [count EXCEPT ![i] = n]
    /\ recent' = recent \cup {i}
    /\ UNCHANGED <<server, task>> /\ RunMoves

(* A minute passes without a point in the series of wait i.  A reply takes *)
(* less than that.                                                         *)
Age(i) ==
    /\ i \in recent
    /\ recent' = recent \ {i}
    /\ UNCHANGED <<server, task, count>> /\ RunMoves

-----------------------------------------------------------------------------
(* The poll.  Each request is one step: what the server answers, and what  *)
(* the collector does with the answer.                                     *)

PollMoves == UNCHANGED <<writes, server, task, count, recent, began, shown>>
Got(k, a) == poll' = [poll EXCEPT !.got[k] = a]
Sent(k)   == poll.on /\ poll.got[k] = "sent"
Answered(K) == \A k \in K : poll.got[k] \notin {"sent", "found"}

(* Nothing answers a search for a key that the run does not write.         *)
BeginPoll ==
    /\ ~poll.on
    /\ poll' = [NoPoll EXCEPT !.on = TRUE, !.got =
                 [k \in DOMAIN @ |-> IF k \in Keys \ writes THEN "absent" ELSE "sent"]]
    /\ began' = server
    /\ UNCHANGED <<writes, server, task, count, recent, cache, seen, shown>>

(* A search finds the key, and the cache says whether to read it.          *)
SearchAnswer(k) ==
    IF server[k] = 0 THEN "absent"
    ELSE IF k \in Identities /\ cache[k] = 0 THEN "found" ELSE "known"

(* Mutant: only a worker or a job that is new to the collector is asked    *)
(* whether it exited.                                                      *)
SearchNewExits(k) ==
    /\ k \in Gathered \ {"display"}
    /\ Sent(k)
    /\ Got(k, IF \/ k = "worker_exit" /\ cache["worker_info"] # 0
                 \/ k = "job_exit" /\ cache["job_info"] # 0
              THEN "absent" ELSE SearchAnswer(k))
    /\ UNCHANGED <<cache, seen>> /\ PollMoves

(* map_search_key, time_series_search_key                                  *)
Search(k) ==
    /\ k \in Gathered \ {"display"}
    /\ Sent(k)
    /\ Got(k, SearchAnswer(k))
    /\ UNCHANGED <<cache, seen>> /\ PollMoves

(* The names are searched along with the tasks, after the first gather.    *)
SearchNames ==
    /\ Answered(Gathered)
    /\ Sent("task_name")
    /\ Got("task_name", SearchAnswer("task_name"))
    /\ UNCHANGED <<cache, seen>> /\ PollMoves

(* A read waits for the searches it was gathered after: the two of pilot   *)
(* jobs, or those of tasks, which need no names when there is no task.     *)
MayRead(k) ==
    /\ poll.on /\ poll.got[k] = "found"
    /\ k \in {"job_info", "job_start"} =>
          poll.got["job_info"] # "sent" /\ poll.got["job_start"] # "sent"
    /\ k = "task_name" => poll.got["task_id"] = "known"

(* Mutant: what a poll reads is cached when the poll ends, if it does. *)
ReadUncached(k) ==
    /\ MayRead(k)
    /\ Got(k, "known")
    /\ UNCHANGED <<cache, seen>> /\ PollMoves

(* _pilot_job_info, _pilot_job_start, _worker_info, _task_name             *)
Read(k) ==
    /\ MayRead(k)
    /\ Got(k, "known")
    /\ cache' = [cache EXCEPT ![k] = server[k]]
    /\ UNCHANGED seen /\ PollMoves

(* _collect_progress: the display,                                         *)
ReadDisplay ==
    /\ Sent("display")
    /\ poll' = [poll EXCEPT !.wait = server["display"],
                  !.got["display"] = IF server["display"] = 0 THEN "absent" ELSE "found"]
    /\ UNCHANGED <<cache, seen>> /\ PollMoves

(* Mutant: without a recent point the wait has done nothing.               *)
ReadTailOnly ==
    /\ poll.on /\ poll.got["display"] = "found"
    /\ Got("display", "known")
    /\ seen' = [seen EXCEPT ![poll.wait] = IF poll.wait \in recent THEN count[poll.wait] ELSE 0]
    /\ UNCHANGED cache /\ PollMoves

(* and the tail of its series.                                             *)
ReadTail ==
    /\ poll.on /\ poll.got["display"] = "found"
    /\ Got("display", "known")
    /\ seen' = IF poll.wait \in recent
               THEN [seen EXCEPT ![poll.wait] = count[poll.wait]] ELSE seen
    /\ UNCHANGED cache /\ PollMoves

(* task_search_id, once the first gather is over.                          *)
SearchTasks ==
    /\ Answered(Gathered)
    /\ Sent("task_id")
    /\ Got("task_id", IF task = "none" THEN "absent" ELSE "known")
    /\ UNCHANGED <<cache, seen>> /\ PollMoves

(* task_get_status, once the names are read.                               *)
ReadStatus ==
    /\ Answered({"task_id", "task_name"}) /\ poll.got["task_id"] = "known"
    /\ Sent("status")
    /\ poll' = [poll EXCEPT !.got["status"] = "known", !.row.state = task]
    /\ UNCHANGED <<cache, seen>> /\ PollMoves

(* The name of the worker, if this poll's listing has it.                  *)
NameOf(listed) == IF task # "running" THEN "" ELSE IF listed THEN "name" ELSE "id"

HolderBecomes(w) ==
    /\ poll.got["status"] = "known" /\ poll.row.state = "running"
    /\ Sent("holder")
    /\ poll' = [poll EXCEPT !.got["holder"] = "known", !.row.worker = w]
    /\ UNCHANGED <<cache, seen>> /\ PollMoves

(* Mutant: the tasks are given the workers that the snapshot shows. *)
HolderIfShown ==
    HolderBecomes(NameOf(poll.got["worker_info"] = "known" /\ poll.got["worker_exit"] = "absent"))

(* _holder: the task may have left Running since the status was read.      *)
Holder == HolderBecomes(NameOf(poll.got["worker_info"] = "known"))

(* Everything the snapshot holds is read.                                  *)
Ready ==
    /\ poll.on
    /\ Answered(Gathered)
    /\ IF poll.got["task_id"] = "known"
       THEN Answered({"task_name", "status"}) /\ (poll.row.state = "running" => Answered({"holder"}))
       ELSE poll.got["task_id"] = "absent" /\ poll.got["task_name"] # "sent"

(* The rows of the snapshot: the keys found, without those that exited.    *)
Listed(k) == poll.got[k] = "known"
ShowsJob    == Listed("job_info") /\ ~Listed("job_exit")
ShowsWorker == Listed("worker_info") /\ ~Listed("worker_exit")
ShowsSeries == Listed("job_series") /\ ~(Listed("job_info") /\ Listed("job_exit"))
ShowsTask   == Listed("task_id")

EndPoll ==
    /\ Ready
    /\ poll' = NoPoll
    /\ shown' = IF Listed("display") THEN [wait |-> poll.wait, done |-> seen[poll.wait]]
                ELSE Nothing
    /\ UNCHANGED <<writes, server, task, count, recent, cache, seen, began>>

(* A request raises, and the poll with it: the caches keep what was read.  *)
(* What the other requests still bring counts as read before, or not.      *)
FailPoll ==
    /\ poll.on /\ ~Ready
    /\ poll' = NoPoll
    /\ UNCHANGED <<cache, seen>> /\ PollMoves

-----------------------------------------------------------------------------
RunStep == SetTaskName \/ TaskMoves \/ PublishDisplay \/ AppendProgress
           \/ (\E k \in Keys : Publish(k)) \/ (\E i \in Waits : Age(i))

PollStep == BeginPoll \/ SearchNames \/ ReadDisplay \/ ReadTail \/ SearchTasks
            \/ ReadStatus \/ Holder \/ EndPoll \/ FailPoll
            \/ (\E k \in Keys : Search(k)) \/ (\E k \in Identities : Read(k))

Next == RunStep \/ PollStep

Spec == Init /\ [][Next]_vars

-----------------------------------------------------------------------------
(* Safety.  The server goes on while a poll reads it, request by request,  *)
(* so a snapshot is of no single moment; yet                               *)

(* a pilot job, a worker and a Slurm job are in it if they were there when *)
(* the poll began and have not exited yet, and are not in it if they had   *)
(* published their exit when the poll began; a task if it was there; and   *)
(* each row shows what the server holds, unless that changed meanwhile.    *)
Was(k) == began[k] # 0

RowsAreTrue ==
    Ready =>
        /\ Was("job_info") /\ server["job_exit"] = 0 => ShowsJob
        /\ Was("job_exit") => ~ShowsJob
        /\ Was("worker_info") /\ server["worker_exit"] = 0 => ShowsWorker
        /\ Was("worker_exit") => ~ShowsWorker
        /\ Was("job_series") /\ server["job_exit"] = 0 => ShowsSeries
        /\ Was("job_info") /\ Was("job_exit") => ~ShowsSeries
        /\ \A k \in {"job_info", "job_start", "worker_info"} :
              began[k] = server[k] => cache[k] = server[k]
        /\ Was("task_name") => ShowsTask /\ cache["task_name"] # 0

(* "The tasks need every worker, since a worker that just exited can still *)
(* hold a task": a running task shows the name of a worker that registered *)
(* before the poll, and never its id, also when the worker exited.         *)
HolderIsNamed ==
    Ready /\ poll.row.state = "running" /\ Was("worker_info") =>
        poll.row.worker # "id" /\ (task = "running" => poll.row.worker = "name")

(* "A display that no longer moves still shows where it stopped": the      *)
(* progress of a wait never goes back, and is never that of another wait,  *)
(* however long ago its last point was and whichever polls failed.         *)
ProgressNeverBack ==
    [][/\ shown.wait <= shown'.wait
       /\ shown.wait = shown'.wait => shown.done <= shown'.done
       /\ shown'.wait # 0 => shown'.done <= count[shown'.wait]]_vars

(* "A name published after the executor submitted the task appears at the  *)
(* next poll": a poll during which the task is not named shows its name.   *)
NameIsCurrent ==
    Ready /\ Was("task_name") /\ began["task_name"] = server["task_name"] =>
        cache["task_name"] = server["task_name"]

=============================================================================
