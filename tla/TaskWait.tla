------------------------------ MODULE TaskWait ------------------------------
(***************************************************************************)
(* wait and as_completed: the driver polls the states of a list of tasks,  *)
(* reads the outputs of those that ended, gives up on those whose queues   *)
(* have no pilot job, and applies a RaiseOnError policy.                   *)
(*                                                                         *)
(* Around it: the ds-service task queue with its parents and its failures  *)
(* that spread to children, the workers that claim and report, and the     *)
(* pilot jobs of each queue, which stand here for all jobs of that group.  *)
(***************************************************************************)
EXTENDS Naturals, Sequences, FiniteSets, Functions, Filter

CONSTANTS
    Tasks, Queues,
    QueuesOf,       \* the queues each task is on
    Parents,        \* task_parents of each task
    Fetched,        \* the tasks with _fetch_output
    Lists,          \* the lists of tasks the driver waits on
    Policies,       \* the RaiseOnError values it passes
    MaxCalls        \* bound on calls of wait and as_completed

First == "RAISE_ON_FIRST_ERROR"
After == "RAISE_AFTER_COMPLETED"
Never == "RAISE_NEVER"

ASSUME ConstantsOK ==
    /\ QueuesOf \in [Tasks -> (SUBSET Queues) \ {{}}]
    /\ Parents \in [Tasks -> SUBSET Tasks]
    /\ Fetched \subseteq Tasks
    /\ Lists \subseteq Seq(Tasks)
    /\ Policies \subseteq {First, After, Never}
    /\ MaxCalls \in Nat

VARIABLES
    (* The server, the workers and Slurm. *)
    server,     \* what the server holds of each task
    runner,     \* the queue of the worker that runs each task
    tracked,    \* the queues whose group has jobs in group.jobs
    running,    \* the queues squeue lists a job for
    (* The driver. *)
    submitted,  \* the tasks it has handles of
    output,     \* task.output
    call,       \* number, tasks, policy and kind of the last call
    phase,      \* where the call stands
    held,       \* the generator waits for its caller
    pending,    \* pending
    todo,       \* the tasks the current loop has not reached
    kept,       \* next_pending
    states,     \* the states of the last poll
    unfinished, \* the ancestors the last check found unfinished
    (* What the call did so far. *)
    yielded,    \* the tasks it yielded
    starved,    \* the tasks _starved_tasks dropped
    stranded,   \* the tasks _stranded_tasks dropped
    dead,       \* the tasks it found canceled or unknown
    failures,   \* failures
    done,       \* done, in _counted
    sent,       \* the last value of the progress series
    outcome     \* how the call ended

serverVars == <<server, runner, tracked, running>>
handleVars == <<submitted, output>>
loopVars   == <<pending, todo, kept, states, unfinished>>
dropVars   == <<starved, stranded, dead, failures>>
countVars  == <<yielded, done, sent>>
vars == <<serverVars, handleVars, call, phase, held, loopVars, dropVars, countVars,
          outcome>>

-----------------------------------------------------------------------------
Nobody   == "nobody"
Blocking == {"waiting", "ready", "running"}
Failed   == {"failed", "dependency"}    \* by its worker, or with a parent
Ended    == {"finished", "canceled"} \cup Failed
State    == {"undefined"} \cup Blocking \cup Ended
Phase    == {"idle", "start", "cached", "poll", "round", "check", "squeue", "end"}

TypeOK ==
    /\ server \in [Tasks -> State]
    /\ runner \in [Tasks -> Queues \cup {Nobody}]
    /\ tracked \subseteq Queues /\ running \subseteq Queues
    /\ submitted \subseteq Tasks
    /\ output \in [Tasks -> {"none", "value", "error", "dependency"}]
    /\ call \in [number : 0..MaxCalls, tasks : Lists \cup {<<>>},
                 policy : Policies \cup {First}, lazy : BOOLEAN]
    /\ phase \in Phase /\ held \in BOOLEAN
    /\ \A s \in {pending, todo, kept} : Range(s) \subseteq Range(call.tasks)
    /\ states \in [Tasks -> State]
    /\ unfinished \subseteq Tasks
    /\ \A s \in {yielded, starved, stranded, dead} : s \subseteq Tasks
    /\ failures \in Nat /\ done \in Nat /\ sent \in 0..done
    /\ outcome \in {"none", "returned", "raised", "broken", "abandoned"}

(* What a walk upwards from each task finds: the least set that holds what *)
(* is next above the task and above every task of the set.                 *)
Above(up) ==
    [t \in Tasks |->
        {u \in Tasks : \A A \in SUBSET Tasks :
                          up[t] \cup UNION {up[a] : a \in A} \subseteq A => u \in A}]

(* Everything above a task, and everything below it. *)
Ancestors == Above(Parents)
Descendants(t) == {d \in Tasks : t \in Ancestors[d]}

Init ==
    /\ server = [t \in Tasks |-> "undefined"]
    /\ runner = [t \in Tasks |-> Nobody]
    /\ tracked = {} /\ running = {}
    /\ submitted = {} /\ output = [t \in Tasks |-> "none"]
    /\ call \in [number : {0}, tasks : {<<>>}, policy : Policies, lazy : {FALSE}]
    /\ phase = "idle" /\ held = FALSE
    /\ pending = <<>> /\ todo = <<>> /\ kept = <<>>
    /\ states = [t \in Tasks |-> "undefined"] /\ unfinished = {}
    /\ yielded = {} /\ starved = {} /\ stranded = {} /\ dead = {}
    /\ failures = 0 /\ done = 0 /\ sent = 0
    /\ outcome = "none"

-----------------------------------------------------------------------------
(* The server and the workers.                                             *)

QueueStep == UNCHANGED <<tracked, running, handleVars, call, phase, held, loopVars,
                         dropVars, countVars, outcome>>

(* A worker claims a ready task. *)
ClaimTask(t) ==
    /\ server[t] = "ready"
    /\ server' = [server EXCEPT ![t] = "running"]
    /\ \E q \in QueuesOf[t] \cap running : runner' = [runner EXCEPT ![t] = q]
    /\ QueueStep

(* task_done; a child is ready after its last parent. *)
FinishTask(t) ==
    /\ server[t] = "running" /\ runner[t] # Nobody
    /\ server' = [u \in Tasks |->
                    IF u = t THEN "finished"
                    ELSE IF server[u] = "waiting"
                            /\ \A p \in Parents[u] \ {t} : server[p] = "finished"
                    THEN "ready" ELSE server[u]]
    /\ runner' = [runner EXCEPT ![t] = Nobody]
    /\ QueueStep

(* task_done with failed=True, which fails every task below. *)
FailTask(t) ==
    /\ server[t] = "running" /\ runner[t] # Nobody
    /\ server' = [u \in Tasks |-> IF u = t THEN "failed"
                                  ELSE IF u \in Descendants(t) /\ server[u] = "waiting"
                                  THEN "dependency" ELSE server[u]]
    /\ runner' = [runner EXCEPT ![t] = Nobody]
    /\ QueueStep

(* The worker dies, or every try of its report fails, or the reply to its  *)
(* claim is lost: the task stays Running and nobody runs it.               *)
LoseTask(t) ==
    /\ server[t] = "running" /\ runner[t] # Nobody
    /\ runner' = [runner EXCEPT ![t] = Nobody]
    /\ UNCHANGED server
    /\ QueueStep

(* task_cancel, called by somebody else, cancels every task below. *)
CancelTask(t) ==
    /\ server[t] \in Blocking
    /\ server' = [u \in Tasks |-> IF u = t \/ (u \in Descendants(t) /\ server[u] = "waiting")
                                  THEN "canceled" ELSE server[u]]
    /\ runner' = [runner EXCEPT ![t] = Nobody]
    /\ QueueStep

(* The server restarts and knows no task any more. *)
RestartServer ==
    /\ server # [t \in Tasks |-> "undefined"]
    /\ server' = [t \in Tasks |-> "undefined"]
    /\ runner' = [t \in Tasks |-> Nobody]
    /\ QueueStep

(* The last pilot job on queue q ends, with whatever its workers ran. *)
EndJobs(q) ==
    /\ q \in running
    /\ running' = running \ {q}
    /\ runner' = [t \in Tasks |-> IF runner[t] = q THEN Nobody ELSE runner[t]]
    /\ UNCHANGED <<server, tracked, handleVars, call, phase, held, loopVars, dropVars,
                   countVars, outcome>>

-----------------------------------------------------------------------------
(* The driver outside the loop: between two calls, or while the generator  *)
(* of as_completed waits for it.                                           *)

DriverFree == phase = "idle" \/ held

(* _submit, on a server that knows every parent. *)
Submit(t) ==
    /\ DriverFree /\ t \notin submitted
    /\ \A p \in Parents[t] : p \in submitted /\ server[p] # "undefined"
    /\ submitted' = submitted \cup {t}
    /\ server' = [server EXCEPT ![t] =
                    IF \E p \in Parents[t] : server[p] \in Failed THEN "dependency"
                    ELSE IF \E p \in Parents[t] : server[p] = "canceled" THEN "canceled"
                    ELSE IF \E p \in Parents[t] : server[p] # "finished" THEN "waiting"
                    ELSE "ready"]
    /\ UNCHANGED <<runner, tracked, running, output, call, phase, held, loopVars,
                   dropVars, countVars, outcome>>

(* scale_jobs submits a pilot job for queue q. *)
ScaleUp(q) ==
    /\ DriverFree
    /\ q \notin tracked \cap running
    /\ tracked' = tracked \cup {q}
    /\ running' = running \cup {q}
    /\ UNCHANGED <<server, runner, handleVars, call, phase, held, loopVars, dropVars,
                   countVars, outcome>>

(* stop, or scale_jobs to 0, forgets the jobs; Slurm ends them later. *)
ForgetJobs(q) ==
    /\ DriverFree /\ q \in tracked
    /\ tracked' = tracked \ {q}
    /\ UNCHANGED <<server, runner, running, handleVars, call, phase, held, loopVars,
                   dropVars, countVars, outcome>>

(* wait, or as_completed when lazy, up to the first request of the loop.   *)
(* as_completed takes RAISE_AFTER_COMPLETED for RAISE_ON_FIRST_ERROR.      *)
BeginCall(list, policy, lazy) ==
    /\ phase = "idle" /\ call.number < MaxCalls
    /\ Range(list) \subseteq submitted
    /\ call' = [number |-> call.number + 1, tasks |-> list, lazy |-> lazy,
                policy |-> IF lazy /\ policy = After THEN First ELSE policy]
    /\ phase' = "start" /\ held' = lazy
    /\ pending' = Only(list, {t \in Tasks : output[t] = "none"})
    /\ todo' = Only(list, {t \in Tasks : output[t] # "none"})
    /\ kept' = <<>> /\ unfinished' = {}
    /\ states' = [t \in Tasks |-> "undefined"]
    /\ yielded' = {} /\ starved' = {} /\ stranded' = {} /\ dead' = {}
    /\ failures' = 0 /\ done' = 0 /\ sent' = 0
    /\ outcome' = "none"
    /\ UNCHANGED <<serverVars, handleVars>>

(* The caller of as_completed asks for the next task. *)
Resume ==
    /\ held
    /\ held' = FALSE
    /\ UNCHANGED <<serverVars, handleVars, call, phase, loopVars, dropVars, countVars,
                   outcome>>

-----------------------------------------------------------------------------
(* The loop.                                                               *)

At(p) == phase = p /\ ~held
Goto(p) == phase' = p /\ held' = FALSE

(* The call ends, its locals go away, and _counted appends the final count *)
(* n, or that request fails, after it arrived or before, and raises.       *)
LeaveWith(how, n) ==
    /\ Goto("idle")
    /\ pending' = <<>> /\ todo' = <<>> /\ kept' = <<>>
    /\ states' = [t \in Tasks |-> "undefined"] /\ unfinished' = {}
    /\ done' = n
    /\ \/ outcome' = how /\ sent' = n
       \/ outcome' = "broken" /\ sent' \in {sent, n}
    /\ UNCHANGED yielded

Leave(how) == LeaveWith(how, done)

(* The append of record fails: the next task is counted and not yielded.   *)
CountFails == LeaveWith("broken", done + 1)

(* Mutant: the count goes out before the task is counted. *)
YieldUncounted(t, p) ==
    /\ yielded' = yielded \cup {t}
    /\ sent' = done + 1
    /\ phase' = p /\ held' = call.lazy
    /\ UNCHANGED <<done, outcome>>

(* Yield a task: count it, send the count unless one was sent just now,    *)
(* and go on at p when the caller asks for more.                           *)
Yield(t, p) ==
    /\ yielded' = yielded \cup {t}
    /\ done' = done + 1
    /\ sent' \in {done + 1} \cup (IF done + 1 < Len(call.tasks) THEN {sent} ELSE {})
    /\ phase' = p /\ held' = call.lazy
    /\ UNCHANGED outcome

(* failed: the first failure may be the last. *)
RaisesNow == call.policy = First

(* Mutants: every ancestor, finished or not; no ancestor. *)
NeededByAll(open) ==
    [t \in Tasks |-> {QueuesOf[u] : u \in {t} \cup Ancestors[t]}]

NeededByNone(open) == [t \in Tasks |-> {QueuesOf[t]}]

(* The queues a task and its unfinished ancestors need. *)
Needed(open) ==
    LET blocking == Above([t \in Tasks |-> Parents[t] \cap open])
    IN  [t \in Tasks |-> {QueuesOf[u] : u \in {t} \cup blocking[t]}]

(* The unfinished ones among the ancestors of the pending tasks. *)
OpenAncestors ==
    {p \in UNION {Ancestors[t] : t \in Range(pending)} : server[p] \in Blocking}

(* The pending tasks that need a queue with no job in served. *)
Unserved(open, served) ==
    {t \in Range(pending) : \E qs \in Needed(open)[t] : qs \cap served = {}}

(* Mutant: the wait abandons all pending tasks. *)
DropAll(unserved, p, q) ==
    /\ failures' = failures + Cardinality(unserved)
    /\ IF unserved # {} /\ RaisesNow
       THEN Leave("raised")
       ELSE /\ Goto(IF unserved # {} THEN p ELSE q)
            /\ pending' = IF unserved # {} THEN <<>> ELSE pending
            /\ unfinished' = {}
            /\ UNCHANGED <<todo, kept, states, countVars, outcome>>

(* drop: report the tasks, then raise, or wait for the others. *)
Drop(unserved, p, q) ==
    /\ failures' = failures + Len(Only(pending, unserved))
    /\ LET rest == Only(pending, Tasks \ unserved) IN
        IF unserved # {} /\ RaisesNow
        THEN Leave("raised")
        ELSE /\ Goto(IF rest = <<>> THEN p ELSE q)
             /\ pending' = rest
             /\ unfinished' = {}
             /\ UNCHANGED <<todo, kept, states, countVars, outcome>>

(* _starved_tasks, before the first yield. *)
CheckStarved ==
    /\ At("start")
    /\ starved' = Unserved(OpenAncestors, tracked)
    /\ Drop(starved', "cached", "cached")
    /\ UNCHANGED <<serverVars, handleVars, call, stranded, dead>>

(* Mutant: the old results come before the first check. *)
YieldCachedEarly ==
    /\ \E p \in {"start", "cached"} : At(p) /\ todo # <<>> /\ Yield(Head(todo), p)
    /\ todo' = Tail(todo)
    /\ UNCHANGED <<serverVars, handleVars, call, pending, kept, states, unfinished,
                   dropVars>>

GoOn == todo' = Tail(todo) /\ UNCHANGED <<pending, states, unfinished>>

(* The task goes to the caller, unless its count raises. *)
Deliver(t, p) ==
    \/ Yield(t, p) /\ GoOn /\ UNCHANGED kept
    \/ CountFails

(* yield from finished *)
YieldCached ==
    /\ At("cached") /\ todo # <<>>
    /\ Deliver(Head(todo), "cached")
    /\ UNCHANGED <<serverVars, handleVars, call, dropVars>>

(* while pending *)
Loop(rest) == IF rest = <<>> THEN "end" ELSE "poll"

StartLoop ==
    /\ At("cached") /\ todo = <<>>
    /\ Goto(Loop(pending))
    /\ UNCHANGED <<serverVars, handleVars, call, loopVars, dropVars, countVars, outcome>>

(* One request for the states of all pending tasks. *)
Poll ==
    /\ At("poll")
    /\ states' = server
    /\ todo' = pending /\ kept' = <<>>
    /\ Goto("round")
    /\ UNCHANGED <<serverVars, handleVars, call, pending, unfinished, dropVars,
                   countVars, outcome>>

(* The next task of the round, and the way on to the one after it. *)
Reach(t, s) ==
    /\ At("round") /\ todo # <<>> /\ t = Head(todo)
    /\ states[t] \in s
    /\ UNCHANGED <<serverVars, submitted, call, starved, stranded>>

(* Mutant: an output that is gone is passed over. *)
TakeFinishedAnyway(t) ==
    /\ Reach(t, {"finished"})
    /\ output' = IF t \in Fetched /\ server[t] = "finished"
                 THEN [output EXCEPT ![t] = "value"] ELSE output
    /\ Deliver(t, "round")
    /\ UNCHANGED <<dead, failures>>

(* Finished: read the output, unless only another task reads it. *)
TakeFinished(t) ==
    /\ Reach(t, {"finished"})
    /\ IF t \in Fetched
       THEN server[t] = "finished" /\ output' = [output EXCEPT ![t] = "value"]
       ELSE UNCHANGED output
    /\ Deliver(t, "round")
    /\ UNCHANGED <<dead, failures>>

(* Failed: read the output, which tells who failed; warn; raise or yield. *)
TakeFailed(t) ==
    /\ Reach(t, Failed)
    /\ server[t] \in Failed
    /\ output' = [output EXCEPT ![t] =
                    IF server[t] = "dependency" THEN "dependency" ELSE "error"]
    /\ failures' = failures + 1
    /\ IF RaisesNow THEN Leave("raised") ELSE Deliver(t, "round")
    /\ UNCHANGED dead

(* The server lost the output since the poll: task_get_output raises. *)
MissOutput(t) ==
    /\ Reach(t, {"finished"} \cup Failed) /\ server[t] = "undefined"
    /\ states[t] = "finished" => t \in Fetched
    /\ Leave("broken")
    /\ UNCHANGED <<output, dead, failures>>

(* Canceled or Undefined: warn, and never yield it. *)
TakeDead(t) ==
    /\ Reach(t, {"canceled", "undefined"})
    /\ dead' = dead \cup {t}
    /\ failures' = failures + 1
    /\ IF RaisesNow THEN Leave("raised")
       ELSE Goto("round") /\ GoOn /\ UNCHANGED <<kept, countVars, outcome>>
    /\ UNCHANGED output

(* Any other state: keep waiting. *)
TakePending(t) ==
    /\ Reach(t, Blocking)
    /\ kept' = Append(kept, t)
    /\ Goto("round") /\ GoOn
    /\ UNCHANGED <<output, dead, failures, countVars, outcome>>

(* The round is over; poll again, or look at the queues first when the     *)
(* time for that has come.                                                 *)
EndRound ==
    /\ At("round") /\ todo = <<>>
    /\ pending' = kept /\ kept' = <<>>
    /\ states' = [t \in Tasks |-> "undefined"]
    /\ phase' \in {Loop(kept)} \cup (IF kept = <<>> THEN {} ELSE {"check"})
    /\ UNCHANGED <<serverVars, handleVars, call, held, todo, unfinished, dropVars,
                   countVars, outcome>>

(* _stranded_tasks asks the server about the ancestors, then squeue. *)
CheckAncestors ==
    /\ At("check")
    /\ unfinished' = OpenAncestors
    /\ Goto("squeue")
    /\ UNCHANGED <<serverVars, handleVars, call, pending, todo, kept, states, dropVars,
                   countVars, outcome>>

(* _live_queues: the queues of the tracked jobs squeue lists. *)
LiveQueues == tracked \cap running

(* Mutant: the check drops nothing. *)
CheckStrandedInVain ==
    /\ At("squeue")
    /\ Drop({}, "end", "poll")
    /\ UNCHANGED <<serverVars, handleVars, call, dropVars>>

(* squeue answers. *)
CheckStranded ==
    /\ At("squeue")
    /\ LET unserved == Unserved(unfinished, LiveQueues) IN
        /\ stranded' = stranded \cup unserved
        /\ Drop(unserved, "end", "poll")
    /\ UNCHANGED <<serverVars, handleVars, call, starved, dead>>

(* squeue fails or times out: nothing is known, and nothing dropped. *)
SqueueFails ==
    /\ At("squeue")
    /\ Goto("poll")
    /\ unfinished' = {}
    /\ UNCHANGED <<serverVars, handleVars, call, pending, todo, kept, states, dropVars,
                   countVars, outcome>>

(* Mutant: off by one. *)
FinishLenient ==
    /\ At("end")
    /\ Leave(IF failures > 1 /\ call.policy = After THEN "raised" ELSE "returned")
    /\ UNCHANGED <<serverVars, handleVars, call, dropVars>>

(* No task is pending: return, or raise for all failures together. *)
Finish ==
    /\ At("end")
    /\ Leave(IF failures > 0 /\ call.policy = After THEN "raised" ELSE "returned")
    /\ UNCHANGED <<serverVars, handleVars, call, dropVars>>

(* A request to the server fails, which nothing catches. *)
Break ==
    /\ \E p \in {"start", "poll", "round", "check"} : At(p)
    /\ Leave("broken")
    /\ UNCHANGED <<serverVars, handleVars, call, dropVars>>

(* The caller of as_completed leaves its loop. *)
Abandon ==
    /\ held
    /\ Leave("abandoned")
    /\ UNCHANGED <<serverVars, handleVars, call, dropVars>>

-----------------------------------------------------------------------------
WorkerStep == \E t \in Tasks : ClaimTask(t) \/ FinishTask(t) \/ FailTask(t)

Fault ==
    \/ \E t \in Tasks : LoseTask(t) \/ CancelTask(t)
    \/ \E q \in Queues : EndJobs(q)
    \/ RestartServer

DriverCall ==
    \/ \E t \in Tasks : Submit(t)
    \/ \E q \in Queues : ScaleUp(q) \/ ForgetJobs(q)
    \/ \E list \in Lists, policy \in Policies, lazy \in BOOLEAN :
            BeginCall(list, policy, lazy)

LoopStep ==
    \/ Resume \/ CheckStarved \/ YieldCached \/ StartLoop \/ Poll \/ EndRound
    \/ CheckAncestors \/ CheckStranded \/ SqueueFails \/ Finish
    \/ \E t \in Tasks : \/ TakeFinished(t) \/ TakeFailed(t) \/ MissOutput(t)
                       \/ TakeDead(t) \/ TakePending(t)

Next == WorkerStep \/ Fault \/ DriverCall \/ LoopStep \/ Break \/ Abandon

Spec == Init /\ [][Next]_vars

-----------------------------------------------------------------------------
(* Safety.                                                                 *)

GivenUp == starved \cup stranded \cup dead

(* Every task of the list meets one fate: when a call ends in good order,  *)
(* that is by a return or by the exception RAISE_AFTER_COMPLETED defers,   *)
(* it yielded each task as often as the list names it, or gave up on it,   *)
(* and never did both.                                                     *)
InGoodOrder == outcome = "returned" \/ (outcome = "raised" /\ call.policy = After)

EveryTaskHasOneFate ==
    /\ yielded \cap GivenUp = {}
    /\ InGoodOrder =>
          /\ yielded \cup GivenUp = Range(call.tasks)
          /\ done = Len(Only(call.tasks, yielded))

(* "Both calls give up only on the tasks that cannot finish.  Unless the   *)
(* policy raises at once, they still wait for the rest of the tasks": a    *)
(* task that somebody waited for to the end either was given up or has its *)
(* output in the handle, unless its output is left on the server.  And an  *)
(* output tells what became of the task: a child of a failed task is told  *)
(* from one that failed itself, also after the server restarted.           *)
OutputsAreHome ==
    /\ InGoodOrder =>
          \A t \in Range(call.tasks) \ GivenUp : t \in Fetched => output[t] # "none"
    /\ \A t \in Tasks : output[t] # "none" =>
          server[t] \in {"undefined",
                         CASE output[t] = "value" -> "finished"
                           [] output[t] = "error" -> "failed"
                           [] output[t] = "dependency" -> "dependency"}

(* The policy decides, and the failures of the whole list count:           *)
(* RAISE_NEVER never raises, and no other policy returns after a failure.  *)
(* It follows from PromiseKept, which the run checks.                      *)
PolicyIsKept ==
    /\ failures > 0 /\ outcome = "returned" => call.policy = Never
    /\ outcome = "raised" => failures > 0 /\ call.policy # Never

(* The first check comes before the first yield: a call that raises for a  *)
(* queue nobody scaled has shown its caller nothing.                       *)
StarvedRaisesFirst ==
    starved # {} /\ call.policy = First => yielded = {}

(* A task that cannot finish before the driver scales up: it, or a task    *)
(* above it, waits for a queue that squeue lists no job for.               *)
Hopeless(t) ==
    \E u \in {t} \cup Ancestors[t] :
        server[u] \in Blocking /\ QueuesOf[u] \cap running = {}

(* The periodic check drops no task that could still finish.  It looks at  *)
(* the queues of the tasks its request found unfinished, and of no others: *)
(* if none of those ended since, and no job is left that the driver        *)
(* forgot, what it drops is hopeless.  And hopeless is final: whatever the *)
(* workers, other users and the server do, no step that starts no pilot    *)
(* job makes such a task ready to run to its end: it goes on being         *)
(* hopeless, or ends otherwise than by finishing.                          *)
StrandedNeverFinishes ==
    [][ /\ running \subseteq tracked =>
             \A t \in stranded' \ stranded :
                (\A u \in {t} \cup (Ancestors[t] \cap unfinished) : server[u] \in Blocking)
                   => Hopeless(t)
        /\ running' \subseteq running =>
             \A t \in Tasks : Hopeless(t) =>
                Hopeless(t)' \/ server'[t] \notin Blocking \cup {"finished"} ]_vars

-----------------------------------------------------------------------------
(* Refinement.                                                             *)

(* A call keeps the promise of WaitPromise, through its polls, its rounds  *)
(* and both checks: it goes on until each task of its list is accounted    *)
(* for, gives none up after it gave it or the other way round, and raises  *)
(* at the moment its policy says.  Its progress series ends at the number  *)
(* of tasks it gave, although most values are too soon after another to be *)
(* sent, unless a request failed.                                          *)
Status == IF phase # "idle" THEN "open" ELSE IF outcome = "none" THEN "idle" ELSE outcome

Promise ==
    INSTANCE WaitPromise WITH
        list <- call.tasks, policy <- call.policy, given <- yielded, gone <- GivenUp,
        count <- done, shown <- sent, failed <- failures > 0, status <- Status

PromiseKept == Promise!Spec

-----------------------------------------------------------------------------
(* A claim of the documentation that the code does not keep.               *)

(* "Both calls give up only on the tasks that cannot finish": a task that  *)
(* a check drops has not finished, at the first check or since the poll,   *)
(* and no live queue may still run it because a task above it finished.    *)
(* Jobs that the driver forgot and that still run are left out.            *)
GivesUpOnlyHopeless ==
    [][\A t \in (starved' \cup stranded') \ (starved \cup stranded) :
         /\ server[t] # "finished"
         /\ running \subseteq tracked /\ server[t] \in Blocking => Hopeless(t)]_vars

-----------------------------------------------------------------------------
(* Liveness.                                                               *)

(* The driver runs and asks for every task, its clock reaches the next     *)
(* check again and again, and squeue answers now and then.                 *)
DriverFairness ==
    /\ WF_vars(LoopStep)
    /\ SF_vars(EndRound /\ phase' = "check")
    /\ SF_vars(CheckStranded)

FairSpec == Spec /\ DriverFairness

(* Every pilot job ends.  Nothing is assumed of workers.                   *)
JobsEnd == \A q \in Queues : WF_vars(EndJobs(q))

(* Some worker claims every task it can, and every task ends.  Nothing is  *)
(* assumed of pilot jobs, which may run on for ever.                       *)
WorkersRun ==
    \A t \in Tasks : WF_vars(ClaimTask(t)) /\ WF_vars(FinishTask(t) \/ FailTask(t))

(* No call waits for ever, whatever the workers and the server do, because *)
(* a task that never ends loses the pilot jobs of its queues.              *)
CallEnds == JobsEnd => (phase # "idle" ~> phase = "idle")

(* Nor does it need a job to end, unless a running task was lost.          *)
Lost(t) == server[t] = "running" /\ runner[t] = Nobody

CallEndsWithTheTasks ==
    WorkersRun => (phase # "idle" ~> phase = "idle" \/ \E t \in Tasks : Lost(t))

=============================================================================
