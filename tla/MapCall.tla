------------------------------ MODULE MapCall ------------------------------
(***************************************************************************)
(* One call of map or map_reduce.  The driver puts every item on an item   *)
(* queue, submits the map tasks that drain it and, for map_reduce, the     *)
(* reduce task below them, and waits.  Each map task claims items until it *)
(* finds none, and returns the fold of those it claimed.                   *)
(*                                                                         *)
(* A fold is the number of times it holds each item.  What wait and        *)
(* as_completed do is in TaskWait: here they take the outputs of the       *)
(* finished tasks, and raise for the first failed one of the list.         *)
(***************************************************************************)
EXTENDS Naturals, FiniteSets, FiniteSetsExt

CONSTANTS
    MaxItems,   \* bound on the items of the iterable
    MaxTasks    \* bound on num_tasks

ASSUME ConstantsOK == MaxItems \in Nat \ {0} /\ MaxTasks \in Nat \ {0}

VARIABLES
    (* The driver. *)
    call,       \* [reduce, items, tasks]: what is called, with how many
    phase,      \* where the call stands
    taken,      \* the tasks as_completed yielded
    answer,     \* values, or the output of the reduce task
    outcome,    \* how the call ended
    (* The server. *)
    item,       \* the states of the item tasks
    task,       \* the states of the map tasks and of the reduce task
    (* The workers. *)
    at,         \* where the worker of each task stands
    cur,        \* the item a map task claimed last; the partials folded
    fold        \* result, or values, of each task

driverVars == <<call, phase, taken, answer, outcome>>
workerVars == <<at, cur, fold>>
vars == <<driverVars, item, task, workerVars>>

-----------------------------------------------------------------------------
Items    == 1..MaxItems
MapTasks == 1..MaxTasks
Reduce   == 0
Tasks    == {Reduce} \cup MapTasks
Empty    == [i \in Items |-> 0]
Plus(f, g) == [i \in Items |-> f[i] + g[i]]

(* No more map tasks than items. *)
NumTasks == Min({call.tasks, call.items})

(* The list the call waits on; the reduce task comes last. *)
Waited == 1..NumTasks \cup (IF call.reduce THEN {Reduce} ELSE {})

TypeOK ==
    /\ call \in [reduce : BOOLEAN, items : 0..MaxItems, tasks : MapTasks]
    /\ phase \in {"idle", "enqueue", "submit", "reduce", "wait", "done"}
    /\ taken \subseteq Tasks
    /\ answer \in [Items -> 0..1]
    /\ outcome \in {"none", "returned", "failed", "dependency", "missing", "broken"}
    /\ item \in [Items -> {"none", "ready", "running", "finished"}]
    /\ task \in [Tasks -> {"none", "waiting", "ready", "running", "finished",
                           "failed", "dependency"}]
    /\ at \in [Tasks -> {"start", "claim", "fold", "done", "end", "lost"}]
    /\ cur \in [Tasks -> Nat]
    /\ fold \in [Tasks -> [Items -> 0..1]]

Init ==
    /\ call \in [reduce : BOOLEAN, items : 0..MaxItems, tasks : MapTasks]
    /\ phase = "idle" /\ taken = {} /\ answer = Empty /\ outcome = "none"
    /\ item = [i \in Items |-> "none"]
    /\ task = [t \in Tasks |-> "none"]
    /\ at = [t \in Tasks |-> "start"]
    /\ cur = [t \in Tasks |-> 0]
    /\ fold = [t \in Tasks |-> Empty]

-----------------------------------------------------------------------------
(* The driver.                                                             *)

Leave(how) == phase' = "done" /\ outcome' = how

(* An empty iterable is answered at once, and a queue that no pilot job    *)
(* was submitted for is refused before anything reaches the server.        *)
BeginCall ==
    /\ phase = "idle"
    /\ IF call.items = 0 THEN Leave("returned")
       ELSE \/ phase' = "enqueue" /\ UNCHANGED outcome
            \/ Leave("broken")
    /\ UNCHANGED <<call, taken, answer, item, task, workerVars>>

(* _enqueue_items *)
EnqueueItem(i) ==
    /\ phase = "enqueue"
    /\ item[i] = "none" /\ \A h \in 1..i-1 : item[h] # "none"
    /\ item' = [item EXCEPT ![i] = "ready"]
    /\ phase' = IF i = call.items THEN "submit" ELSE "enqueue"
    /\ UNCHANGED <<call, taken, answer, outcome, task, workerVars>>

(* _submit_map_tasks *)
SubmitMapTask(t) ==
    /\ phase = "submit"
    /\ task[t] = "none" /\ \A u \in 1..t-1 : task[u] # "none"
    /\ task' = [task EXCEPT ![t] = "ready"]
    /\ phase' = IF t # NumTasks THEN "submit" ELSE IF call.reduce THEN "reduce" ELSE "wait"
    /\ UNCHANGED <<call, taken, answer, outcome, item, workerVars>>

(* The state of the reduce task, given those of its parents. *)
ReduceState(parents) ==
    IF "failed" \in parents THEN "dependency"
    ELSE IF parents = {"finished"} THEN "ready" ELSE "waiting"

States(map) == {map[t] : t \in 1..NumTasks}

SubmitReduce ==
    /\ phase = "reduce"
    /\ task' = [task EXCEPT ![Reduce] = ReduceState(States(task))]
    /\ phase' = "wait"
    /\ UNCHANGED <<call, taken, answer, outcome, item, workerVars>>

(* The wait reads a finished task; map_reduce leaves the partial results.  *)
TakeOutput(t) ==
    /\ phase = "wait"
    /\ t \in Waited \ taken /\ task[t] = "finished"
    /\ taken' = taken \cup {t}
    /\ answer' = IF call.reduce /\ t # Reduce THEN answer ELSE Plus(answer, fold[t])
    /\ UNCHANGED <<call, phase, outcome, item, task, workerVars>>

(* Mutant: the reduce task comes first in the list. *)
MeetAnyFailure ==
    /\ phase = "wait"
    /\ \E t \in Waited : task[t] \in {"failed", "dependency"} /\ Leave(task[t])
    /\ UNCHANGED <<call, taken, answer, item, task, workerVars>>

(* One poll shows every failure of that moment, and the wait raises for    *)
(* the first in the order of the list.                                     *)
MeetFailure ==
    /\ phase = "wait"
    /\ \E t \in Waited :
        /\ task[t] \in {"failed", "dependency"}
        /\ t = Reduce => \A u \in 1..NumTasks : task[u] # "failed"
        /\ Leave(task[t])
    /\ UNCHANGED <<call, taken, answer, item, task, workerVars>>

(* Every task came back; map looks for an item with no value. *)
EndCall ==
    /\ phase = "wait" /\ taken = Waited
    /\ Leave(IF ~call.reduce /\ \E i \in 1..call.items : answer[i] = 0
             THEN "missing" ELSE "returned")
    /\ UNCHANGED <<call, taken, answer, item, task, workerVars>>

(* A request fails, or the wait gives up on a task: the call raises, and   *)
(* the tasks stay.                                                         *)
BreakCall ==
    /\ phase \in {"enqueue", "submit", "reduce", "wait"}
    /\ Leave("broken")
    /\ UNCHANGED <<call, taken, answer, item, task, workerVars>>

-----------------------------------------------------------------------------
(* The workers.                                                            *)

(* Mutant: the reduce task is never woken. *)
EndTaskAlone(t, s) == task' = [task EXCEPT ![t] = s]

(* Task t is in state s on the server, and the reduce task follows.        *)
EndTask(t, s) ==
    LET ended == [task EXCEPT ![t] = s] IN
    task' = IF ended[Reduce] # "waiting" THEN ended
            ELSE [ended EXCEPT ![Reduce] = ReduceState(States(ended))]

(* A worker claims a task of the call from the job group's queue. *)
RunTask(t) ==
    /\ task[t] = "ready"
    /\ task' = [task EXCEPT ![t] = "running"]
    /\ at' = [at EXCEPT ![t] = IF t = Reduce THEN "fold" ELSE "claim"]
    /\ UNCHANGED <<driverVars, item, cur, fold>>

Ready == {i \in Items : item[i] = "ready"}

(* Mutant: an item is done once it is claimed. *)
ClaimItemAsDone(t) ==
    /\ at[t] = "claim" /\ Ready # {}
    /\ item' = [item EXCEPT ![Min(Ready)] = "finished"]
    /\ cur' = [cur EXCEPT ![t] = Min(Ready)]
    /\ at' = [at EXCEPT ![t] = "fold"]
    /\ UNCHANGED <<driverVars, task, fold>>

(* _map_task and _map_reduce_task claim the oldest item on the queue. *)
ClaimItem(t) ==
    /\ at[t] = "claim" /\ Ready # {}
    /\ item' = [item EXCEPT ![Min(Ready)] = "running"]
    /\ cur' = [cur EXCEPT ![t] = Min(Ready)]
    /\ at' = [at EXCEPT ![t] = "fold"]
    /\ UNCHANGED <<driverVars, task, fold>>

(* Mutant: an item is folded again after its request failed. *)
FoldItemAgain(t) ==
    /\ t # Reduce /\ at[t] \in {"fold", "done"}
    /\ fold' = [fold EXCEPT ![t][cur[t]] = @ + 1]
    /\ at' = [at EXCEPT ![t] = "done"]
    /\ UNCHANGED <<driverVars, item, task, cur>>

(* They map the item and fold its value. *)
FoldItem(t) ==
    /\ t # Reduce /\ at[t] = "fold"
    /\ fold' = [fold EXCEPT ![t][cur[t]] = @ + 1]
    /\ at' = [at EXCEPT ![t] = "done"]
    /\ UNCHANGED <<driverVars, item, task, cur>>

(* They mark the item task done. *)
DoneItem(t) ==
    /\ at[t] = "done"
    /\ item' = [item EXCEPT ![cur[t]] = "finished"]
    /\ at' = [at EXCEPT ![t] = "claim"]
    /\ UNCHANGED <<driverVars, task, cur, fold>>

(* Mutant: a claim that failed is taken for an empty queue. *)
NoItemHeard(t) ==
    /\ at[t] = "claim"
    /\ EndTask(t, "finished")
    /\ at' = [at EXCEPT ![t] = "end"]
    /\ UNCHANGED <<driverVars, item, cur, fold>>

(* NoTaskAvailable: the map task returns, and its worker reports it. *)
NoItem(t) ==
    /\ at[t] = "claim" /\ Ready = {}
    /\ EndTask(t, "finished")
    /\ at' = [at EXCEPT ![t] = "end"]
    /\ UNCHANGED <<driverVars, item, cur, fold>>

(* _reduce_task folds the next partial result, which has to be there. *)
FoldPartial ==
    /\ at[Reduce] = "fold" /\ cur[Reduce] < NumTasks
    /\ LET t == cur[Reduce] + 1 IN
        /\ task[t] = "finished"
        /\ fold' = [fold EXCEPT ![Reduce] = Plus(@, fold[t])]
        /\ cur' = [cur EXCEPT ![Reduce] = t]
    /\ UNCHANGED <<driverVars, item, task, at>>

(* Mutant: off by one. *)
EndReduceEarly ==
    /\ at[Reduce] = "fold" /\ cur[Reduce] + 1 = NumTasks
    /\ EndTask(Reduce, "finished")
    /\ at' = [at EXCEPT ![Reduce] = "end"]
    /\ UNCHANGED <<driverVars, item, cur, fold>>

EndReduce ==
    /\ at[Reduce] = "fold" /\ cur[Reduce] = NumTasks
    /\ EndTask(Reduce, "finished")
    /\ at' = [at EXCEPT ![Reduce] = "end"]
    /\ UNCHANGED <<driverVars, item, cur, fold>>

(* A function of the user raises, or a request does: before it reaches the *)
(* server, or after it took effect there.                                  *)
RaiseInTask(t) ==
    /\ at[t] \in {"claim", "fold", "done"}
    /\ EndTask(t, "failed")
    /\ at' = [at EXCEPT ![t] = "end"]
    /\ UNCHANGED <<driverVars, item, cur, fold>>

(* The worker dies, or cannot report: the task stays Running. *)
LoseTask(t) ==
    /\ at[t] \in {"claim", "fold", "done"}
    /\ at' = [at EXCEPT ![t] = "lost"]
    /\ UNCHANGED <<driverVars, item, task, cur, fold>>

-----------------------------------------------------------------------------
Driver ==
    \/ BeginCall \/ SubmitReduce \/ MeetFailure \/ EndCall
    \/ \E i \in Items : EnqueueItem(i)
    \/ \E t \in MapTasks : SubmitMapTask(t)
    \/ \E t \in Tasks : TakeOutput(t)

Worker(t) ==
    \/ RunTask(t) \/ ClaimItem(t) \/ FoldItem(t) \/ DoneItem(t) \/ NoItem(t)
    \/ t = Reduce /\ (FoldPartial \/ EndReduce)

Next ==
    \/ Driver \/ BreakCall
    \/ \E t \in Tasks : Worker(t) \/ RaiseInTask(t) \/ LoseTask(t)

Spec == Init /\ [][Next]_vars

-----------------------------------------------------------------------------
(* Safety.                                                                 *)

(* The call keeps the promise of MapPromise.                               *)
Promise ==
    INSTANCE MapPromise WITH
        asked  <- 1..call.items,
        status <- CASE outcome \in {"none", "returned"} -> outcome [] OTHER -> "raised",
        result <- IF outcome = "returned" THEN answer ELSE Empty

PromiseKept == Promise!Spec

(* "Finished on the item queue means counted": some task's fold holds it.  *)
FinishedMeansCounted ==
    \A i \in Items : item[i] = "finished" => \E t \in MapTasks : fold[t][i] = 1

(* map's last check "signals a bug in this library": it never fires.       *)
NeverMissing == outcome # "missing"

(* "The call reports the map task's own error first", not the dependency   *)
(* failure of the reduce task.                                             *)
OwnErrorFirst == outcome # "dependency"

-----------------------------------------------------------------------------
(* Liveness.                                                               *)

FairSpec == Spec /\ WF_vars(Driver) /\ \A t \in Tasks : WF_vars(Worker(t))

(* A call ends, by itself, unless a worker is lost with one of its tasks.  *)
CallEndsUnlessLost ==
    phase # "idle" ~> phase = "done" \/ \E t \in Tasks : at[t] = "lost"

=============================================================================
