----------------------------- MODULE MapCallProofs -----------------------------
(* Proofs about MapCall, for every value of its constants. *)
EXTENDS MapCall, WellFoundedInduction, TLAPS

-----------------------------------------------------------------------------
(* Types, without the bounds of TypeOK on the folds.                       *)

CallType    == [reduce : BOOLEAN, items : 0..MaxItems, tasks : MapTasks]
ItemStates  == {"none", "ready", "running", "finished"}
TaskStates  == {"none", "waiting", "ready", "running", "finished", "failed", "dependency"}
Places      == {"start", "claim", "fold", "done", "end", "lost"}
Outcomes    == {"none", "returned", "failed", "dependency", "missing", "broken"}
Phases      == {"idle", "enqueue", "submit", "reduce", "wait", "done"}

Types ==
    /\ call \in CallType
    /\ phase \in Phases
    /\ taken \subseteq Tasks
    /\ answer \in [Items -> Nat]
    /\ outcome \in Outcomes
    /\ item \in [Items -> ItemStates]
    /\ task \in [Tasks -> TaskStates]
    /\ at \in [Tasks -> Places]
    /\ cur \in [Tasks -> Nat]
    /\ fold \in [Tasks -> [Items -> Nat]]
    /\ at[Reduce] \in {"start", "fold", "end", "lost"}
    /\ \A t \in MapTasks : at[t] \in {"fold", "done"} => cur[t] \in Items

LEMMA TaskNumbers ==
  /\ Reduce \in Tasks /\ Reduce \notin MapTasks
  /\ MapTasks \subseteq Tasks /\ \A t \in Tasks : t # Reduce => t \in MapTasks
  /\ MapTasks \subseteq Nat /\ Items \subseteq Nat
BY ConstantsOK DEF Reduce, MapTasks, Tasks, Items

LEMMA LeastItem ==
  ASSUME NEW S, S \subseteq Items, S # {}
  PROVE  Min(S) \in S
<1>1. S \subseteq Nat  BY TaskNumbers
<1>2. PICK x \in S : \A y \in S : ~ (<<y, x>> \in OpToRel(<, Nat))
  BY <1>1, NatLessThanWellFounded, WFMin
<1>3. \A y \in S : ~ (y < x)
  BY <1>1, <1>2 DEF OpToRel
<1>4. \A y \in S : x <= y  BY <1>1, <1>3
<1> QED  BY <1>4 DEF Min

LEMMA NumTasksType ==
  ASSUME call \in CallType
  PROVE  /\ NumTasks \in 0..MaxTasks /\ 1..NumTasks \subseteq MapTasks
         /\ call.items \in 0..MaxItems /\ 1..call.items \subseteq Items
         /\ call.items # 0 => NumTasks \in MapTasks
<1>1. /\ call.tasks \in MapTasks /\ call.tasks \in Nat
      /\ call.items \in 0..MaxItems /\ call.items \in Nat
      /\ MaxTasks \in Nat /\ MaxItems \in Nat
  <2>1. call.tasks \in MapTasks /\ call.items \in 0..MaxItems  BY DEF CallType
  <2> QED  BY <2>1, ConstantsOK DEF MapTasks
<1>2. NumTasks = IF call.tasks <= call.items THEN call.tasks ELSE call.items
  BY <1>1 DEF NumTasks, Min
<1> QED  BY <1>1, <1>2 DEF MapTasks, Items

LEMMA EndTaskShape ==
  ASSUME Types, NEW t \in Tasks, NEW s \in {"finished", "failed"},
         EndTask(t, s), task[t] = "running"
  PROVE  /\ task' \in [Tasks -> TaskStates]
         /\ task'[t] = s
         /\ \A u \in MapTasks : u # t => task'[u] = task[u]
         /\ t # Reduce => \/ task'[Reduce] = task[Reduce]
                          \/ task[Reduce] = "waiting" /\
                                \/ task'[Reduce] \in {"waiting", "ready"}
                                \/ /\ task'[Reduce] = "dependency"
                                   /\ \E u \in 1..NumTasks : task'[u] = "failed"
<1> DEFINE ended == [task EXCEPT ![t] = s]
<1>1. /\ ended \in [Tasks -> TaskStates] /\ ended[t] = s
      /\ \A u \in Tasks : u # t => ended[u] = task[u]
  BY DEF Types, TaskStates
<1>2. task' = IF ended[Reduce] # "waiting" THEN ended
              ELSE [ended EXCEPT ![Reduce] = ReduceState(States(ended))]
  BY DEF EndTask
<1> HIDE DEF ended
<1>3. CASE ended[Reduce] # "waiting"
  BY <1>1, <1>2, <1>3, TaskNumbers
<1>4. CASE ended[Reduce] = "waiting"
  <2>1. t # Reduce  BY <1>1, <1>4
  <2>2. ReduceState(States(ended)) \in {"waiting", "ready", "dependency"}
    BY DEF ReduceState
  <2>3. /\ task'[Reduce] = ReduceState(States(ended))
        /\ \A u \in Tasks : u # Reduce => task'[u] = ended[u]
        /\ task' \in [Tasks -> TaskStates]
    BY <1>1, <1>2, <1>4, <2>2, TaskNumbers DEF TaskStates
  <2>4. ASSUME ReduceState(States(ended)) = "dependency"
        PROVE  \E u \in 1..NumTasks : task'[u] = "failed"
    <3>1. "failed" \in States(ended)  BY <2>4 DEF ReduceState
    <3>2. PICK u \in 1..NumTasks : ended[u] = "failed"  BY <3>1 DEF States
    <3>3. u \in Tasks /\ u # Reduce  BY NumTasksType, TaskNumbers DEF Types
    <3> QED  BY <2>3, <3>2, <3>3
  <2> QED  BY <1>1, <1>4, <2>1, <2>2, <2>3, <2>4, TaskNumbers
<1> QED  BY <1>3, <1>4

LEMMA TypesInit == Init => Types
BY ConstantsOK, TaskNumbers
DEF Init, Types, CallType, Phases, Outcomes, ItemStates, TaskStates, Places, Empty, Reduce

LEMMA PlusType ==
  \A f, g \in [Items -> Nat] : Plus(f, g) \in [Items -> Nat]
BY DEF Plus

(* At which of its places a task runs.                                     *)
AtMatchesTask ==
    \A t \in Tasks :
        /\ at[t] = "start" <=> task[t] \in {"none", "waiting", "ready", "dependency"}
        /\ at[t] \in {"claim", "fold", "done", "lost"} <=> task[t] = "running"
        /\ at[t] = "end" <=> task[t] \in {"finished", "failed"}

LEMMA TypesStep ==
  ASSUME Types, AtMatchesTask, [Next]_vars
  PROVE  Types'
<1> USE TaskNumbers
    DEF Phases, Outcomes, ItemStates, TaskStates, Places, driverVars, workerVars, vars
<1>1. CASE BeginCall  BY <1>1 DEF BeginCall, Leave, Types
<1>2. CASE SubmitReduce
  <2>1. ReduceState(States(task)) \in TaskStates  BY DEF ReduceState
  <2> QED  BY <1>2, <2>1 DEF SubmitReduce, Types
<1>3. CASE MeetFailure  BY <1>3 DEF MeetFailure, Leave, Types
<1>4. CASE EndCall  BY <1>4 DEF EndCall, Leave, Types
<1>5. ASSUME NEW i \in Items, EnqueueItem(i) PROVE Types'
  BY <1>5 DEF EnqueueItem, Types
<1>6. ASSUME NEW t \in MapTasks, SubmitMapTask(t) PROVE Types'
  BY <1>6 DEF SubmitMapTask, Types
<1>7. ASSUME NEW t \in Tasks, TakeOutput(t) PROVE Types'
  <2>1. Plus(answer, fold[t]) \in [Items -> Nat]  BY PlusType DEF Types
  <2> QED  BY <1>7, <2>1 DEF TakeOutput, Types
<1>8. CASE BreakCall  BY <1>8 DEF BreakCall, Leave, Types
<1>9. ASSUME NEW t \in Tasks, RunTask(t) PROVE Types'
  BY <1>9 DEF RunTask, Types
<1>10. ASSUME NEW t \in Tasks, ClaimItem(t) PROVE Types'
  <2>1. Min(Ready) \in Items  BY <1>10, LeastItem DEF ClaimItem, Ready
  <2>2. t # Reduce  BY <1>10 DEF ClaimItem, Types
  <2> QED  BY <1>10, <2>1, <2>2 DEF ClaimItem, Types
<1>11. ASSUME NEW t \in Tasks, FoldItem(t) PROVE Types'
  <2>1. cur[t] \in Items  BY <1>11 DEF FoldItem, Types
  <2>2. fold' \in [Tasks -> [Items -> Nat]]
    BY <1>11, <2>1 DEF FoldItem, Types
  <2> QED  BY <1>11, <2>1, <2>2 DEF FoldItem, Types
<1>12. ASSUME NEW t \in Tasks, DoneItem(t) PROVE Types'
  BY <1>12 DEF DoneItem, Types
<1>13. ASSUME NEW t \in Tasks, NoItem(t) PROVE Types'
  <2>1. task[t] = "running"  BY <1>13 DEF NoItem, AtMatchesTask
  <2>2. task' \in [Tasks -> TaskStates]  BY <1>13, <2>1, EndTaskShape DEF NoItem
  <2> QED  BY <1>13, <2>2 DEF NoItem, Types
<1>14. CASE FoldPartial
  <2>1. cur[Reduce] + 1 \in MapTasks
    BY <1>14, NumTasksType DEF FoldPartial, Types, MapTasks
  <2>2. Plus(fold[Reduce], fold[cur[Reduce] + 1]) \in [Items -> Nat]
    BY <2>1, PlusType DEF Types
  <2>3. /\ fold' = [fold EXCEPT ![Reduce] = Plus(fold[Reduce], fold[cur[Reduce] + 1])]
        /\ cur' = [cur EXCEPT ![Reduce] = cur[Reduce] + 1]
        /\ UNCHANGED <<driverVars, item, task, at>>
    BY <1>14 DEF FoldPartial
  <2>4. fold' \in [Tasks -> [Items -> Nat]] /\ cur' \in [Tasks -> Nat]
    BY <2>1, <2>2, <2>3 DEF Types
  <2>5. \A t \in MapTasks : cur'[t] = cur[t]  BY <2>3 DEF Types
  <2> QED  BY <2>3, <2>4, <2>5 DEF Types
<1>15. CASE EndReduce
  <2>1. task[Reduce] = "running"  BY <1>15 DEF EndReduce, AtMatchesTask
  <2>2. task' \in [Tasks -> TaskStates]  BY <1>15, <2>1, EndTaskShape DEF EndReduce
  <2> QED  BY <1>15, <2>2 DEF EndReduce, Types
<1>16. ASSUME NEW t \in Tasks, RaiseInTask(t) PROVE Types'
  <2>1. task[t] = "running"  BY <1>16 DEF RaiseInTask, AtMatchesTask
  <2>2. task' \in [Tasks -> TaskStates]  BY <1>16, <2>1, EndTaskShape DEF RaiseInTask
  <2> QED  BY <1>16, <2>2 DEF RaiseInTask, Types
<1>17. ASSUME NEW t \in Tasks, LoseTask(t) PROVE Types'
  BY <1>17 DEF LoseTask, Types
<1>18. CASE UNCHANGED vars  BY <1>18 DEF Types
<1> QED
  BY <1>1, <1>2, <1>3, <1>4, <1>5, <1>6, <1>7, <1>8, <1>9, <1>10, <1>11, <1>12, <1>13,
     <1>14, <1>15, <1>16, <1>17, <1>18 DEF Next, Driver, Worker

-----------------------------------------------------------------------------
(* What the driver has put on the server.                                  *)

Submitted == phase \in {"submit", "reduce", "wait"} \/ \E t \in Tasks : task[t] # "none"

(* A map task holds an item of the call. *)
HoldsAnItem ==
    \A t \in MapTasks : at[t] \in {"fold", "done"} => item[cur[t]] # "none"

(* Where the driver stands tells which items and tasks there are.          *)
SubmissionInv ==
    /\ AtMatchesTask
    /\ HoldsAnItem
    /\ outcome = "none" <=> phase # "done"
    /\ phase \notin {"idle", "done"} => call.items # 0
    /\ \A i \in Items : i > call.items => item[i] = "none"
    /\ phase = "idle" => \A i \in Items : item[i] = "none"
    /\ phase = "enqueue" => item[call.items] = "none"
    /\ Submitted => call.items # 0 /\ \A i \in 1..call.items : item[i] # "none"
    /\ phase \in {"idle", "enqueue"} => \A t \in Tasks : task[t] = "none"
    /\ \A t \in MapTasks : t > NumTasks => task[t] = "none"
    /\ phase = "submit" => task[NumTasks] = "none"
    /\ phase \in {"submit", "reduce"} => task[Reduce] = "none"
    /\ \A t \in MapTasks : task[t] \notin {"waiting", "dependency"}
    /\ task[Reduce] = "dependency" => \E t \in 1..NumTasks : task[t] = "failed"

LEMMA SubmissionInit == Init => SubmissionInv
<1> SUFFICES ASSUME Init PROVE SubmissionInv
  OBVIOUS
<1>1. Types  BY TypesInit
<1> QED  BY <1>1, TaskNumbers DEF Init, SubmissionInv, AtMatchesTask, HoldsAnItem, Submitted

(* How the workers' steps change the tasks and the items, for              *)
(* SubmissionInv: an end of a task that runs, or less.                     *)
TaskEnds(t) ==
    /\ task[t] = "running"
    /\ \E s \in {"finished", "failed"} : EndTask(t, s)
    /\ at' = [at EXCEPT ![t] = "end"]
    /\ UNCHANGED <<driverVars, item, cur>>

WorkerMoves ==
    /\ \A t \in Tasks : task'[t] = task[t] \/ (task[t] = "ready" /\ task'[t] = "running")
    /\ \A i \in Items : item'[i] # "none" <=> item[i] # "none"
    /\ UNCHANGED driverVars

LEMMA WorkerShape ==
  ASSUME Types, Types', AtMatchesTask, HoldsAnItem, NEW t \in Tasks,
         Worker(t) \/ RaiseInTask(t) \/ LoseTask(t)
  PROVE  TaskEnds(t) \/ (WorkerMoves /\ AtMatchesTask' /\ HoldsAnItem')
<1> USE TaskNumbers DEF AtMatchesTask, HoldsAnItem, driverVars
<1>1. CASE RunTask(t)
  <2>1. /\ task[t] = "ready" /\ UNCHANGED <<driverVars, item, cur>>
        /\ task' = [task EXCEPT ![t] = "running"]
        /\ at' = [at EXCEPT ![t] = IF t = Reduce THEN "fold" ELSE "claim"]
    BY <1>1 DEF RunTask
  <2>2. \A u \in Tasks : u # t => task'[u] = task[u] /\ at'[u] = at[u]
    BY <2>1 DEF Types
  <2>3. task'[t] = "running" /\ at'[t] \in {"fold", "claim"}
        /\ (t # Reduce => at'[t] = "claim")
    BY <2>1 DEF Types
  <2>4. WorkerMoves  BY <2>1, <2>2, <2>3 DEF WorkerMoves
  <2>5. AtMatchesTask'  BY <2>2, <2>3
  <2>6. HoldsAnItem'  BY <2>1, <2>2, <2>3
  <2> QED  BY <2>4, <2>5, <2>6
<1>2. CASE ClaimItem(t)
  <2>1. Min(Ready) \in Ready  BY <1>2, LeastItem DEF ClaimItem, Ready
  <2>2. /\ at[t] = "claim" /\ UNCHANGED <<driverVars, task>>
        /\ item' = [item EXCEPT ![Min(Ready)] = "running"]
        /\ cur' = [cur EXCEPT ![t] = Min(Ready)]
        /\ at' = [at EXCEPT ![t] = "fold"]
    BY <1>2 DEF ClaimItem
  <2>3. \A u \in Tasks : u # t => cur'[u] = cur[u] /\ at'[u] = at[u]
    BY <2>2 DEF Types
  <2>4. cur'[t] = Min(Ready) /\ at'[t] = "fold"  BY <2>2 DEF Types
  <2>5. \A i \in Items : item'[i] # "none" <=> item[i] # "none"
    BY <2>1, <2>2 DEF Types, Ready
  <2>6. WorkerMoves  BY <2>2, <2>5 DEF WorkerMoves
  <2>7. AtMatchesTask'  BY <2>2, <2>3, <2>4
  <2>8. HoldsAnItem'
    BY <2>1, <2>3, <2>4, <2>5 DEF Types, Ready
  <2> QED  BY <2>6, <2>7, <2>8
<1>3. CASE FoldItem(t)
  <2>1. /\ t # Reduce /\ at[t] = "fold" /\ at' = [at EXCEPT ![t] = "done"]
        /\ UNCHANGED <<driverVars, item, task, cur>>
    BY <1>3 DEF FoldItem
  <2>2. at'[t] = "done" /\ \A u \in Tasks : u # t => at'[u] = at[u]
    BY <2>1 DEF Types
  <2>3. AtMatchesTask'  BY <2>1, <2>2
  <2>4. HoldsAnItem'  BY <2>1, <2>2
  <2> QED  BY <2>1, <2>3, <2>4 DEF WorkerMoves
<1>4. CASE DoneItem(t)
  <2>1. /\ at[t] = "done" /\ at' = [at EXCEPT ![t] = "claim"]
        /\ item' = [item EXCEPT ![cur[t]] = "finished"]
        /\ UNCHANGED <<driverVars, task, cur>>
    BY <1>4 DEF DoneItem
  <2>2. at'[t] = "claim" /\ \A u \in Tasks : u # t => at'[u] = at[u]
    BY <2>1 DEF Types
  <2>3. t \in MapTasks /\ cur[t] \in Items /\ item[cur[t]] # "none"
    BY <2>1 DEF Types
  <2>4. \A i \in Items : item'[i] # "none" <=> item[i] # "none"
    BY <2>1, <2>3 DEF Types
  <2>5. AtMatchesTask'  BY <2>1, <2>2
  <2>6. HoldsAnItem'  BY <2>1, <2>2, <2>4 DEF Types
  <2> QED  BY <2>1, <2>4, <2>5, <2>6 DEF WorkerMoves
<1>5. CASE NoItem(t)  BY <1>5 DEF NoItem, TaskEnds, Types
<1>6. CASE FoldPartial
  <2>1. /\ cur' = [cur EXCEPT ![Reduce] = cur[Reduce] + 1]
        /\ UNCHANGED <<driverVars, item, task, at>>
    BY <1>6 DEF FoldPartial
  <2>2. \A u \in MapTasks : cur'[u] = cur[u]  BY <2>1 DEF Types
  <2>3. AtMatchesTask' /\ HoldsAnItem'  BY <2>1, <2>2
  <2> QED  BY <2>1, <2>3 DEF WorkerMoves
<1>7. CASE t = Reduce /\ EndReduce  BY <1>7 DEF EndReduce, TaskEnds, Types
<1>8. CASE RaiseInTask(t)  BY <1>8 DEF RaiseInTask, TaskEnds, Types
<1>9. CASE LoseTask(t)
  <2>1. /\ at[t] \in {"claim", "fold", "done"} /\ at' = [at EXCEPT ![t] = "lost"]
        /\ UNCHANGED <<driverVars, item, task, cur>>
    BY <1>9 DEF LoseTask
  <2>2. at'[t] = "lost" /\ \A u \in Tasks : u # t => at'[u] = at[u]
    BY <2>1 DEF Types
  <2>3. AtMatchesTask'  BY <2>1, <2>2
  <2>4. HoldsAnItem'  BY <2>1, <2>2
  <2> QED  BY <2>1, <2>3, <2>4 DEF WorkerMoves
<1> QED  BY <1>1, <1>2, <1>3, <1>4, <1>5, <1>6, <1>7, <1>8, <1>9 DEF Worker

LEMMA SubmissionStep ==
  ASSUME Types, Types', SubmissionInv, [Next]_vars
  PROVE  SubmissionInv'
<1> USE TaskNumbers DEF SubmissionInv
<1>0. /\ NumTasks \in Nat /\ 1..NumTasks \subseteq MapTasks
      /\ call.items \in Nat /\ 1..call.items \subseteq Items
      /\ call.items # 0 => NumTasks \in MapTasks /\ call.items \in Items
  <2>1. call \in CallType  BY DEF Types
  <2>2. call.items \in 0..MaxItems /\ MaxItems \in Nat /\ MaxTasks \in Nat
    BY <2>1, NumTasksType, ConstantsOK
  <2> QED  BY <2>1, <2>2, NumTasksType DEF Items
<1>a. call' = call /\ NumTasks' = NumTasks
  BY DEF Next, Driver, Worker, BeginCall, SubmitReduce, MeetFailure, EndCall, EnqueueItem,
         SubmitMapTask, TakeOutput, BreakCall, RunTask, ClaimItem, FoldItem, DoneItem,
         NoItem, FoldPartial, EndReduce, RaiseInTask, LoseTask, vars, driverVars, NumTasks
<1>1. CASE BeginCall
  <2>1. /\ phase = "idle" /\ UNCHANGED <<call, item, task, workerVars>>
        /\ \/ phase' = "done" /\ outcome' # "none"
           \/ phase' = "enqueue" /\ outcome' = outcome /\ call.items # 0
    BY <1>1 DEF BeginCall, Leave
  <2>2. \A i \in Items : item[i] = "none"  BY <2>1
  <2>3. \A t \in Tasks : task[t] = "none"  BY <2>1
  <2> QED
    BY <1>0, <1>a, <2>1, <2>2, <2>3
    DEF workerVars, AtMatchesTask, HoldsAnItem, Submitted
<1>2. CASE SubmitReduce
  <2>1. /\ phase = "reduce" /\ phase' = "wait"
        /\ task' = [task EXCEPT ![Reduce] = ReduceState(States(task))]
        /\ UNCHANGED <<call, taken, answer, outcome, item, workerVars>>
    BY <1>2 DEF SubmitReduce
  <2>2. /\ \A t \in MapTasks : task'[t] = task[t]
        /\ task'[Reduce] = ReduceState(States(task))
    BY <2>1 DEF Types
  <2>3. ReduceState(States(task)) \in {"dependency", "ready", "waiting"}
    BY DEF ReduceState
  <2>4. ASSUME ReduceState(States(task)) = "dependency"
        PROVE  \E t \in 1..NumTasks : task[t] = "failed"
    BY <2>4 DEF ReduceState, States
  <2>5. AtMatchesTask'  BY <2>1, <2>2, <2>3 DEF AtMatchesTask, workerVars
  <2>6. Submitted  BY <2>1 DEF Submitted
  <2> QED
    BY <1>0, <1>a, <2>1, <2>2, <2>3, <2>4, <2>5, <2>6
    DEF workerVars, Submitted, HoldsAnItem
<1>3. CASE MeetFailure \/ EndCall \/ BreakCall
  <2>1. /\ phase' = "done" /\ outcome' # "none" /\ phase \notin {"idle", "done"}
        /\ UNCHANGED <<call, item, task, workerVars>>
    BY <1>3 DEF MeetFailure, EndCall, BreakCall, Leave
  <2> QED
    BY <1>0, <1>a, <2>1 DEF workerVars, AtMatchesTask, HoldsAnItem, Submitted
<1>4. ASSUME NEW i \in Items, EnqueueItem(i) PROVE SubmissionInv'
  <2>1. /\ phase = "enqueue" /\ item[i] = "none" /\ \A h \in 1..i-1 : item[h] # "none"
        /\ item' = [item EXCEPT ![i] = "ready"]
        /\ phase' = IF i = call.items THEN "submit" ELSE "enqueue"
        /\ UNCHANGED <<call, taken, answer, outcome, task, workerVars>>
    BY <1>4 DEF EnqueueItem
  <2>2. item'[i] = "ready" /\ \A h \in Items : h # i => item'[h] = item[h]
    BY <2>1 DEF Types
  <2>3. i \in Nat /\ i <= call.items
    BY <1>0, <2>1 DEF Items
  <2>4. i = call.items => \A h \in 1..call.items : item'[h] # "none"
    BY <1>0, <2>1, <2>2 DEF Items
  <2>5. \A h \in Items : h > call.items => item'[h] = "none"
    BY <1>0, <2>2, <2>3
  <2>6. HoldsAnItem'  BY <2>1, <2>2 DEF workerVars, HoldsAnItem, Types
  <2>7. AtMatchesTask'  BY <2>1 DEF workerVars, AtMatchesTask
  <2> QED
    BY <1>0, <1>a, <2>1, <2>2, <2>3, <2>4, <2>5, <2>6, <2>7 DEF Submitted
<1>5. ASSUME NEW t \in MapTasks, SubmitMapTask(t) PROVE SubmissionInv'
  <2>1. /\ phase = "submit" /\ task[t] = "none" /\ \A u \in 1..t-1 : task[u] # "none"
        /\ task' = [task EXCEPT ![t] = "ready"]
        /\ phase' = IF t # NumTasks THEN "submit" ELSE IF call.reduce THEN "reduce" ELSE "wait"
        /\ UNCHANGED <<call, taken, answer, outcome, item, workerVars>>
    BY <1>5 DEF SubmitMapTask
  <2>2. task'[t] = "ready" /\ \A u \in Tasks : u # t => task'[u] = task[u]
    BY <2>1 DEF Types
  <2>3. t \in Nat /\ t <= NumTasks
    BY <1>0, <2>1 DEF MapTasks
  <2>4. Submitted  BY <2>1 DEF Submitted
  <2>5. AtMatchesTask'  BY <2>1, <2>2 DEF workerVars, AtMatchesTask
  <2>6. HoldsAnItem'  BY <2>1 DEF workerVars, HoldsAnItem
  <2> QED
    BY <1>0, <1>a, <2>1, <2>2, <2>3, <2>4, <2>5, <2>6 DEF Submitted
<1>6. ASSUME NEW t \in Tasks, TakeOutput(t) PROVE SubmissionInv'
  <2>1. UNCHANGED <<call, phase, outcome, item, task, workerVars>>
    BY <1>6 DEF TakeOutput
  <2> QED  BY <1>a, <2>1 DEF workerVars, AtMatchesTask, HoldsAnItem, Submitted
<1>7. ASSUME NEW t \in Tasks, TaskEnds(t) PROVE SubmissionInv'
  <2>1. PICK s \in {"finished", "failed"} : EndTask(t, s)
    BY <1>7 DEF TaskEnds
  <2>2. /\ task[t] = "running" /\ at' = [at EXCEPT ![t] = "end"]
        /\ UNCHANGED <<call, phase, outcome, item, cur>>
    BY <1>7 DEF TaskEnds, driverVars
  <2>3. /\ task'[t] = s
        /\ \A u \in MapTasks : u # t => task'[u] = task[u]
        /\ t # Reduce => \/ task'[Reduce] = task[Reduce]
                         \/ task[Reduce] = "waiting" /\
                               \/ task'[Reduce] \in {"waiting", "ready"}
                               \/ /\ task'[Reduce] = "dependency"
                                  /\ \E u \in 1..NumTasks : task'[u] = "failed"
    BY <2>1, <2>2, EndTaskShape
  <2>4. at'[t] = "end" /\ \A u \in Tasks : u # t => at'[u] = at[u]
    BY <2>2 DEF Types
  <2>5. AtMatchesTask'
    BY <2>3, <2>4 DEF AtMatchesTask
  <2>6. \A u \in Tasks : task'[u] = "none" <=> task[u] = "none"
    BY <2>2, <2>3
  <2>7. \A u \in MapTasks : task[u] = "failed" => task'[u] = "failed"
    BY <2>2, <2>3
  <2>8. task'[Reduce] = "dependency" => \E u \in 1..NumTasks : task'[u] = "failed"
    <3>1. CASE t = Reduce  BY <2>3, <3>1
    <3>2. CASE task'[Reduce] = task[Reduce]  BY <1>0, <2>7, <3>2
    <3> QED  BY <2>3, <3>1, <3>2
  <2>9. HoldsAnItem'  BY <2>2, <2>4 DEF HoldsAnItem
  <2>10. \A u \in MapTasks : task'[u] \notin {"waiting", "dependency"}
    BY <2>3
  <2> QED
    BY <1>0, <1>a, <2>2, <2>5, <2>6, <2>8, <2>9, <2>10, NumTasksType DEF Submitted
<1>8. CASE WorkerMoves /\ AtMatchesTask' /\ HoldsAnItem'
  <2>1. UNCHANGED <<call, phase, outcome>>  BY <1>8 DEF WorkerMoves, driverVars
  <2>2. \A t \in Tasks : task'[t] = task[t] \/ (task[t] = "ready" /\ task'[t] = "running")
    BY <1>8 DEF WorkerMoves
  <2>3. \A i \in Items : item'[i] # "none" <=> item[i] # "none"
    BY <1>8 DEF WorkerMoves
  <2>4. task'[Reduce] = "dependency" => \E u \in 1..NumTasks : task'[u] = "failed"
    BY <1>0, <2>2
  <2> QED
    BY <1>0, <1>a, <1>8, <2>1, <2>2, <2>3, <2>4 DEF Submitted
<1>9. CASE UNCHANGED vars
  BY <1>a, <1>9 DEF vars, driverVars, workerVars, AtMatchesTask, HoldsAnItem, Submitted
<1> QED
  BY <1>1, <1>2, <1>3, <1>4, <1>5, <1>6, <1>7, <1>8, <1>9, WorkerShape DEF Next, Driver

THEOREM SubmissionInvariant == Spec => [](Types /\ SubmissionInv)
<1>1. Types /\ SubmissionInv /\ [Next]_vars => (Types /\ SubmissionInv)'
  BY TypesStep, SubmissionStep DEF SubmissionInv
<1> QED  BY <1>1, TypesInit, SubmissionInit, PTL DEF Spec

-----------------------------------------------------------------------------
(* What the map tasks hold.                                                *)

(* Map task t has item i in hand: claimed, and its request not answered.   *)
Has(t, i) == at[t] \in {"fold", "done"} /\ cur[t] = i

(* An item is in the fold of one map task at most.                         *)
FoldedOnce ==
    \A t, u \in MapTasks, i \in Items : fold[t][i] # 0 /\ fold[u][i] # 0 => t = u

FoldedItems ==
    \A t \in MapTasks, i \in Items : fold[t][i] # 0 =>
        /\ fold[t][i] = 1
        /\ item[i] \in {"running", "finished"}
        /\ at[t] # "start"

(* One map task at most has it in hand, and it is in a fold from the       *)
(* moment that task folds it.                                              *)
HeldOnce ==
    \A t, u \in MapTasks, i \in Items : Has(t, i) /\ Has(u, i) => t = u

HeldItems ==
    \A t \in MapTasks, i \in Items : Has(t, i) =>
        /\ item[i] = "running"
        /\ at[t] = "fold" => \A u \in MapTasks : fold[u][i] = 0
        /\ at[t] = "done" => fold[t][i] = 1

FinishedItems ==
    \A i \in Items : item[i] = "finished" => \E t \in MapTasks : fold[t][i] = 1

(* An item that is claimed and not done: its map task runs, is lost or     *)
(* failed with it.                                                         *)
RunningItems ==
    \A i \in Items : item[i] = "running" =>
        \E t \in MapTasks :
            cur[t] = i /\ task[t] \in {"running", "failed"} /\ at[t] # "claim"

(* A map task ends well when no item is left.                              *)
DrainedFirst ==
    \A t \in MapTasks : task[t] = "finished" => Ready = {}

FoldsInv ==
    /\ FoldedOnce /\ FoldedItems
    /\ HeldOnce /\ HeldItems
    /\ FinishedItems /\ RunningItems /\ DrainedFirst

LEMMA FoldsInit == Init => FoldsInv
BY TaskNumbers DEF Init, FoldsInv, FoldedOnce, FoldedItems, HeldOnce, HeldItems, FinishedItems, RunningItems, DrainedFirst, Has, Empty

(* Steps that leave the folds and the claims alone.                        *)
FoldsStay ==
    /\ UNCHANGED <<item, cur, fold>>
    /\ \A t \in MapTasks :
          /\ at'[t] \in {"fold", "done"} => at'[t] = at[t]
          /\ at[t] # "start" => at'[t] # "start"
          /\ at'[t] = "claim" => at[t] \in {"claim", "start"}
          /\ at[t] \notin {"start", "claim"} /\ task[t] \in {"running", "failed"} =>
                task'[t] \in {"running", "failed"}
          /\ task'[t] = "finished" => task[t] = "finished" \/ Ready = {}

LEMMA FoldsOfStay ==
  ASSUME Types, SubmissionInv, FoldsInv, FoldsStay
  PROVE  FoldsInv'
<1>0. \A t \in MapTasks, i \in Items : Has(t, i)' => Has(t, i) /\ at'[t] = at[t]
  BY DEF FoldsStay, Has
<1>1. Ready' = Ready  BY DEF FoldsStay, Ready
<1>2. \A t \in MapTasks : task[t] \in {"running", "failed"} => at[t] # "start"
  BY TaskNumbers DEF SubmissionInv, AtMatchesTask
<1>3. \A t \in MapTasks, i \in Items : fold'[t][i] # 0 =>
         /\ fold'[t][i] = 1
         /\ item'[i] \in {"running", "finished"}
         /\ at'[t] # "start"
  BY DEF FoldsStay, FoldsInv, FoldedItems
<1>4. \A t, u \in MapTasks, i \in Items : fold'[t][i] # 0 /\ fold'[u][i] # 0 => t = u
  BY DEF FoldsStay, FoldsInv, FoldedOnce
<1>5. \A t, u \in MapTasks, i \in Items : Has(t, i)' /\ Has(u, i)' => t = u
  BY <1>0 DEF FoldsInv, HeldOnce
<1>6. \A t \in MapTasks, i \in Items : Has(t, i)' =>
         /\ item'[i] = "running"
         /\ at'[t] = "fold" => \A u \in MapTasks : fold'[u][i] = 0
         /\ at'[t] = "done" => fold'[t][i] = 1
  BY <1>0 DEF FoldsInv, HeldItems, FoldsStay
<1>7. \A i \in Items : item'[i] = "finished" => \E t \in MapTasks : fold'[t][i] = 1
  BY DEF FoldsStay, FoldsInv, FinishedItems
<1>8. ASSUME NEW i \in Items, item'[i] = "running"
      PROVE  \E t \in MapTasks :
                cur'[t] = i /\ task'[t] \in {"running", "failed"} /\ at'[t] # "claim"
  <2>1. PICK t \in MapTasks :
           cur[t] = i /\ task[t] \in {"running", "failed"} /\ at[t] # "claim"
    BY <1>8 DEF FoldsStay, FoldsInv, RunningItems
  <2> QED  BY <1>2, <2>1 DEF FoldsStay
<1>9. \A t \in MapTasks : task'[t] = "finished" => Ready' = {}
  BY <1>1 DEF FoldsStay, FoldsInv, DrainedFirst
<1> QED  BY <1>3, <1>4, <1>5, <1>6, <1>7, <1>8, <1>9
  DEF FoldsInv, FoldedOnce, FoldedItems, HeldOnce, HeldItems, FinishedItems, RunningItems, DrainedFirst

LEMMA FoldsStep ==
  ASSUME Types, Types', SubmissionInv, SubmissionInv', FoldsInv, [Next]_vars
  PROVE  FoldsInv'
<1> USE TaskNumbers
<1>1. CASE BeginCall \/ MeetFailure \/ EndCall \/ BreakCall \/ UNCHANGED vars
  <2>1. UNCHANGED <<item, task, at, cur, fold>>
    BY <1>1 DEF BeginCall, MeetFailure, EndCall, BreakCall, vars, workerVars
  <2> QED  BY <2>1, FoldsOfStay DEF FoldsStay
<1>2. CASE SubmitReduce
  <2>1. UNCHANGED <<item, at, cur, fold>> /\ \A t \in MapTasks : task'[t] = task[t]
    BY <1>2 DEF SubmitReduce, workerVars, Types
  <2> QED  BY <2>1, FoldsOfStay DEF FoldsStay
<1>3. ASSUME NEW i \in Items, EnqueueItem(i) PROVE FoldsInv'
  <2>1. /\ item[i] = "none" /\ item' = [item EXCEPT ![i] = "ready"]
        /\ UNCHANGED <<task, at, cur, fold>> /\ phase = "enqueue"
    BY <1>3 DEF EnqueueItem, workerVars
  <2>2. item'[i] = "ready" /\ \A h \in Items : h # i => item'[h] = item[h]
    BY <2>1 DEF Types
  <2>3. \A t \in MapTasks : task[t] = "none"  BY <2>1 DEF SubmissionInv
  <2>4. \A t \in MapTasks : at[t] = "start"
    BY <2>3 DEF SubmissionInv, AtMatchesTask
  <2> QED  BY <2>1, <2>2, <2>3, <2>4
    DEF FoldsInv, FoldedOnce, FoldedItems, HeldOnce, HeldItems, FinishedItems, RunningItems, DrainedFirst, Has
<1>4. ASSUME NEW t \in MapTasks, SubmitMapTask(t) PROVE FoldsInv'
  <2>1. /\ task[t] = "none" /\ task' = [task EXCEPT ![t] = "ready"]
        /\ UNCHANGED <<item, at, cur, fold>>
    BY <1>4 DEF SubmitMapTask, workerVars
  <2>2. task'[t] = "ready" /\ \A u \in MapTasks : u # t => task'[u] = task[u]
    BY <2>1 DEF Types
  <2> QED  BY <2>1, <2>2, FoldsOfStay DEF FoldsStay
<1>5. ASSUME NEW t \in Tasks, TakeOutput(t) PROVE FoldsInv'
  <2>1. UNCHANGED <<item, task, at, cur, fold>>
    BY <1>5 DEF TakeOutput, workerVars
  <2> QED  BY <2>1, FoldsOfStay DEF FoldsStay
<1>6. ASSUME NEW t \in Tasks, RunTask(t) PROVE FoldsInv'
  <2>1. /\ task[t] = "ready" /\ task' = [task EXCEPT ![t] = "running"]
        /\ at' = [at EXCEPT ![t] = IF t = Reduce THEN "fold" ELSE "claim"]
        /\ UNCHANGED <<item, cur, fold>>
    BY <1>6 DEF RunTask
  <2>2. /\ task'[t] = "running" /\ (t # Reduce => at'[t] = "claim")
        /\ \A u \in Tasks : u # t => task'[u] = task[u] /\ at'[u] = at[u]
    BY <2>1 DEF Types
  <2>3. at[t] = "start"  BY <2>1 DEF SubmissionInv, AtMatchesTask
  <2> QED  BY <2>1, <2>2, <2>3, FoldsOfStay DEF FoldsStay
<1>7. ASSUME NEW t \in Tasks, ClaimItem(t) PROVE FoldsInv'
  <2> DEFINE i == Min(Ready)
  <2>1. i \in Ready  BY <1>7, LeastItem DEF ClaimItem, Ready
  <2>2. i \in Items /\ item[i] = "ready"  BY <2>1 DEF Ready
  <2>3. /\ at[t] = "claim" /\ UNCHANGED <<task, fold>>
        /\ item' = [item EXCEPT ![i] = "running"]
        /\ cur' = [cur EXCEPT ![t] = i] /\ at' = [at EXCEPT ![t] = "fold"]
    BY <1>7 DEF ClaimItem
  <2> HIDE DEF i
  <2>4. t \in MapTasks /\ task[t] = "running"
    BY <2>3 DEF Types, SubmissionInv, AtMatchesTask
  <2>5. /\ item'[i] = "running" /\ \A h \in Items : h # i => item'[h] = item[h]
        /\ cur'[t] = i /\ at'[t] = "fold"
        /\ \A u \in Tasks : u # t => cur'[u] = cur[u] /\ at'[u] = at[u]
    BY <2>2, <2>3 DEF Types
  <2>6. \A u \in MapTasks : fold[u][i] = 0  BY <2>2 DEF FoldsInv, FoldedItems
  <2>7. \A u \in MapTasks, h \in Items :
           Has(u, h)' => IF u = t THEN h = i ELSE Has(u, h) /\ h # i
    <3> SUFFICES ASSUME NEW u \in MapTasks, NEW h \in Items, Has(u, h)'
                 PROVE  IF u = t THEN h = i ELSE Has(u, h) /\ h # i
      OBVIOUS
    <3>1. CASE u = t
      BY <2>5, <3>1 DEF Has
    <3>2. CASE u # t
      <4>1. Has(u, h)
        BY <2>5, <3>2 DEF Has, MapTasks, Tasks
      <4>2. item[h] = "running"
        BY <4>1 DEF FoldsInv, HeldItems
      <4> QED  BY <2>2, <3>2, <4>1, <4>2
    <3> QED  BY <3>1, <3>2
  <2>8. \A u \in MapTasks, h \in Items : fold'[u][h] # 0 =>
           /\ fold'[u][h] = 1
           /\ item'[h] \in {"running", "finished"}
           /\ at'[u] # "start"
    <3> SUFFICES ASSUME NEW u \in MapTasks, NEW h \in Items, fold[u][h] # 0
                 PROVE  /\ fold[u][h] = 1
                        /\ item'[h] \in {"running", "finished"}
                        /\ at'[u] # "start"
      BY <2>3
    <3>1. /\ fold[u][h] = 1 /\ item[h] \in {"running", "finished"} /\ at[u] # "start"
      BY DEF FoldsInv, FoldedItems
    <3>2. item'[h] \in {"running", "finished"}
      BY <2>5, <3>1
    <3>3. at'[u] # "start"
      BY <2>5, <3>1 DEF MapTasks, Tasks
    <3> QED  BY <3>1, <3>2, <3>3
  <2>9. \A u \in MapTasks, h \in Items : Has(u, h)' =>
           /\ item'[h] = "running"
           /\ at'[u] = "fold" => \A v \in MapTasks : fold'[v][h] = 0
           /\ at'[u] = "done" => fold'[u][h] = 1
    <3> SUFFICES ASSUME NEW u \in MapTasks, NEW h \in Items, Has(u, h)'
                 PROVE  /\ item'[h] = "running"
                        /\ at'[u] = "fold" => \A v \in MapTasks : fold'[v][h] = 0
                        /\ at'[u] = "done" => fold'[u][h] = 1
      OBVIOUS
    <3>1. CASE u = t
      BY <2>3, <2>5, <2>6, <2>7, <3>1
    <3>2. CASE u # t
      <4>1. Has(u, h) /\ h # i /\ at'[u] = at[u]  BY <2>5, <2>7, <3>2
      <4>2. item'[h] = item[h]  BY <2>5, <4>1
      <4> QED  BY <2>3, <4>1, <4>2, ZenonT(20) DEF FoldsInv, HeldItems
    <3> QED  BY <3>1, <3>2
  <2>10. ASSUME NEW h \in Items, item'[h] = "running"
         PROVE  \E u \in MapTasks :
                   cur'[u] = h /\ task'[u] \in {"running", "failed"} /\ at'[u] # "claim"
    <3>1. CASE h = i  BY <2>3, <2>4, <2>5, <3>1
    <3>2. CASE h # i
      <4>1. PICK u \in MapTasks :
               cur[u] = h /\ task[u] \in {"running", "failed"} /\ at[u] # "claim"
        BY <2>5, <2>10, <3>2 DEF FoldsInv, RunningItems
      <4> QED  BY <2>3, <2>5, <4>1
    <3> QED  BY <3>1, <3>2
  <2>11. \A u \in MapTasks : task'[u] # "finished"
    BY <2>1, <2>3 DEF FoldsInv, DrainedFirst
  <2>12. \A u, v \in MapTasks, h \in Items : Has(u, h)' /\ Has(v, h)' => u = v
    BY <2>7 DEF FoldsInv, HeldOnce
  <2>13. \A h \in Items : item'[h] = "finished" => \E u \in MapTasks : fold'[u][h] = 1
    BY <2>3, <2>5 DEF FoldsInv, FinishedItems
  <2>14. \A u, v \in MapTasks, h \in Items : fold'[u][h] # 0 /\ fold'[v][h] # 0 => u = v
    BY <2>3 DEF FoldsInv, FoldedOnce
  <2> QED
    BY <2>8, <2>9, <2>10, <2>11, <2>12, <2>13, <2>14
      DEF FoldsInv, FoldedOnce, FoldedItems, HeldOnce, HeldItems, FinishedItems, RunningItems, DrainedFirst
<1>8. ASSUME NEW t \in Tasks, FoldItem(t) PROVE FoldsInv'
  <2> DEFINE i == cur[t]
  <2>1. /\ t \in MapTasks /\ at[t] = "fold" /\ at' = [at EXCEPT ![t] = "done"]
        /\ fold' = [fold EXCEPT ![t] = [fold[t] EXCEPT ![i] = fold[t][i] + 1]]
        /\ UNCHANGED <<item, task, cur>>
    BY <1>8 DEF FoldItem
  <2>2. i \in Items /\ Has(t, i)  BY <2>1 DEF Types, Has
  <2>3. item[i] = "running" /\ \A u \in MapTasks : fold[u][i] = 0
    BY <2>1, <2>2 DEF FoldsInv, HeldItems
  <2> HIDE DEF i
  <2>4. /\ at'[t] = "done" /\ \A u \in Tasks : u # t => at'[u] = at[u]
        /\ fold'[t][i] = 1 /\ \A h \in Items : h # i => fold'[t][h] = fold[t][h]
        /\ \A u \in Tasks : u # t => fold'[u] = fold[u]
    BY <2>1, <2>2, <2>3 DEF Types
  <2>5. \A u \in MapTasks, h \in Items : Has(u, h)' =>
           Has(u, h) /\ (u = t => h = i) /\ (u # t => h # i)
    BY <2>1, <2>2, <2>4 DEF Has, FoldsInv, HeldOnce, i
  <2>6. \A u \in MapTasks, h \in Items : fold'[u][h] # 0 =>
           \/ u = t /\ h = i
           \/ h # i /\ fold[u][h] # 0 /\ fold'[u][h] = fold[u][h]
    BY <2>3, <2>4
  <2>7. \A u \in MapTasks, h \in Items : fold'[u][h] # 0 =>
           /\ fold'[u][h] = 1
           /\ item'[h] \in {"running", "finished"}
           /\ at'[u] # "start"
    BY <2>1, <2>3, <2>4, <2>6 DEF FoldsInv, FoldedItems
  <2>8. \A u, v \in MapTasks, h \in Items : fold'[u][h] # 0 /\ fold'[v][h] # 0 => u = v
    <3> SUFFICES ASSUME NEW u \in MapTasks, NEW v \in MapTasks, NEW h \in Items,
                        fold'[u][h] # 0, fold'[v][h] # 0
                 PROVE  u = v
      OBVIOUS
    <3>1. CASE h = i
      BY <2>6, <3>1
    <3>2. CASE h # i
      <4>1. fold[u][h] # 0 /\ fold[v][h] # 0
        BY <2>6, <3>2
      <4> QED  BY <4>1 DEF FoldsInv, FoldedOnce
    <3> QED  BY <3>1, <3>2
  <2>9. \A u \in MapTasks, h \in Items : Has(u, h)' =>
           /\ item'[h] = "running"
           /\ at'[u] = "fold" => \A v \in MapTasks : fold'[v][h] = 0
           /\ at'[u] = "done" => fold'[u][h] = 1
    BY <2>1, <2>4, <2>5, <2>6 DEF FoldsInv, HeldItems
  <2>10. \A h \in Items : item'[h] = "finished" => \E u \in MapTasks : fold'[u][h] = 1
    <3>1. \A u \in MapTasks, h \in Items : h # i => fold'[u][h] = fold[u][h]
      BY <2>4
    <3> QED  BY <2>1, <2>3, <3>1 DEF FoldsInv, FinishedItems
  <2>11. ASSUME NEW h \in Items, item'[h] = "running"
         PROVE  \E u \in MapTasks :
                   cur'[u] = h /\ task'[u] \in {"running", "failed"} /\ at'[u] # "claim"
    <3>1. PICK u \in MapTasks :
             cur[u] = h /\ task[u] \in {"running", "failed"} /\ at[u] # "claim"
      BY <2>1, <2>11 DEF FoldsInv, RunningItems
    <3> QED  BY <2>1, <2>4, <3>1
  <2>12. \A u \in MapTasks : task'[u] = "finished" => Ready' = {}
    BY <2>1 DEF FoldsInv, DrainedFirst, Ready
  <2>13. \A u, v \in MapTasks, h \in Items : Has(u, h)' /\ Has(v, h)' => u = v
    BY <2>5 DEF FoldsInv, HeldOnce
  <2> QED
    BY <2>7, <2>8, <2>9, <2>10, <2>11, <2>12, <2>13
      DEF FoldsInv, FoldedOnce, FoldedItems, HeldOnce, HeldItems, FinishedItems, RunningItems, DrainedFirst
<1>9. ASSUME NEW t \in Tasks, DoneItem(t) PROVE FoldsInv'
  <2> DEFINE i == cur[t]
  <2>1. /\ at[t] = "done" /\ at' = [at EXCEPT ![t] = "claim"]
        /\ item' = [item EXCEPT ![i] = "finished"]
        /\ UNCHANGED <<task, cur, fold>>
    BY <1>9 DEF DoneItem
  <2>2. t \in MapTasks /\ i \in Items /\ Has(t, i)  BY <2>1 DEF Types, Has
  <2>3. item[i] = "running" /\ fold[t][i] = 1  BY <2>1, <2>2 DEF FoldsInv, HeldItems
  <2>4. \A u \in MapTasks : u # t => ~Has(u, i)  BY <2>2 DEF FoldsInv, HeldOnce
  <2> HIDE DEF i
  <2>5. /\ at'[t] = "claim" /\ \A u \in Tasks : u # t => at'[u] = at[u]
        /\ item'[i] = "finished" /\ \A h \in Items : h # i => item'[h] = item[h]
    BY <2>1, <2>2 DEF Types
  <2>6. \A u \in MapTasks, h \in Items : Has(u, h)' => Has(u, h) /\ u # t /\ h # i
    BY <2>1, <2>4, <2>5 DEF Has
  <2>7. \A u \in MapTasks, h \in Items : fold'[u][h] # 0 =>
           /\ fold'[u][h] = 1
           /\ item'[h] \in {"running", "finished"}
           /\ at'[u] # "start"
    BY <2>1, <2>5 DEF FoldsInv, FoldedItems
  <2>8. \A u \in MapTasks, h \in Items : Has(u, h)' =>
           /\ item'[h] = "running"
           /\ at'[u] = "fold" => \A v \in MapTasks : fold'[v][h] = 0
           /\ at'[u] = "done" => fold'[u][h] = 1
    BY <2>1, <2>5, <2>6 DEF FoldsInv, HeldItems
  <2>9. \A h \in Items : item'[h] = "finished" => \E u \in MapTasks : fold'[u][h] = 1
    BY <2>1, <2>2, <2>3, <2>5 DEF FoldsInv, FinishedItems
  <2>10. ASSUME NEW h \in Items, item'[h] = "running"
         PROVE  \E u \in MapTasks :
                   cur'[u] = h /\ task'[u] \in {"running", "failed"} /\ at'[u] # "claim"
    <3>1. h # i /\ item[h] = "running"  BY <2>5, <2>10
    <3>2. PICK u \in MapTasks :
             cur[u] = h /\ task[u] \in {"running", "failed"} /\ at[u] # "claim"
      BY <3>1 DEF FoldsInv, RunningItems
    <3>3. u # t  BY <3>1, <3>2 DEF i
    <3> QED  BY <2>1, <2>5, <3>2, <3>3
  <2>11. \A u \in MapTasks : task'[u] = "finished" => Ready' = {}
    BY <2>1, <2>5 DEF FoldsInv, DrainedFirst, Ready
  <2>12. \A u, v \in MapTasks, h \in Items : Has(u, h)' /\ Has(v, h)' => u = v
    BY <2>6 DEF FoldsInv, HeldOnce
  <2>13. \A u, v \in MapTasks, h \in Items : fold'[u][h] # 0 /\ fold'[v][h] # 0 => u = v
    BY <2>1 DEF FoldsInv, FoldedOnce
  <2> QED
    BY <2>7, <2>8, <2>9, <2>10, <2>11, <2>12, <2>13
      DEF FoldsInv, FoldedOnce, FoldedItems, HeldOnce, HeldItems, FinishedItems, RunningItems, DrainedFirst
<1>10. ASSUME NEW t \in Tasks, NoItem(t) \/ RaiseInTask(t) PROVE FoldsInv'
  <2>1. /\ at' = [at EXCEPT ![t] = "end"] /\ UNCHANGED <<item, cur, fold>>
        /\ at[t] \in {"claim", "fold", "done"}
        /\ \/ at[t] = "claim" /\ Ready = {} /\ EndTask(t, "finished")
           \/ EndTask(t, "failed")
    BY <1>10 DEF NoItem, RaiseInTask
  <2>2. task[t] = "running"  BY <2>1 DEF SubmissionInv, AtMatchesTask
  <2>3. /\ \A u \in MapTasks : u # t => task'[u] = task[u]
        /\ \/ task'[t] = "failed"
           \/ task'[t] = "finished" /\ at[t] = "claim" /\ Ready = {}
    BY <2>1, <2>2, EndTaskShape
  <2>4. at'[t] = "end" /\ \A u \in Tasks : u # t => at'[u] = at[u]
    BY <2>1 DEF Types
  <2> QED  BY <2>1, <2>2, <2>3, <2>4, FoldsOfStay DEF FoldsStay
<1>11. CASE FoldPartial
  <2>1. /\ cur' = [cur EXCEPT ![Reduce] = cur[Reduce] + 1]
        /\ fold' = [fold EXCEPT ![Reduce] = Plus(@, fold[cur[Reduce] + 1])]
        /\ UNCHANGED <<item, task, at>>
    BY <1>11 DEF FoldPartial
  <2>2. \A t \in MapTasks : cur'[t] = cur[t] /\ fold'[t] = fold[t]
    BY <2>1 DEF Types
  <2>3. Ready' = Ready  BY <2>1 DEF Ready
  <2>4. \A t \in MapTasks, i \in Items : Has(t, i)' = Has(t, i)
    BY <2>1, <2>2 DEF Has
  <2> QED  BY <2>1, <2>2, <2>3, <2>4
    DEF FoldsInv, FoldedOnce, FoldedItems, HeldOnce, HeldItems, FinishedItems, RunningItems, DrainedFirst
<1>12. CASE EndReduce
  <2>1. /\ at' = [at EXCEPT ![Reduce] = "end"] /\ UNCHANGED <<item, cur, fold>>
        /\ at[Reduce] = "fold" /\ EndTask(Reduce, "finished")
    BY <1>12 DEF EndReduce
  <2>2. task[Reduce] = "running"  BY <2>1 DEF SubmissionInv, AtMatchesTask
  <2>3. \A t \in MapTasks : task'[t] = task[t] /\ at'[t] = at[t]
    BY <2>1, <2>2, EndTaskShape DEF Types
  <2> QED  BY <2>1, <2>3, FoldsOfStay DEF FoldsStay
<1>13. ASSUME NEW t \in Tasks, LoseTask(t) PROVE FoldsInv'
  <2>1. /\ at[t] \in {"claim", "fold", "done"} /\ at' = [at EXCEPT ![t] = "lost"]
        /\ UNCHANGED <<item, task, cur, fold>>
    BY <1>13 DEF LoseTask
  <2>2. at'[t] = "lost" /\ \A u \in Tasks : u # t => at'[u] = at[u]
    BY <2>1 DEF Types
  <2> QED  BY <2>1, <2>2, FoldsOfStay DEF FoldsStay
<1> QED
  BY <1>1, <1>2, <1>3, <1>4, <1>5, <1>6, <1>7, <1>8, <1>9, <1>10, <1>11, <1>12, <1>13
  DEF Next, Driver, Worker

-----------------------------------------------------------------------------
(* What the reduce task and the wait gathered.                             *)

Once(cond) == IF cond THEN 1 ELSE 0

(* The reduce task holds the items of the partial results it folded, all   *)
(* of finished map tasks.                                                  *)
ReducedInv ==
    /\ cur[Reduce] <= NumTasks
    /\ \A t \in 1..cur[Reduce] : task[t] = "finished"
    /\ \A i \in Items :
          fold[Reduce][i] = Once(\E t \in 1..cur[Reduce] : fold[t][i] # 0)
    /\ task[Reduce] = "finished" => cur[Reduce] = NumTasks

(* The answer holds those of the outputs the wait took, once more.         *)
TakenInv ==
    /\ \A t \in taken : t \in Waited /\ task[t] = "finished"
    /\ ~call.reduce =>
          \A i \in Items : answer[i] = Once(\E t \in taken : fold[t][i] # 0)
    /\ call.reduce =>
          answer = IF Reduce \in taken THEN fold[Reduce] ELSE Empty

LEMMA GatheredInit == Init => ReducedInv /\ TakenInv
<1> SUFFICES ASSUME Init PROVE ReducedInv /\ TakenInv
  OBVIOUS
<1>1. NumTasks \in Nat  BY NumTasksType, TypesInit, ConstantsOK DEF Types
<1> QED  BY <1>1, TaskNumbers DEF Init, ReducedInv, TakenInv, Once, Empty

LEMMA WaitedType ==
  ASSUME Types
  PROVE  /\ Waited \subseteq Tasks
         /\ ~call.reduce => Waited = 1..NumTasks /\ Waited \subseteq MapTasks
         /\ \A t \in Waited : t # Reduce => t \in 1..NumTasks
BY NumTasksType, TaskNumbers DEF Types, Waited

(* Steps that leave finished tasks, their folds and the wait alone.        *)
OthersMove ==
    /\ \A t \in Tasks : task[t] = "finished" => task'[t] = "finished" /\ fold'[t] = fold[t]
    /\ UNCHANGED <<call, taken, answer>>

LEMMA TakenOfOthers ==
  ASSUME Types, TakenInv, OthersMove
  PROVE  TakenInv'
<1>1. Waited' = Waited  BY DEF OthersMove, Waited, NumTasks
<1>2. \A t \in taken : t \in Tasks /\ task[t] = "finished"
  BY WaitedType DEF TakenInv
<1>3. \A t \in taken : task'[t] = "finished" /\ fold'[t] = fold[t]
  BY <1>2 DEF OthersMove
<1>4. \A i \in Items : (\E t \in taken : fold'[t][i] # 0) <=> (\E t \in taken : fold[t][i] # 0)
  BY <1>3
<1>5. call'.reduce = call.reduce /\ taken' = taken /\ answer' = answer
  BY DEF OthersMove
<1>6. ~call.reduce =>
         \A i \in Items : answer'[i] = Once(\E t \in taken' : fold'[t][i] # 0)
  BY <1>4, <1>5 DEF TakenInv, Once
<1>7. call.reduce => answer' = IF Reduce \in taken' THEN fold'[Reduce] ELSE Empty
  BY <1>3, <1>5 DEF TakenInv
<1> QED  BY <1>1, <1>3, <1>5, <1>6, <1>7 DEF TakenInv, Empty

LEMMA ReducedOfOthers ==
  ASSUME Types, ReducedInv, OthersMove,
         cur'[Reduce] = cur[Reduce], fold'[Reduce] = fold[Reduce],
         task'[Reduce] = "finished" => task[Reduce] = "finished"
  PROVE  ReducedInv'
<1>1. NumTasks' = NumTasks  BY DEF OthersMove, NumTasks
<1>2. 1..cur[Reduce] \subseteq Tasks
  <2>1. cur[Reduce] \in Nat  BY TaskNumbers DEF Types
  <2>2. 1..cur[Reduce] \subseteq 1..NumTasks
    BY <2>1, NumTasksType, ConstantsOK DEF ReducedInv, Types
  <2> QED  BY <2>2, NumTasksType, TaskNumbers DEF Types
<1>3. \A t \in 1..cur[Reduce] : task'[t] = "finished" /\ fold'[t] = fold[t]
  BY <1>2 DEF ReducedInv, OthersMove
<1>4. \A i \in Items : (\E t \in 1..cur[Reduce] : fold'[t][i] # 0)
                          <=> (\E t \in 1..cur[Reduce] : fold[t][i] # 0)
  BY <1>3
<1>5. \A i \in Items :
         fold'[Reduce][i] = Once(\E t \in 1..cur'[Reduce] : fold'[t][i] # 0)
  BY <1>4 DEF ReducedInv, Once
<1> QED  BY <1>1, <1>3, <1>5 DEF ReducedInv

(* A step of a task that is not finished, and not one of the two steps     *)
(* that end a partial result's way.                                        *)
LEMMA TaskMoves ==
  ASSUME Types, SubmissionInv, NEW t \in Tasks,
         \/ RunTask(t) \/ ClaimItem(t) \/ FoldItem(t) \/ DoneItem(t) \/ NoItem(t)
         \/ RaiseInTask(t) \/ LoseTask(t)
  PROVE  /\ OthersMove
         /\ cur'[Reduce] = cur[Reduce] /\ fold'[Reduce] = fold[Reduce]
         /\ task'[Reduce] = "finished" => task[Reduce] = "finished"
<1> USE TaskNumbers DEF driverVars
<1>1. CASE RunTask(t)  BY <1>1 DEF RunTask, OthersMove, Types
<1>2. CASE ClaimItem(t)
  <2>1. t # Reduce  BY <1>2 DEF ClaimItem, Types
  <2> QED  BY <1>2, <2>1 DEF ClaimItem, OthersMove, Types
<1>3. CASE FoldItem(t)
  <2>1. task[t] # "finished"  BY <1>3 DEF FoldItem, SubmissionInv, AtMatchesTask
  <2> QED  BY <1>3, <2>1 DEF FoldItem, OthersMove, Types
<1>4. CASE DoneItem(t)  BY <1>4 DEF DoneItem, OthersMove
<1>5. CASE NoItem(t) \/ RaiseInTask(t)
  <2>1. /\ at[t] \in {"claim", "fold", "done"} /\ UNCHANGED <<driverVars, cur, fold>>
        /\ \/ t # Reduce /\ EndTask(t, "finished")
           \/ EndTask(t, "failed")
    BY <1>5 DEF NoItem, RaiseInTask, Types
  <2>2. task[t] = "running"  BY <2>1 DEF SubmissionInv, AtMatchesTask
  <2>3. /\ \A u \in MapTasks : u # t => task'[u] = task[u]
        /\ task'[Reduce] = "finished" => task[Reduce] = "finished"
        /\ task[Reduce] = "finished" => task'[Reduce] = "finished"
    BY <2>1, <2>2, EndTaskShape
  <2> QED  BY <2>1, <2>2, <2>3 DEF OthersMove
<1>6. CASE LoseTask(t)  BY <1>6 DEF LoseTask, OthersMove
<1> QED  BY <1>1, <1>2, <1>3, <1>4, <1>5, <1>6

LEMMA GatheredStep ==
  ASSUME Types, Types', SubmissionInv, FoldsInv, ReducedInv, TakenInv, [Next]_vars
  PROVE  ReducedInv' /\ TakenInv'
<1> USE TaskNumbers
<1>0. NumTasks \in Nat /\ 1..NumTasks \subseteq MapTasks
  BY NumTasksType, ConstantsOK DEF Types
<1>1. CASE \/ BeginCall \/ MeetFailure \/ EndCall \/ BreakCall \/ UNCHANGED vars
           \/ \E i \in Items : EnqueueItem(i)
  <2>1. UNCHANGED <<call, taken, answer, task, cur, fold>>
    BY <1>1
    DEF BeginCall, MeetFailure, EndCall, BreakCall, EnqueueItem, vars, driverVars, workerVars
  <2>2. OthersMove  BY <2>1 DEF OthersMove
  <2> QED  BY <2>1, <2>2, ReducedOfOthers, TakenOfOthers
<1>2. CASE SubmitReduce \/ \E t \in MapTasks : SubmitMapTask(t)
  <2>1. /\ UNCHANGED <<call, taken, answer, cur, fold>>
        /\ \A t \in Tasks : task[t] # "none" => task'[t] = task[t]
        /\ task'[Reduce] # "finished"
    BY <1>2
    DEF SubmitReduce, SubmitMapTask, ReduceState, workerVars, Types, SubmissionInv
  <2>2. OthersMove  BY <2>1 DEF OthersMove
  <2> QED  BY <2>1, <2>2, ReducedOfOthers, TakenOfOthers
<1>3. ASSUME NEW t \in Tasks, TakeOutput(t) PROVE ReducedInv' /\ TakenInv'
  <2>1. /\ t \in Waited \ taken /\ task[t] = "finished" /\ taken' = taken \cup {t}
        /\ answer' = IF call.reduce /\ t # Reduce THEN answer ELSE Plus(answer, fold[t])
        /\ UNCHANGED <<call, item, task, cur, fold>>
    BY <1>3 DEF TakeOutput, workerVars
  <2>2. ReducedInv'  BY <2>1 DEF ReducedInv, NumTasks
  <2>3. Waited' = Waited  BY <2>1 DEF Waited, NumTasks
  <2>4. ASSUME ~call.reduce, NEW i \in Items
        PROVE  answer'[i] = Once(\E u \in taken' : fold[u][i] # 0)
    <3>1. t \in MapTasks /\ taken \subseteq MapTasks
      BY <2>1, <2>4, WaitedType DEF TakenInv
    <3>2. answer'[i] = answer[i] + fold[t][i]  BY <2>1, <2>4 DEF Plus
    <3>3. answer[i] = Once(\E u \in taken : fold[u][i] # 0)  BY <2>4 DEF TakenInv
    <3>4. fold[t][i] \in {0, 1}  BY <3>1 DEF FoldsInv, FoldedItems
    <3>5. CASE fold[t][i] = 0
      <4>1. (\E u \in taken' : fold[u][i] # 0) <=> (\E u \in taken : fold[u][i] # 0)
        BY <2>1, <3>5
      <4> QED  BY <3>2, <3>3, <3>5, <4>1 DEF Once
    <3>6. CASE fold[t][i] = 1
      <4>1. \A u \in taken : fold[u][i] = 0
        BY <2>1, <3>1, <3>6 DEF FoldsInv, FoldedOnce
      <4>2. \E u \in taken' : fold[u][i] # 0  BY <2>1, <3>6
      <4> QED  BY <3>2, <3>3, <3>6, <4>1, <4>2 DEF Once
    <3> QED  BY <3>4, <3>5, <3>6
  <2>5. ASSUME call.reduce
        PROVE  answer' = IF Reduce \in taken' THEN fold[Reduce] ELSE Empty
    <3>1. CASE t # Reduce  BY <2>1, <2>5, <3>1 DEF TakenInv
    <3>2. CASE t = Reduce
      <4>1. answer = Empty  BY <2>1, <2>5, <3>2 DEF TakenInv
      <4>2. fold[Reduce] \in [Items -> Nat]  BY DEF Types
      <4>3. \A f \in [Items -> Nat] : Plus(Empty, f) = f
        <5> SUFFICES ASSUME NEW f \in [Items -> Nat]
                     PROVE  \A i \in Items : Empty[i] + f[i] = f[i]
          BY DEF Plus
        <5> QED  BY DEF Empty
      <4> QED  BY <2>1, <3>2, <4>1, <4>2, <4>3
    <3> QED  BY <3>1, <3>2
  <2>6. \A u \in taken' : u \in Waited' /\ task'[u] = "finished"
    BY <2>1, <2>3 DEF TakenInv
  <2>7. call' = call /\ fold' = fold  BY <2>1
  <2>8. TakenInv'  BY <2>4, <2>5, <2>6, <2>7 DEF TakenInv, Empty
  <2> QED  BY <2>2, <2>8
<1>4. CASE FoldPartial
  <2> DEFINE t == cur[Reduce] + 1
  <2>1. /\ at[Reduce] = "fold" /\ cur[Reduce] < NumTasks /\ task[t] = "finished"
        /\ fold' = [fold EXCEPT ![Reduce] = Plus(fold[Reduce], fold[t])]
        /\ cur' = [cur EXCEPT ![Reduce] = t]
        /\ UNCHANGED <<driverVars, item, task, at>>
    BY <1>4 DEF FoldPartial
  <2>2. cur[Reduce] \in Nat /\ t \in 1..NumTasks /\ t \in MapTasks
    BY <1>0, <2>1 DEF Types
  <2>3. task[Reduce] # "finished"
    BY <2>1 DEF SubmissionInv, AtMatchesTask
  <2>4. /\ cur'[Reduce] = t /\ fold'[Reduce] = Plus(fold[Reduce], fold[t])
        /\ \A u \in Tasks : u # Reduce => fold'[u] = fold[u]
    BY <2>1 DEF Types
  <2>5. OthersMove  BY <2>1, <2>3, <2>4 DEF OthersMove, driverVars
  <2>6. \A u \in 1..cur[Reduce] : u \in MapTasks /\ u # t /\ task[u] = "finished"
    BY <1>0, <2>1, <2>2 DEF ReducedInv
  <2>7. 1..t = 1..cur[Reduce] \cup {t}  BY <2>2
  <2>8. ASSUME NEW i \in Items
        PROVE  fold'[Reduce][i] = Once(\E u \in 1..t : fold'[u][i] # 0)
    <3>1. (\E u \in 1..t : fold'[u][i] # 0) <=> (\E u \in 1..t : fold[u][i] # 0)
      BY <2>2, <2>4, <2>6, <2>7
    <3>2. fold'[Reduce][i] = fold[Reduce][i] + fold[t][i]  BY <2>4 DEF Plus
    <3>3. fold[Reduce][i] = Once(\E u \in 1..cur[Reduce] : fold[u][i] # 0)
      BY DEF ReducedInv
    <3>4. fold[t][i] \in {0, 1}  BY <2>2 DEF FoldsInv, FoldedItems
    <3>5. CASE fold[t][i] = 0
      <4>1. (\E u \in 1..t : fold[u][i] # 0) <=> (\E u \in 1..cur[Reduce] : fold[u][i] # 0)
        BY <2>7, <3>5
      <4> QED  BY <3>1, <3>2, <3>3, <3>5, <4>1 DEF Once
    <3>6. CASE fold[t][i] = 1
      <4>1. \A u \in 1..cur[Reduce] : fold[u][i] = 0
        BY <2>2, <2>6, <3>6 DEF FoldsInv, FoldedOnce, Types
      <4>2. \E u \in 1..t : fold[u][i] # 0  BY <2>7, <3>6
      <4> QED  BY <3>1, <3>2, <3>3, <3>6, <4>1, <4>2 DEF Once
    <3> QED  BY <3>4, <3>5, <3>6
  <2>9. NumTasks' = NumTasks /\ task' = task  BY <2>1 DEF NumTasks, driverVars
  <2>10. \A u \in 1..t : task[u] = "finished"  BY <2>1, <2>6, <2>7
  <2> HIDE DEF t
  <2>11. ReducedInv'
    BY <1>0, <2>2, <2>3, <2>4, <2>8, <2>9, <2>10 DEF ReducedInv, Once
  <2> QED  BY <2>5, <2>11, TakenOfOthers
<1>5. CASE EndReduce
  <2>1. /\ at[Reduce] = "fold" /\ cur[Reduce] = NumTasks /\ EndTask(Reduce, "finished")
        /\ UNCHANGED <<driverVars, item, cur, fold>>
    BY <1>5 DEF EndReduce
  <2>2. task[Reduce] = "running"  BY <2>1 DEF SubmissionInv, AtMatchesTask
  <2>3. \A u \in MapTasks : task'[u] = task[u]
    BY <2>1, <2>2, EndTaskShape
  <2>4. OthersMove  BY <2>1, <2>2, <2>3 DEF OthersMove, driverVars
  <2>5. NumTasks' = NumTasks  BY <2>1 DEF NumTasks, driverVars
  <2>6. \A u \in 1..NumTasks : task'[u] = "finished"
    BY <1>0, <2>1, <2>3 DEF ReducedInv
  <2>7. ReducedInv'  BY <1>0, <2>1, <2>5, <2>6 DEF ReducedInv
  <2> QED  BY <2>4, <2>7, TakenOfOthers
<1>6. ASSUME NEW t \in Tasks,
             \/ RunTask(t) \/ ClaimItem(t) \/ FoldItem(t) \/ DoneItem(t) \/ NoItem(t)
             \/ RaiseInTask(t) \/ LoseTask(t)
      PROVE  ReducedInv' /\ TakenInv'
  BY <1>6, TaskMoves, ReducedOfOthers, TakenOfOthers
<1> QED
  BY <1>1, <1>2, <1>3, <1>4, <1>5, <1>6 DEF Next, Driver, Worker

CallInv == Types /\ SubmissionInv /\ FoldsInv /\ ReducedInv /\ TakenInv

(* The inductive invariant: who holds each item, and who counted it.       *)
THEOREM CallInvariant == Spec => []CallInv
<1>1. Init => CallInv
  BY TypesInit, SubmissionInit, FoldsInit, GatheredInit DEF CallInv
<1>2. CallInv /\ [Next]_vars => CallInv'
  <2> SUFFICES ASSUME CallInv, [Next]_vars PROVE CallInv'
    OBVIOUS
  <2>1. Types'  BY TypesStep DEF CallInv, SubmissionInv
  <2>2. SubmissionInv'  BY <2>1, SubmissionStep DEF CallInv
  <2>3. FoldsInv'  BY <2>1, <2>2, FoldsStep DEF CallInv
  <2>4. ReducedInv' /\ TakenInv'  BY <2>1, GatheredStep DEF CallInv
  <2> QED  BY <2>1, <2>2, <2>3, <2>4 DEF CallInv
<1> QED  BY <1>1, <1>2, PTL DEF Spec

(* Every variable keeps its type; with it, no fold holds an item twice,    *)
(* however the claims, the folds and the failures of the tasks interleave. *)
THEOREM TypeCorrect == Spec => []TypeOK
<1>1. ASSUME CallInv PROVE TypeOK
  <2>1. Types  BY <1>1 DEF CallInv
  <2>2. ASSUME NEW t \in Tasks, NEW i \in Items PROVE fold[t][i] \in 0..1
    <3>1. CASE t = Reduce  BY <1>1, <3>1 DEF CallInv, ReducedInv, Once
    <3>2. CASE t # Reduce
      BY <1>1, <3>2, TaskNumbers DEF CallInv, FoldsInv, FoldedItems
    <3> QED  BY <3>1, <3>2
  <2>3. fold \in [Tasks -> [Items -> 0..1]]
    <3>1. \A t \in Tasks : fold[t] \in [Items -> 0..1]  BY <2>1, <2>2 DEF Types
    <3> QED  BY <2>1, <3>1 DEF Types
  <2>4. answer \in [Items -> 0..1]
    <3>1. CASE call.reduce
      BY <1>1, <2>3, <3>1, TaskNumbers DEF CallInv, TakenInv, Empty
    <3>2. CASE ~call.reduce
      <4>1. \A i \in Items : answer[i] \in 0..1
        BY <1>1, <3>2 DEF CallInv, TakenInv, Once
      <4> QED  BY <2>1, <4>1 DEF Types
    <3> QED  BY <3>1, <3>2
  <2> QED
    BY <2>1, <2>3, <2>4
    DEF TypeOK, Types, CallType, Phases, Outcomes, ItemStates, TaskStates, Places
<1> QED  BY <1>1, CallInvariant, PTL

(* "Finished on the item queue means counted."                             *)
THEOREM FinishedMeansCountedAlways == Spec => []FinishedMeansCounted
<1>1. CallInv => FinishedMeansCounted
  BY DEF CallInv, FoldsInv, FinishedItems, FinishedMeansCounted
<1> QED  BY <1>1, CallInvariant, PTL

-----------------------------------------------------------------------------
(* The promise.                                                            *)

(* Once every map task finished, their folds hold the items of the call.   *)
LEMMA AllFolded ==
  ASSUME CallInv, phase = "wait",
         \A t \in 1..NumTasks : task[t] = "finished"
  PROVE  \A i \in Items : (\E t \in 1..NumTasks : fold[t][i] # 0) <=> i <= call.items
<1> USE DEF CallInv
<1>1. /\ call.items # 0 /\ NumTasks \in MapTasks /\ call.items \in 0..MaxItems
      /\ NumTasks \in Nat /\ NumTasks >= 1 /\ call.items \in Nat
  BY NumTasksType, ConstantsOK DEF SubmissionInv, Types, MapTasks
<1>2. \A t \in MapTasks : t <= NumTasks => task[t] = "finished"
  BY <1>1, TaskNumbers DEF MapTasks
<1>3. \A t \in MapTasks : t > NumTasks => task[t] = "none"
  BY DEF SubmissionInv
<1>4. \A t \in MapTasks : task[t] \in {"finished", "none"}
  BY <1>1, <1>2, <1>3 DEF MapTasks
<1>5. Ready = {}  BY <1>1, <1>2 DEF FoldsInv, DrainedFirst
<1>6. ASSUME NEW i \in Items, i <= call.items
      PROVE  \E t \in 1..NumTasks : fold[t][i] # 0
  <2>1. item[i] # "none"
    BY <1>1, <1>6 DEF SubmissionInv, Submitted, Items
  <2>2. item[i] # "ready"  BY <1>5 DEF Ready
  <2>3. item[i] # "running"  BY <1>4 DEF FoldsInv, RunningItems
  <2>4. item[i] = "finished"
    BY <2>1, <2>2, <2>3 DEF Types, ItemStates
  <2>5. PICK t \in MapTasks : fold[t][i] = 1
    BY <2>4 DEF FoldsInv, FinishedItems
  <2>6. at[t] # "start"  BY <2>5 DEF FoldsInv, FoldedItems
  <2>7. task[t] # "none"
    BY <2>6, TaskNumbers DEF SubmissionInv, AtMatchesTask
  <2>8. t \in 1..NumTasks  BY <1>1, <1>3, <2>7 DEF MapTasks
  <2> QED  BY <2>5, <2>8
<1>7. ASSUME NEW i \in Items, NEW t \in 1..NumTasks, fold[t][i] # 0
      PROVE  i <= call.items
  <2>1. t \in MapTasks  BY NumTasksType DEF Types
  <2>2. item[i] # "none"  BY <1>7, <2>1 DEF FoldsInv, FoldedItems
  <2> QED  BY <1>1, <2>2 DEF SubmissionInv, Items
<1> QED  BY <1>6, <1>7

(* A call whose wait took every output holds every item once.              *)
LEMMA AnswerComplete ==
  ASSUME CallInv, phase = "wait", taken = Waited
  PROVE  answer = [i \in Items |-> IF i \in 1..call.items THEN 1 ELSE 0]
<1> USE DEF CallInv
<1>1. \A t \in 1..NumTasks : task[t] = "finished"
  BY DEF TakenInv, Waited
<1>2. \A i \in Items : (\E t \in 1..NumTasks : fold[t][i] # 0) <=> i <= call.items
  BY <1>1, AllFolded
<1>3. \A i \in Items : i \in 1..call.items <=> i <= call.items
  BY NumTasksType, ConstantsOK DEF Types, Items
<1>4. CASE ~call.reduce
  <2>1. Waited = 1..NumTasks  BY <1>4, WaitedType
  <2>2. \A i \in Items : answer[i] = Once(\E t \in 1..NumTasks : fold[t][i] # 0)
    BY <1>4, <2>1 DEF TakenInv
  <2>3. \A i \in Items : answer[i] = IF i \in 1..call.items THEN 1 ELSE 0
    BY <1>2, <1>3, <2>2 DEF Once
  <2> QED  BY <2>3 DEF Types
<1>5. CASE call.reduce
  <2>1. Reduce \in taken  BY <1>5 DEF Waited
  <2>2. task[Reduce] = "finished" /\ answer = fold[Reduce]
    BY <1>5, <2>1 DEF TakenInv
  <2>3. cur[Reduce] = NumTasks  BY <2>2 DEF ReducedInv
  <2>4. \A i \in Items : fold[Reduce][i] = Once(\E t \in 1..NumTasks : fold[t][i] # 0)
    BY <2>3 DEF ReducedInv
  <2>5. \A i \in Items : answer[i] = IF i \in 1..call.items THEN 1 ELSE 0
    BY <1>2, <1>3, <2>2, <2>4 DEF Once
  <2> QED  BY <2>5 DEF Types
<1> QED  BY <1>4, <1>5

(* How the outcome of the call may change.                                 *)
LEMMA OutcomeSteps ==
  ASSUME CallInv, [Next]_vars
  PROVE  /\ call' = call
         /\ \/ outcome' = outcome /\ (outcome # "none" => answer' = answer)
            \/ /\ outcome = "none" /\ answer' = answer
               /\ \/ outcome' \in {"broken", "failed"}
                  \/ /\ outcome' = "returned"
                     /\ answer = [i \in Items |-> IF i \in 1..call.items THEN 1 ELSE 0]
<1> USE DEF driverVars, workerVars, vars
<1>0. outcome = "none" <=> phase # "done"  BY DEF CallInv, SubmissionInv
<1>1. CASE BeginCall
  <2>1. CASE call.items = 0
    <3>1. outcome' = "returned" /\ UNCHANGED <<call, answer, taken>> /\ phase = "idle"
      BY <1>1, <2>1 DEF BeginCall, Leave
    <3>2. \A t \in Tasks : task[t] = "none"
      BY <3>1 DEF CallInv, SubmissionInv
    <3>3. taken = {}
      BY <3>2, WaitedType DEF CallInv, TakenInv
    <3>4. answer = Empty
      <4>1. CASE call.reduce  BY <3>3, <4>1 DEF CallInv, TakenInv
      <4>2. CASE ~call.reduce
        <5>1. \A i \in Items : answer[i] = 0
          BY <3>3, <4>2 DEF CallInv, TakenInv, Once
        <5> QED  BY <5>1 DEF CallInv, Types, Empty
      <4> QED  BY <4>1, <4>2
    <3> QED  BY <1>0, <2>1, <3>1, <3>4 DEF Empty
  <2>2. CASE call.items # 0
    BY <1>0, <1>1, <2>2 DEF BeginCall, Leave
  <2> QED  BY <2>1, <2>2
<1>2. CASE SubmitReduce  BY <1>2 DEF SubmitReduce
<1>3. CASE MeetFailure
  <2>1. PICK t \in Waited :
           /\ task[t] \in {"failed", "dependency"}
           /\ t = Reduce => \A u \in 1..NumTasks : task[u] # "failed"
           /\ Leave(task[t])
    BY <1>3 DEF MeetFailure
  <2>2. task[t] = "failed"
    <3>1. CASE t = Reduce
      BY <2>1, <3>1 DEF CallInv, SubmissionInv
    <3>2. CASE t # Reduce
      <4>1. t \in MapTasks  BY <3>2, WaitedType, TaskNumbers DEF CallInv
      <4> QED  BY <2>1, <4>1 DEF CallInv, SubmissionInv
    <3> QED  BY <3>1, <3>2
  <2> QED  BY <1>0, <1>3, <2>1, <2>2 DEF MeetFailure, Leave
<1>4. CASE EndCall
  <2>1. /\ phase = "wait" /\ taken = Waited /\ UNCHANGED <<call, answer>>
        /\ outcome' = IF ~call.reduce /\ \E i \in 1..call.items : answer[i] = 0
                      THEN "missing" ELSE "returned"
    BY <1>4 DEF EndCall, Leave
  <2>2. answer = [i \in Items |-> IF i \in 1..call.items THEN 1 ELSE 0]
    BY <2>1, AnswerComplete
  <2>3. \A i \in 1..call.items : answer[i] = 1
    BY <2>2, NumTasksType DEF CallInv, Types
  <2> QED  BY <1>0, <2>1, <2>2, <2>3
<1>5. CASE \E i \in Items : EnqueueItem(i)  BY <1>5 DEF EnqueueItem
<1>6. CASE \E t \in MapTasks : SubmitMapTask(t)  BY <1>6 DEF SubmitMapTask
<1>7. CASE \E t \in Tasks : TakeOutput(t)
  BY <1>0, <1>7 DEF TakeOutput
<1>8. CASE BreakCall  BY <1>0, <1>8 DEF BreakCall, Leave
<1>9. CASE \E t \in Tasks : Worker(t) \/ RaiseInTask(t) \/ LoseTask(t)
  BY <1>9
  DEF Worker, RunTask, ClaimItem, FoldItem, DoneItem, NoItem, FoldPartial, EndReduce,
      RaiseInTask, LoseTask
<1>10. CASE UNCHANGED vars  BY <1>10
<1> QED
  BY <1>1, <1>2, <1>3, <1>4, <1>5, <1>6, <1>7, <1>8, <1>9, <1>10 DEF Next, Driver

(* map's last check, which "signals a bug in this library", never fires.   *)
THEOREM NeverMissingAlways == Spec => []NeverMissing
<1>1. Init => NeverMissing  BY DEF Init, NeverMissing
<1>2. CallInv /\ NeverMissing /\ [Next]_vars => NeverMissing'
  BY OutcomeSteps DEF NeverMissing
<1> QED  BY <1>1, <1>2, CallInvariant, PTL DEF Spec

(* "The call reports the map task's own error first", never the dependency *)
(* failure of the reduce task.                                             *)
THEOREM OwnErrorFirstAlways == Spec => []OwnErrorFirst
<1>1. Init => OwnErrorFirst  BY DEF Init, OwnErrorFirst
<1>2. CallInv /\ OwnErrorFirst /\ [Next]_vars => OwnErrorFirst'
  BY OutcomeSteps DEF OwnErrorFirst
<1> QED  BY <1>1, <1>2, CallInvariant, PTL DEF Spec

(* map and map_reduce implement MapPromise: a call returns a result that   *)
(* holds every item of its iterable exactly once, or it raises.            *)
THEOREM PromiseAlwaysKept == Spec => PromiseKept
<1> DEFINE asked  == 1..call.items
           status == CASE outcome \in {"none", "returned"} -> outcome [] OTHER -> "raised"
           result == IF outcome = "returned" THEN answer ELSE Empty
<1>1. Init => Promise!Init
  <2> SUFFICES ASSUME Init PROVE Promise!Init
    OBVIOUS
  <2>1. asked \subseteq Items
    BY TypesInit, NumTasksType DEF Types
  <2>2. outcome = "none" /\ status = "none" /\ result = Empty
    BY DEF Init
  <2>3. Empty = Promise!Times({})  BY DEF Empty, Promise!Times
  <2> QED  BY <2>1, <2>2, <2>3 DEF Promise!Init
<1>2. CallInv /\ [Next]_vars
         => [Promise!Return \/ Promise!Raise]_<<asked, status, result>>
  <2> SUFFICES ASSUME CallInv, [Next]_vars
               PROVE  \/ Promise!Return \/ Promise!Raise
                      \/ UNCHANGED <<asked, status, result>>
    OBVIOUS
  <2>1. call' = call  BY OutcomeSteps
  <2>2. CASE outcome' = outcome /\ (outcome # "none" => answer' = answer)
    BY <2>1, <2>2 DEF Empty
  <2>3. CASE outcome = "none" /\ outcome' \in {"broken", "failed"}
    <3>1. Promise!Raise  BY <2>1, <2>3 DEF Promise!Raise, Empty
    <3> QED  BY <3>1
  <2>4. CASE /\ outcome = "none" /\ outcome' = "returned" /\ answer' = answer
             /\ answer = [i \in Items |-> IF i \in 1..call.items THEN 1 ELSE 0]
    <3>1. Promise!Return  BY <2>1, <2>4 DEF Promise!Return, Promise!Times
    <3> QED  BY <3>1
  <2> QED  BY <2>2, <2>3, <2>4, OutcomeSteps
<1> QED
  BY <1>1, <1>2, CallInvariant, PTL DEF Spec, PromiseKept, Promise!Spec

=============================================================================
