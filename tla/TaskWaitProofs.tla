---------------------------- MODULE TaskWaitProofs ----------------------------
(* Proofs about TaskWait, for every value of its constants. *)
EXTENDS TaskWait, FilterProofs, TLAPS

-----------------------------------------------------------------------------
(* What a step may do to the call: nothing; begin one; yield a task, drop  *)
(* starved tasks or go on in one; or leave it.                             *)

CallStays ==
    /\ UNCHANGED <<call, phase, starved, countVars, outcome>>
    /\ phase = "idle" => held' = held

Begins ==
    /\ phase = "idle" /\ phase' = "start" /\ outcome' = "none"
    /\ yielded' = {} /\ starved' = {}

Yields(t, p) ==
    /\ phase \notin {"idle", "start"} /\ p \notin {"idle", "start"}
    /\ Yield(t, p) /\ UNCHANGED <<call, starved>>

Drops ==
    /\ phase = "start" /\ phase' \notin {"idle", "start"}
    /\ starved' # {} => call.policy # First
    /\ UNCHANGED <<call, countVars, outcome>>

GoesOn ==
    /\ phase # "idle" /\ phase' \notin {"idle", "start"}
    /\ UNCHANGED <<call, starved, countVars, outcome>>

Leaves(how) ==
    /\ phase # "idle" /\ (\E n : LeaveWith(how, n)) /\ UNCHANGED call
    /\ phase # "start" => starved' = starved

(* A generator that waits for its caller is in a call. *)
HeldInCall == held => phase # "idle"

CallStep ==
    \/ CallStays \/ Begins \/ Drops \/ GoesOn
    \/ \E t, p : Yields(t, p)
    \/ \E how : Leaves(how)

LEMMA DropShape ==
  ASSUME NEW unserved, NEW p, NEW q, Drop(unserved, p, q)
  PROVE  \/ Leave("raised")
         \/ /\ phase' \in {p, q} /\ UNCHANGED <<countVars, outcome>>
            /\ unserved # {} => call.policy # First
BY DEF Drop, RaisesNow, Goto

LEMMA DeliverShape ==
  ASSUME NEW t, NEW p, p \notin {"idle", "start"}, phase \notin {"idle", "start"},
         Deliver(t, p), UNCHANGED <<call, starved>>
  PROVE  Yields(t, p) \/ \E how : Leaves(how)
BY DEF Deliver, CountFails, Yields, Leaves

LEMMA RoundShape ==
  ASSUME NEW t \in Tasks,
         \/ TakeFinished(t) \/ TakeFailed(t) \/ MissOutput(t) \/ TakeDead(t) \/ TakePending(t)
  PROVE  GoesOn \/ Yields(t, "round") \/ \E how : Leaves(how)
<1>1. phase = "round" /\ UNCHANGED <<call, starved>>
  BY DEF TakeFinished, TakeFailed, MissOutput, TakeDead, TakePending, Reach, At
<1>2. ASSUME Deliver(t, "round") PROVE Yields(t, "round") \/ \E how : Leaves(how)
  BY <1>1, <1>2, DeliverShape
<1>3. CASE TakeFinished(t)  BY <1>2, <1>3 DEF TakeFinished
<1>4. CASE TakeFailed(t)
  <2>1. Leave("raised") \/ Deliver(t, "round")  BY <1>4 DEF TakeFailed
  <2> QED  BY <1>1, <1>2, <2>1 DEF Leaves, Leave
<1>5. CASE MissOutput(t)  BY <1>1, <1>5 DEF MissOutput, Leaves, Leave
<1>6. CASE TakeDead(t)
  <2>1. \/ Leave("raised")
        \/ phase' = "round" /\ UNCHANGED <<countVars, outcome>>
    BY <1>6 DEF TakeDead, Goto
  <2> QED  BY <1>1, <2>1 DEF GoesOn, Leaves, Leave
<1>7. CASE TakePending(t)
  BY <1>1, <1>7 DEF TakePending, Goto, GoesOn
<1> QED  BY <1>3, <1>4, <1>5, <1>6, <1>7

LEMMA StepShape ==
  ASSUME HeldInCall, [Next]_vars
  PROVE  CallStep
<1> USE DEF CallStep
<1>1. CASE WorkerStep \/ Fault
  BY <1>1
  DEF WorkerStep, ClaimTask, FinishTask, FailTask, Fault, LoseTask, CancelTask, EndJobs,
      RestartServer, QueueStep, CallStays, dropVars
<1>2. ASSUME NEW t \in Tasks, Submit(t) PROVE CallStays
  BY <1>2 DEF Submit, CallStays, dropVars
<1>3. ASSUME NEW q \in Queues, ScaleUp(q) \/ ForgetJobs(q) PROVE CallStays
  BY <1>3 DEF ScaleUp, ForgetJobs, CallStays, dropVars
<1>4. ASSUME NEW list \in Lists, NEW policy \in Policies, NEW lazy \in BOOLEAN,
             BeginCall(list, policy, lazy)
      PROVE  Begins
  BY <1>4 DEF BeginCall, Begins
<1>5. CASE Resume  BY <1>5 DEF Resume, HeldInCall, CallStays, dropVars
<1>6. CASE CheckStarved
  <2>1. phase = "start" /\ Drop(starved', "cached", "cached") /\ UNCHANGED call
    BY <1>6 DEF CheckStarved, At
  <2> QED  BY <2>1, DropShape DEF Drops, Leaves, Leave
<1>7. CASE YieldCached
  <2>1. /\ phase = "cached" /\ Deliver(Head(todo), "cached")
        /\ UNCHANGED <<call, starved>>
    BY <1>7 DEF YieldCached, At, dropVars
  <2> QED  BY <2>1, DeliverShape
<1>8. CASE StartLoop \/ Poll \/ CheckAncestors \/ SqueueFails
  BY <1>8 DEF StartLoop, Poll, CheckAncestors, SqueueFails, At, Goto, Loop, GoesOn, dropVars
<1>9. CASE EndRound
  BY <1>9 DEF EndRound, At, Loop, GoesOn, dropVars
<1>10. CASE CheckStranded
  <2>1. PICK unserved : Drop(unserved, "end", "poll")
    BY <1>10 DEF CheckStranded
  <2>2. phase = "squeue" /\ UNCHANGED <<call, starved>>
    BY <1>10 DEF CheckStranded, At
  <2> QED  BY <2>1, <2>2, DropShape DEF GoesOn, Leaves, Leave
<1>11. CASE Finish \/ Break
  <2>1. /\ phase # "idle" /\ UNCHANGED <<call, starved>>
        /\ \E how : Leave(how)
    BY <1>11 DEF Finish, Break, At, dropVars
  <2> QED  BY <2>1 DEF Leaves, Leave
<1>12. CASE Abandon
  <2>1. phase # "idle" /\ UNCHANGED <<call, starved>> /\ Leave("abandoned")
    BY <1>12 DEF Abandon, HeldInCall, dropVars
  <2> QED  BY <2>1 DEF Leaves, Leave
<1>13. CASE UNCHANGED vars  BY <1>13 DEF vars, CallStays, dropVars
<1> QED
  BY <1>1, <1>2, <1>3, <1>4, <1>5, <1>6, <1>7, <1>8, <1>9, <1>10, <1>11, <1>12, <1>13,
     RoundShape DEF Next, DriverCall, LoopStep

LEMMA HeldInCallStep ==
  ASSUME HeldInCall, [Next]_vars
  PROVE  HeldInCall'
<1> USE DEF HeldInCall
<1>1. CASE CallStays  BY <1>1 DEF CallStays
<1>2. CASE Begins \/ Drops \/ GoesOn  BY <1>2 DEF Begins, Drops, GoesOn
<1>3. CASE \E t, p : Yields(t, p)  BY <1>3 DEF Yields, Yield
<1>4. CASE \E how : Leaves(how)  BY <1>4 DEF Leaves, Leave, LeaveWith, Goto
<1> QED  BY <1>1, <1>2, <1>3, <1>4, StepShape DEF CallStep

-----------------------------------------------------------------------------
(* The first check.                                                        *)

StarvedInv ==
    /\ phase = "start" => yielded = {} /\ starved = {}
    /\ starved # {} /\ call.policy = First => phase = "idle" /\ yielded = {}

(* The first check comes before the first yield: a call that raises for a  *)
(* queue nobody scaled has shown its caller nothing.                       *)
THEOREM StarvedAlwaysRaisesFirst == Spec => []StarvedRaisesFirst
<1>1. Init => HeldInCall /\ StarvedInv
  BY DEF Init, HeldInCall, StarvedInv
<1>2. HeldInCall /\ StarvedInv /\ [Next]_vars => StarvedInv'
  <2> SUFFICES ASSUME HeldInCall, StarvedInv, [Next]_vars PROVE StarvedInv'
    OBVIOUS
  <2> USE DEF StarvedInv, countVars
  <2>1. CASE CallStays  BY <2>1 DEF CallStays
  <2>2. CASE Begins  BY <2>2 DEF Begins
  <2>3. CASE Drops \/ GoesOn  BY <2>3 DEF Drops, GoesOn
  <2>4. ASSUME NEW t, NEW p, Yields(t, p) PROVE StarvedInv'
    BY <2>4 DEF Yields, Yield
  <2>5. ASSUME NEW how, Leaves(how) PROVE StarvedInv'
    BY <2>5 DEF Leaves, Leave, LeaveWith, Goto
  <2> QED  BY <2>1, <2>2, <2>3, <2>4, <2>5, StepShape DEF CallStep
<1>3. HeldInCall /\ [Next]_vars => HeldInCall'  BY HeldInCallStep
<1>4. StarvedInv => StarvedRaisesFirst  BY DEF StarvedInv, StarvedRaisesFirst
<1> QED  BY <1>1, <1>2, <1>3, <1>4, PTL DEF Spec

-----------------------------------------------------------------------------
(* Outputs.                                                                *)

(* What the server may hold of a task with that output. *)
Told(o) ==
    {"undefined", CASE o = "value" -> "finished" [] o = "error" -> "failed"
                    [] o = "dependency" -> "dependency"}

(* The last conjunct of OutputsAreHome. *)
OutputsTell == \A t \in Tasks : output[t] # "none" => server[t] \in Told(output[t])

(* A task the server knows, or that has an output, was submitted; so none  *)
(* is submitted again after the server restarted.                          *)
OutputInv ==
    /\ server \in [Tasks -> State]
    /\ output \in [Tasks -> {"none", "value", "error", "dependency"}]
    /\ \A t \in Tasks : server[t] # "undefined" \/ output[t] # "none" => t \in submitted
    /\ OutputsTell

(* The server forgets everything, or no task leaves the state it ended in. *)
ServerMoves ==
    /\ UNCHANGED <<submitted, output>>
    /\ server' \in [Tasks -> State]
    /\ \A t \in Tasks :
          \/ server'[t] = "undefined"
          \/ /\ server[t] # "undefined"
             /\ server[t] \in Ended => server'[t] = server[t]

LEMMA ServerShape ==
  ASSUME OutputInv, WorkerStep \/ Fault
  PROVE  ServerMoves
<1> USE DEF OutputInv, State, Ended, Failed, Blocking, QueueStep, handleVars
<1>1. ASSUME NEW t \in Tasks, ClaimTask(t) PROVE ServerMoves
  BY <1>1 DEF ClaimTask, ServerMoves
<1>2. ASSUME NEW t \in Tasks, FinishTask(t) PROVE ServerMoves
  BY <1>2 DEF FinishTask, ServerMoves
<1>3. ASSUME NEW t \in Tasks, FailTask(t) PROVE ServerMoves
  BY <1>3 DEF FailTask, ServerMoves
<1>4. ASSUME NEW t \in Tasks, LoseTask(t) PROVE ServerMoves
  BY <1>4 DEF LoseTask, ServerMoves
<1>5. ASSUME NEW t \in Tasks, CancelTask(t) PROVE ServerMoves
  BY <1>5 DEF CancelTask, ServerMoves
<1>6. ASSUME NEW q \in Queues, EndJobs(q) PROVE ServerMoves
  BY <1>6 DEF EndJobs, ServerMoves
<1>7. CASE RestartServer  BY <1>7 DEF RestartServer, ServerMoves
<1> QED  BY <1>1, <1>2, <1>3, <1>4, <1>5, <1>6, <1>7 DEF WorkerStep, Fault

LEMMA OutputStep ==
  ASSUME OutputInv, [Next]_vars
  PROVE  OutputInv'
<1> USE DEF OutputInv, OutputsTell, Told
<1>1. CASE WorkerStep \/ Fault
  BY <1>1, ServerShape DEF ServerMoves, State, Ended, Failed, Blocking
<1>2. ASSUME NEW t \in Tasks, Submit(t) PROVE OutputInv'
  BY <1>2 DEF Submit, State, Blocking, Ended, Failed
<1>3. ASSUME NEW t \in Tasks, TakeFinished(t) PROVE OutputInv'
  BY <1>3 DEF TakeFinished, Reach, serverVars
<1>4. ASSUME NEW t \in Tasks, TakeFailed(t) PROVE OutputInv'
  BY <1>4 DEF TakeFailed, Reach, serverVars, Failed
<1>5. CASE /\ Next /\ ~WorkerStep /\ ~Fault
           /\ \A t \in Tasks : ~Submit(t) /\ ~TakeFinished(t) /\ ~TakeFailed(t)
  <2>1. UNCHANGED <<server, submitted, output>>
    BY <1>5
    DEF Next, DriverCall, ScaleUp, ForgetJobs, BeginCall, LoopStep, Resume, CheckStarved,
        YieldCached, StartLoop, Poll, EndRound, CheckAncestors, CheckStranded, SqueueFails,
        Finish, MissOutput, TakeDead, TakePending, Reach, Break, Abandon, serverVars,
        handleVars
  <2> QED  BY <2>1
<1>6. CASE UNCHANGED vars  BY <1>6 DEF vars, serverVars, handleVars
<1> QED  BY <1>1, <1>2, <1>3, <1>4, <1>5, <1>6

(* An output tells what became of the task: a child of a failed task is    *)
(* told from one that failed itself, also after the server restarted and   *)
(* whatever happened since the states were asked for.                      *)
THEOREM OutputsAlwaysTell == Spec => []OutputsTell
<1>1. Init => OutputInv  BY DEF Init, OutputInv, OutputsTell, State
<1>2. OutputInv => OutputsTell  BY DEF OutputInv
<1> QED  BY <1>1, <1>2, OutputStep, PTL DEF Spec

-----------------------------------------------------------------------------
(* The lists of the loop: what stands in none of them is empty.            *)
ListsInv ==
    /\ call.tasks \in Seq(Tasks)
    /\ \A s \in {pending, todo, kept} :
          s \in Seq(Tasks) /\ Range(s) \subseteq Range(call.tasks)
    /\ phase \notin {"start", "cached", "round"} => todo = <<>>
    /\ phase # "round" => kept = <<>>
    /\ phase \in {"idle", "end"} => pending = <<>>
    /\ phase = "start" => yielded = {} /\ GivenUp = {}

(* Steps of others than the call.                                          *)
Elsewhere ==
    UNCHANGED <<call, phase, loopVars, dropVars, yielded, done, sent, outcome, output>>

LEMMA ElsewhereShape ==
  ASSUME \/ WorkerStep \/ Fault \/ Resume \/ UNCHANGED vars
         \/ \E t \in Tasks : Submit(t)
         \/ \E q \in Queues : ScaleUp(q) \/ ForgetJobs(q)
  PROVE  Elsewhere
<1> USE DEF Elsewhere, countVars, handleVars
<1>1. CASE WorkerStep \/ Fault
  BY <1>1
  DEF WorkerStep, ClaimTask, FinishTask, FailTask, Fault, LoseTask, CancelTask, EndJobs,
      RestartServer, QueueStep
<1>2. CASE Resume  BY <1>2 DEF Resume
<1>3. CASE UNCHANGED vars  BY <1>3 DEF vars
<1>4. CASE \E t \in Tasks : Submit(t)  BY <1>4 DEF Submit
<1>5. CASE \E q \in Queues : ScaleUp(q) \/ ForgetJobs(q)
  BY <1>5 DEF ScaleUp, ForgetJobs
<1> QED  BY <1>1, <1>2, <1>3, <1>4, <1>5

(* What drop leaves of pending.                                            *)
DropsFrom(unserved, p, q) ==
    /\ pending' \in Seq(Tasks)
    /\ Range(pending') = Range(pending) \ unserved
    /\ \A S \in SUBSET Tasks : Times(pending', S) = Times(pending, S \ unserved)
    /\ phase' = IF pending' = <<>> THEN p ELSE q
    /\ UNCHANGED <<todo, kept, states, countVars, outcome>>

LEMMA DropsTasks ==
  ASSUME pending \in Seq(Tasks), NEW unserved \in SUBSET Tasks, NEW p, NEW q,
         Drop(unserved, p, q)
  PROVE  /\ failures' = failures + Times(pending, unserved)
         /\ \/ unserved # {} /\ call.policy = First /\ Leave("raised")
            \/ /\ unserved # {} => call.policy # First
               /\ DropsFrom(unserved, p, q) /\ unfinished' = {}
<1> DEFINE rest == Only(pending, Tasks \ unserved)
<1>1. Len(Only(pending, unserved)) = Times(pending, unserved)
  BY OnlyLen
<1>2. rest \in Seq(Tasks) /\ Range(rest) = Range(pending) \ unserved
  BY OnlyRange, RangeSeq
<1>3. \A S \in SUBSET Tasks : Times(rest, S) = Times(pending, S \ unserved)
  <2> SUFFICES ASSUME NEW S \in SUBSET Tasks
               PROVE  Times(rest, S) = Times(pending, S \ unserved)
    OBVIOUS
  <2>1. (Tasks \ unserved) \cap S = S \ unserved
    OBVIOUS
  <2> QED  BY <2>1, TimesOnly
<1>4. /\ failures' = failures + Times(pending, unserved)
      /\ \/ unserved # {} /\ call.policy = First /\ Leave("raised")
         \/ /\ unserved # {} => call.policy # First
            /\ pending' = rest /\ phase' = (IF rest = <<>> THEN p ELSE q)
            /\ unfinished' = {}
            /\ UNCHANGED <<todo, kept, states, countVars, outcome>>
  BY <1>1 DEF Drop, RaisesNow, Goto
<1> HIDE DEF rest
<1> QED  BY <1>2, <1>3, <1>4 DEF DropsFrom

LEMMA UnservedPending ==
  ASSUME pending \in Seq(Tasks), NEW open, NEW served
  PROVE  /\ Unserved(open, served) \subseteq Range(pending)
         /\ Unserved(open, served) \in SUBSET Tasks
  BY RangeSeq DEF Unserved

LEMMA LeaveLists ==
  ASSUME ListsInv, NEW how, NEW n, LeaveWith(how, n), UNCHANGED call
  PROVE  ListsInv'
<1>1. Range(<<>>) = {} /\ <<>> \in Seq(Tasks)
  BY DEF Range
<1> QED  BY <1>1 DEF ListsInv, LeaveWith, Goto

LEMMA BeginLists ==
  ASSUME NEW list \in Lists, NEW policy, NEW lazy, BeginCall(list, policy, lazy)
  PROVE  /\ ListsInv' /\ list \in Seq(Tasks)
         /\ Range(pending') = {t \in Range(list) : output[t] = "none"}
         /\ Range(todo') = {t \in Range(list) : output[t] # "none"}
<1>1. list \in Seq(Tasks) /\ Range(list) \subseteq Tasks
  BY ConstantsOK, RangeSeq
<1>2. /\ pending' \in Seq(Tasks) /\ Range(pending') = {t \in Range(list) : output[t] = "none"}
      /\ todo' \in Seq(Tasks) /\ Range(todo') = {t \in Range(list) : output[t] # "none"}
  <2>1. \A S : Only(list, S) \in Seq(Tasks) /\ Range(Only(list, S)) = Range(list) \cap S
    BY <1>1, OnlyRange
  <2>2. /\ pending' = Only(list, {t \in Tasks : output[t] = "none"})
        /\ todo' = Only(list, {t \in Tasks : output[t] # "none"})
    BY DEF BeginCall
  <2> QED  BY <1>1, <2>1, <2>2
<1>3. Range(<<>>) = {} /\ <<>> \in Seq(Tasks)
  BY DEF Range
<1>4. /\ call'.tasks = list /\ kept' = <<>> /\ phase' = "start"
      /\ yielded' = {} /\ starved' = {} /\ stranded' = {} /\ dead' = {}
  BY DEF BeginCall
<1> QED  BY <1>1, <1>2, <1>3, <1>4 DEF ListsInv, GivenUp

LEMMA RoundLists ==
  ASSUME ListsInv, NEW t \in Tasks,
         \/ TakeFinished(t) \/ TakeFailed(t) \/ MissOutput(t) \/ TakeDead(t) \/ TakePending(t)
  PROVE  ListsInv'
<1>1. /\ phase = "round" /\ todo # <<>> /\ t = Head(todo) /\ UNCHANGED call
  BY DEF TakeFinished, TakeFailed, MissOutput, TakeDead, TakePending, Reach, At
<1>2. /\ Tail(todo) \in Seq(Tasks) /\ Range(todo) = {t} \cup Range(Tail(todo))
      /\ Append(kept, t) \in Seq(Tasks) /\ Range(Append(kept, t)) = Range(kept) \cup {t}
  BY <1>1, HeadAndTail, RangeAppend DEF ListsInv
<1>3. CASE \E how, n : LeaveWith(how, n)
  BY <1>1, <1>3, LeaveLists
<1>4. CASE /\ phase' = "round" /\ todo' = Tail(todo) /\ pending' = pending
           /\ kept' = kept \/ kept' = Append(kept, t)
  <2>1. Range(todo') \subseteq Range(call.tasks) /\ Range(kept') \subseteq Range(call.tasks)
    BY <1>2, <1>4 DEF ListsInv
  <2> QED  BY <1>1, <1>2, <1>4, <2>1 DEF ListsInv
<1>5. Deliver(t, "round") =>
         \/ \E how, n : LeaveWith(how, n)
         \/ /\ phase' = "round" /\ todo' = Tail(todo) /\ pending' = pending
            /\ kept' = kept
  BY DEF Deliver, CountFails, Yield, GoOn
<1> QED  BY <1>3, <1>4, <1>5
         DEF TakeFinished, TakeFailed, MissOutput, TakeDead, TakePending, Leave, GoOn, Goto

LEMMA DropLists ==
  ASSUME ListsInv, NEW unserved \in SUBSET Tasks, NEW p, NEW q, Drop(unserved, p, q),
         UNCHANGED call,
         \/ phase = "start" /\ p = "cached" /\ q = "cached"
         \/ phase = "squeue" /\ p = "end" /\ q = "poll"
  PROVE  ListsInv'
<1>1. CASE Leave("raised")  BY <1>1, LeaveLists DEF Leave
<1>2. CASE DropsFrom(unserved, p, q)
  <2>1. Range(pending') \subseteq Range(call.tasks)
    BY <1>2 DEF DropsFrom, ListsInv
  <2>2. /\ call' = call /\ todo' = todo /\ kept' = kept /\ pending' \in Seq(Tasks)
        /\ phase' = (IF pending' = <<>> THEN p ELSE q)
    BY <1>2 DEF DropsFrom
  <2> QED  BY <2>1, <2>2 DEF ListsInv
<1> QED  BY <1>1, <1>2, DropsTasks DEF ListsInv

LEMMA ListsStep ==
  ASSUME ListsInv, [Next]_vars
  PROVE  ListsInv'
<1> USE DEF dropVars, loopVars, countVars
<1>1. CASE Elsewhere  BY <1>1 DEF Elsewhere, ListsInv, GivenUp
<1>2. ASSUME NEW list \in Lists, NEW policy \in Policies, NEW lazy \in BOOLEAN,
             BeginCall(list, policy, lazy)
      PROVE  ListsInv'
  BY <1>2, BeginLists
<1>3. CASE CheckStarved
  <2>1. phase = "start" /\ Drop(starved', "cached", "cached") /\ UNCHANGED call
    BY <1>3 DEF CheckStarved, At
  <2>2. starved' \in SUBSET Tasks
    BY <1>3, UnservedPending DEF CheckStarved, ListsInv
  <2> QED  BY <2>1, <2>2, DropLists
<1>4. CASE YieldCached
  <2>1. Tail(todo) \in Seq(Tasks) /\ Range(Tail(todo)) \subseteq Range(todo)
    BY <1>4, HeadAndTail DEF YieldCached, ListsInv
  <2>2. CASE CountFails
    BY <1>4, <2>2, LeaveLists DEF YieldCached, CountFails
  <2>3. CASE Yield(Head(todo), "cached") /\ GoOn /\ UNCHANGED kept
    BY <1>4, <2>1, <2>3 DEF YieldCached, At, Yield, GoOn, ListsInv
  <2> QED  BY <1>4, <2>2, <2>3 DEF YieldCached, Deliver
<1>5. CASE StartLoop
  BY <1>5 DEF StartLoop, At, Goto, Loop, ListsInv
<1>6. CASE Poll
  <2>1. Range(<<>>) = {} /\ <<>> \in Seq(Tasks)
    BY DEF Range
  <2> QED  BY <1>6, <2>1 DEF Poll, At, Goto, ListsInv
<1>7. CASE EndRound
  <2>1. Range(<<>>) = {} /\ <<>> \in Seq(Tasks)
    BY DEF Range
  <2>2. /\ todo = <<>> /\ pending' = kept /\ kept' = <<>> /\ todo' = todo /\ call' = call
        /\ phase' \in {"end", "poll", "check"}
        /\ phase' = "end" => kept = <<>>
    BY <1>7 DEF EndRound, Loop
  <2> QED  BY <2>1, <2>2 DEF ListsInv
<1>8. CASE CheckAncestors \/ SqueueFails
  BY <1>8 DEF CheckAncestors, SqueueFails, At, Goto, ListsInv
<1>9. CASE CheckStranded
  <2>1. phase = "squeue" /\ UNCHANGED call
        /\ \E u : u = Unserved(unfinished, LiveQueues) /\ Drop(u, "end", "poll")
    BY <1>9 DEF CheckStranded, At
  <2>2. Unserved(unfinished, LiveQueues) \in SUBSET Tasks
    BY UnservedPending DEF ListsInv
  <2> QED  BY <2>1, <2>2, DropLists
<1>10. CASE Finish \/ Break \/ Abandon
  <2>1. UNCHANGED call /\ \E how, n : LeaveWith(how, n)
    BY <1>10 DEF Finish, Break, Abandon, Leave
  <2> QED  BY <2>1, LeaveLists
<1>11. ASSUME NEW t \in Tasks,
          \/ TakeFinished(t) \/ TakeFailed(t) \/ MissOutput(t) \/ TakeDead(t) \/ TakePending(t)
       PROVE  ListsInv'
  BY <1>11, RoundLists
<1> QED
  BY <1>1, <1>2, <1>3, <1>4, <1>5, <1>6, <1>7, <1>8, <1>9, <1>10, <1>11, ElsewhereShape
  DEF Next, DriverCall, LoopStep

-----------------------------------------------------------------------------
(* Types.                                                                  *)

CallTypes ==
    /\ call \in [number : 0..MaxCalls, tasks : Lists \cup {<<>>},
                 policy : Policies \cup {First}, lazy : BOOLEAN]
    /\ phase \in Phase /\ held \in BOOLEAN
    /\ states \in [Tasks -> State]
    /\ unfinished \subseteq Tasks
    /\ \A s \in {yielded, starved, stranded, dead} : s \subseteq Tasks
    /\ failures \in Nat /\ done \in Nat /\ sent \in 0..done
    /\ outcome \in {"none", "returned", "raised", "broken", "abandoned"}

ServerTypes ==
    /\ server \in [Tasks -> State]
    /\ runner \in [Tasks -> Queues \cup {Nobody}]
    /\ tracked \subseteq Queues /\ running \subseteq Queues
    /\ submitted \subseteq Tasks
    /\ output \in [Tasks -> {"none", "value", "error", "dependency"}]

LEMMA ServerTypesStep ==
  ASSUME ServerTypes, [Next]_vars
  PROVE  ServerTypes'
<1> USE DEF ServerTypes, State, Ended, Failed, Blocking, QueueStep, serverVars, handleVars
<1>1. ASSUME NEW t \in Tasks, ClaimTask(t) PROVE ServerTypes'
  BY <1>1 DEF ClaimTask
<1>2. ASSUME NEW t \in Tasks, FinishTask(t) PROVE ServerTypes'
  BY <1>2 DEF FinishTask
<1>3. ASSUME NEW t \in Tasks, FailTask(t) PROVE ServerTypes'
  BY <1>3 DEF FailTask
<1>4. ASSUME NEW t \in Tasks, LoseTask(t) PROVE ServerTypes'
  BY <1>4 DEF LoseTask
<1>5. ASSUME NEW t \in Tasks, CancelTask(t) PROVE ServerTypes'
  BY <1>5 DEF CancelTask
<1>6. ASSUME NEW q \in Queues, EndJobs(q) PROVE ServerTypes'
  BY <1>6 DEF EndJobs
<1>7. CASE RestartServer  BY <1>7 DEF RestartServer
<1>8. ASSUME NEW t \in Tasks, Submit(t) PROVE ServerTypes'
  BY <1>8 DEF Submit
<1>9. ASSUME NEW q \in Queues, ScaleUp(q) \/ ForgetJobs(q) PROVE ServerTypes'
  BY <1>9 DEF ScaleUp, ForgetJobs
<1>10. ASSUME NEW t \in Tasks, TakeFinished(t) \/ TakeFailed(t) PROVE ServerTypes'
  BY <1>10 DEF TakeFinished, TakeFailed, Reach
<1>11. CASE \/ UNCHANGED vars
            \/ /\ Next /\ ~WorkerStep /\ ~Fault
               /\ \A t \in Tasks : ~Submit(t) /\ ~TakeFinished(t) /\ ~TakeFailed(t)
               /\ \A q \in Queues : ~ScaleUp(q) /\ ~ForgetJobs(q)
  <2>1. UNCHANGED <<serverVars, handleVars>>
    BY <1>11
    DEF vars, Next, DriverCall, BeginCall, LoopStep, Resume, CheckStarved, YieldCached,
        StartLoop, Poll, EndRound, CheckAncestors, CheckStranded, SqueueFails, Finish,
        MissOutput, TakeDead, TakePending, Reach, Break, Abandon
  <2> QED  BY <2>1
<1> QED
  BY <1>1, <1>2, <1>3, <1>4, <1>5, <1>6, <1>7, <1>8, <1>9, <1>10, <1>11
  DEF WorkerStep, Fault

LEMMA LeaveTypes ==
  ASSUME CallTypes, NEW how \in {"returned", "raised", "broken", "abandoned"},
         NEW n \in {done, done + 1}, LeaveWith(how, n)
  PROVE  /\ phase' \in Phase /\ held' \in BOOLEAN /\ states' \in [Tasks -> State]
         /\ unfinished' \subseteq Tasks /\ yielded' \subseteq Tasks
         /\ done' \in Nat /\ sent' \in 0..done'
         /\ outcome' \in {"none", "returned", "raised", "broken", "abandoned"}
<1>1. n \in Nat /\ n \in 0..n /\ sent \in 0..n
  BY DEF CallTypes
<1>2. done' = n /\ sent' \in {sent, n} /\ outcome' \in {how, "broken"}
  BY DEF LeaveWith
<1>3. states' \in [Tasks -> State] /\ unfinished' = {} /\ yielded' = yielded
  BY DEF LeaveWith, State
<1>4. phase' \in Phase /\ held' \in BOOLEAN
  BY DEF LeaveWith, Goto, Phase
<1> QED  BY <1>1, <1>2, <1>3, <1>4 DEF CallTypes

LEMMA YieldTypes ==
  ASSUME CallTypes, NEW t \in Tasks, NEW p \in Phase, Yield(t, p)
  PROVE  /\ phase' \in Phase /\ held' \in BOOLEAN /\ yielded' \subseteq Tasks
         /\ done' \in Nat /\ sent' \in 0..done'
         /\ outcome' \in {"none", "returned", "raised", "broken", "abandoned"}
<1>1. sent \in 0..(done + 1) /\ done + 1 \in 0..(done + 1) /\ done + 1 \in Nat
  BY DEF CallTypes
<1>2. done' = done + 1 /\ sent' \in {sent, done + 1}
  BY DEF Yield
<1> QED  BY <1>1, <1>2 DEF CallTypes, Yield

LEMMA DropTypes ==
  ASSUME CallTypes, ListsInv, NEW unserved \in SUBSET Tasks,
         NEW p \in Phase, NEW q \in Phase, Drop(unserved, p, q)
  PROVE  /\ phase' \in Phase /\ held' \in BOOLEAN /\ states' \in [Tasks -> State]
         /\ unfinished' \subseteq Tasks /\ yielded' \subseteq Tasks
         /\ failures' \in Nat /\ done' \in Nat /\ sent' \in 0..done'
         /\ outcome' \in {"none", "returned", "raised", "broken", "abandoned"}
<1>1. failures' \in Nat
  <2>1. failures' = failures + Times(pending, unserved)
    BY DropsTasks DEF ListsInv
  <2>2. Times(pending, unserved) \in Nat
    BY PlacesFinite DEF ListsInv
  <2> QED  BY <2>1, <2>2 DEF CallTypes
<1>2. CASE Leave("raised")  BY <1>1, <1>2, LeaveTypes DEF Leave
<1>3. CASE DropsFrom(unserved, p, q) /\ unfinished' = {}
  <2>1. held' = FALSE \/ Leave("raised")
    BY DEF Drop, Goto
  <2> QED  BY <1>1, <1>2, <1>3, <2>1 DEF DropsFrom, CallTypes, countVars
<1> QED  BY <1>2, <1>3, DropsTasks DEF ListsInv

LEMMA RoundTypes ==
  ASSUME CallTypes, ServerTypes, NEW t \in Tasks,
         \/ TakeFinished(t) \/ TakeFailed(t) \/ MissOutput(t) \/ TakeDead(t) \/ TakePending(t)
  PROVE  CallTypes'
<1>1. UNCHANGED <<call, starved, stranded>>
  BY DEF TakeFinished, TakeFailed, MissOutput, TakeDead, TakePending, Reach
<1>2. dead' \subseteq Tasks /\ failures' \in Nat
  BY DEF CallTypes, TakeFinished, TakeFailed, MissOutput, TakeDead, TakePending
<1>3. CASE \E how \in {"returned", "raised", "broken", "abandoned"}, n \in {done, done + 1} :
             LeaveWith(how, n)
  BY <1>1, <1>2, <1>3, LeaveTypes DEF CallTypes
<1>4. CASE Yield(t, "round") /\ GoOn
  <2>1. "round" \in Phase  BY DEF Phase
  <2> QED  BY <1>1, <1>2, <1>4, <2>1, YieldTypes DEF CallTypes, GoOn
<1>5. CASE Goto("round") /\ GoOn /\ UNCHANGED <<countVars, outcome>>
  BY <1>1, <1>2, <1>5 DEF CallTypes, Goto, GoOn, countVars, Phase
<1> QED
  BY <1>3, <1>4, <1>5
  DEF TakeFinished, TakeFailed, MissOutput, TakeDead, TakePending, Deliver, CountFails, Leave

LEMMA CallTypesStep ==
  ASSUME CallTypes, ServerTypes, ListsInv, [Next]_vars
  PROVE  CallTypes'
<1> USE DEF dropVars, loopVars, countVars
<1>1. CASE WorkerStep \/ Fault \/ UNCHANGED vars
  BY <1>1
  DEF WorkerStep, ClaimTask, FinishTask, FailTask, Fault, LoseTask, CancelTask, EndJobs,
      RestartServer, QueueStep, CallTypes, vars
<1>2. CASE \/ Resume \/ \E t \in Tasks : Submit(t)
           \/ \E q \in Queues : ScaleUp(q) \/ ForgetJobs(q)
  BY <1>2 DEF Resume, Submit, ScaleUp, ForgetJobs, CallTypes
<1>3. ASSUME NEW list \in Lists, NEW policy \in Policies, NEW lazy \in BOOLEAN,
             BeginCall(list, policy, lazy)
      PROVE  CallTypes'
  <2>1. call.number + 1 \in 0..MaxCalls
    BY <1>3, ConstantsOK DEF BeginCall, CallTypes
  <2>2. call' \in [number : 0..MaxCalls, tasks : Lists \cup {<<>>},
                   policy : Policies \cup {First}, lazy : BOOLEAN]
    BY <1>3, <2>1 DEF BeginCall
  <2> QED  BY <1>3, <2>2 DEF BeginCall, CallTypes, Phase, State
<1>4. CASE CheckStarved
  <2>1. starved' \in SUBSET Tasks /\ "cached" \in Phase
    BY <1>4, UnservedPending DEF CheckStarved, ListsInv, Phase
  <2>2. Drop(starved', "cached", "cached") /\ UNCHANGED <<call, stranded, dead>>
    BY <1>4 DEF CheckStarved
  <2> QED  BY <2>1, <2>2, DropTypes DEF CallTypes
<1>5. CASE YieldCached
  <2>1. Head(todo) \in Tasks /\ "cached" \in Phase
    BY <1>5, HeadAndTail DEF YieldCached, ListsInv, Phase
  <2>2. UNCHANGED <<call, dropVars>>
    BY <1>5 DEF YieldCached
  <2>3. CASE CountFails
    BY <2>2, <2>3, LeaveTypes DEF CountFails, CallTypes
  <2>4. CASE Yield(Head(todo), "cached") /\ GoOn
    BY <2>1, <2>2, <2>4, YieldTypes DEF GoOn, CallTypes
  <2> QED  BY <1>5, <2>3, <2>4 DEF YieldCached, Deliver
<1>6. CASE StartLoop \/ SqueueFails
  BY <1>6 DEF StartLoop, SqueueFails, Goto, Loop, CallTypes, Phase
<1>7. CASE Poll
  BY <1>7 DEF Poll, Goto, CallTypes, ServerTypes, Phase
<1>8. CASE EndRound
  <2>1. /\ phase' \in Phase /\ states' \in [Tasks -> State]
        /\ UNCHANGED <<call, held, unfinished, dropVars, countVars, outcome>>
    BY <1>8 DEF EndRound, Loop, Phase, State
  <2> QED  BY <2>1 DEF CallTypes
<1>9. CASE CheckAncestors
  <2>1. OpenAncestors \subseteq Tasks
    <3>1. \A t \in Tasks : Ancestors[t] \subseteq Tasks
      BY DEF Ancestors, Above
    <3>2. Range(pending) \subseteq Tasks
      BY RangeSeq DEF ListsInv
    <3> QED  BY <3>1, <3>2 DEF OpenAncestors
  <2> QED  BY <1>9, <2>1 DEF CheckAncestors, Goto, CallTypes, Phase
<1>10. CASE CheckStranded
  <2>1. PICK unserved \in SUBSET Tasks :
             stranded' = stranded \cup unserved /\ Drop(unserved, "end", "poll")
    BY <1>10, UnservedPending DEF CheckStranded, ListsInv
  <2>2. "end" \in Phase /\ "poll" \in Phase /\ UNCHANGED <<call, starved, dead>>
    BY <1>10 DEF CheckStranded, Phase
  <2> QED  BY <2>1, <2>2, DropTypes DEF CallTypes
<1>11. CASE Finish \/ Break \/ Abandon
  <2>1. UNCHANGED <<call, dropVars>>
        /\ \E how \in {"returned", "raised", "broken", "abandoned"} : Leave(how)
    BY <1>11 DEF Finish, Break, Abandon
  <2> QED  BY <2>1, LeaveTypes DEF Leave, CallTypes
<1>12. ASSUME NEW t \in Tasks,
          \/ TakeFinished(t) \/ TakeFailed(t) \/ MissOutput(t) \/ TakeDead(t) \/ TakePending(t)
       PROVE  CallTypes'
  BY <1>12, RoundTypes
<1> QED
  BY <1>1, <1>2, <1>3, <1>4, <1>5, <1>6, <1>7, <1>8, <1>9, <1>10, <1>11, <1>12
  DEF Next, DriverCall, LoopStep

LEMMA TypesInit == Init => ServerTypes /\ CallTypes /\ ListsInv
<1>1. Range(<<>>) = {} /\ <<>> \in Seq(Tasks)
  BY DEF Range
<1>2. ASSUME Init PROVE ServerTypes /\ CallTypes
  <2>1. call \in [number : 0..MaxCalls, tasks : Lists \cup {<<>>},
                  policy : Policies \cup {First}, lazy : BOOLEAN]
    <3>1. 0 \in 0..MaxCalls
      BY ConstantsOK
    <3> QED  BY <1>2, <3>1 DEF Init
  <2>2. phase \in Phase /\ states \in [Tasks -> State] /\ sent \in 0..done
    BY <1>2 DEF Init, Phase, State
  <2> QED  BY <1>2, <2>1, <2>2 DEF Init, ServerTypes, CallTypes, State
<1>3. ASSUME Init PROVE ListsInv
  <2>1. /\ call.tasks = <<>> /\ pending = <<>> /\ todo = <<>> /\ kept = <<>>
        /\ phase = "idle"
    BY <1>3 DEF Init
  <2> QED  BY <1>1, <2>1 DEF ListsInv
<1> QED  BY <1>2, <1>3

(* The variables have their types, and the lists of the loop hold tasks of *)
(* the list the driver waits on.                                           *)
THEOREM TypeCorrect == Spec => []TypeOK
<1>1. ServerTypes /\ CallTypes /\ ListsInv => TypeOK
  BY DEF ServerTypes, CallTypes, ListsInv, TypeOK
<1>2. ServerTypes /\ CallTypes /\ ListsInv /\ [Next]_vars
        => (ServerTypes /\ CallTypes /\ ListsInv)'
  BY ServerTypesStep, CallTypesStep, ListsStep
<1> QED  BY <1>1, <1>2, TypesInit, PTL DEF Spec

-----------------------------------------------------------------------------
(* The fates of the tasks.                                                 *)

(* What the call still waits for, the tasks of todo apart.                 *)
Waiting == IF phase = "round" THEN kept ELSE pending

(* How often the lists still hold a task of S.                             *)
Left(S) == Times(todo, S) + Times(Waiting, S)

(* The fates exclude each other: no task still waited for met one, and of  *)
(* those the loop has yet to reach, only one that the list names again,    *)
(* whose state the poll tells, so that it meets the same one.              *)
ApartInv ==
    /\ yielded \cap GivenUp = {}
    /\ Range(Waiting) \cap (yielded \cup GivenUp) = {}
    /\ phase \in {"start", "cached"} =>
          /\ Range(todo) \cap (Range(pending) \cup GivenUp) = {}
          /\ \A t \in Range(todo) : output[t] # "none"
    /\ phase = "round" =>
          /\ \A t \in Range(kept) : states[t] \in Blocking
          /\ \A t \in Range(todo) \cap yielded : states[t] \in {"finished"} \cup Failed
          /\ \A t \in Range(todo) \cap GivenUp : states[t] \in {"canceled", "undefined"}

(* No task is lost: each is yielded, given up or waited for, and done      *)
(* counts each yielded one as often as the list names it, but for what is  *)
(* left of it.                                                             *)
CountedInv ==
    phase # "idle" =>
      /\ Range(call.tasks) = yielded \cup GivenUp \cup Range(todo) \cup Range(Waiting)
      /\ done + Left(yielded) = Times(call.tasks, yielded)
      /\ \A t \in Range(todo) \cup Range(Waiting) :
            t \notin yielded \cup GivenUp => Left({t}) = Times(call.tasks, {t})

(* Every task yielded has its output, unless only another task reads it.   *)
HomeInv == \A t \in yielded \cap Fetched : output[t] # "none"

(* The call raises at the first failure if it has to.                      *)
FailuresInv == phase # "idle" /\ call.policy = First => failures = 0

(* A call that goes on has no outcome, and one that ended in good order    *)
(* left no task behind.                                                    *)
EndInv ==
    /\ phase # "idle" => outcome = "none"
    /\ InGoodOrder =>
          /\ yielded \cup GivenUp = Range(call.tasks)
          /\ done = Times(call.tasks, yielded)

LEMMA EmptyRange == Range(<<>>) = {} /\ <<>> \in Seq(Tasks)
  BY DEF Range

(* The next task of a round.                                               *)
LEMMA NextOfRound ==
  ASSUME ListsInv, NEW t \in Tasks,
         \/ TakeFinished(t) \/ TakeFailed(t) \/ MissOutput(t) \/ TakeDead(t) \/ TakePending(t)
  PROVE  /\ phase = "round" /\ todo # <<>> /\ t = Head(todo)
         /\ UNCHANGED <<call, starved, stranded>>
         /\ Tail(todo) \in Seq(Tasks) /\ Range(todo) = {t} \cup Range(Tail(todo))
         /\ Append(kept, t) \in Seq(Tasks) /\ Range(Append(kept, t)) = Range(kept) \cup {t}
<1>1. /\ phase = "round" /\ todo # <<>> /\ t = Head(todo)
      /\ UNCHANGED <<call, starved, stranded>>
  BY DEF TakeFinished, TakeFailed, MissOutput, TakeDead, TakePending, Reach, At
<1> QED  BY <1>1, HeadAndTail, RangeAppend DEF ListsInv

-----------------------------------------------------------------------------
(* The fates stay apart.                                                   *)

LEMMA LeaveApart ==
  ASSUME NEW how, NEW n, LeaveWith(how, n), yielded \cap GivenUp' = {}
  PROVE  ApartInv'
  BY EmptyRange DEF LeaveWith, Goto, ApartInv, Waiting

LEMMA RoundApart ==
  ASSUME ListsInv, ApartInv, NEW t \in Tasks,
         \/ TakeFinished(t) \/ TakeFailed(t) \/ MissOutput(t) \/ TakeDead(t) \/ TakePending(t)
  PROVE  ApartInv'
<1> USE NextOfRound
<1> DEFINE Fine == {"finished"} \cup Failed
           Dead == {"canceled", "undefined"}
<1>1. /\ phase = "round"
      /\ yielded \cap GivenUp = {} /\ Range(kept) \cap (yielded \cup GivenUp) = {}
      /\ \A u \in Range(kept) : states[u] \in Blocking
      /\ \A u \in Range(todo) \cap yielded : states[u] \in Fine
      /\ \A u \in Range(todo) \cap GivenUp : states[u] \in Dead
      /\ t \in Range(todo) /\ Range(Tail(todo)) \subseteq Range(todo)
  BY DEF ApartInv, Waiting
<1>2. \A x : ~(x \in Fine /\ x \in Dead) /\ ~(x \in Fine /\ x \in Blocking)
             /\ ~(x \in Dead /\ x \in Blocking)
  BY DEF Failed, Blocking
<1> HIDE DEF Fine, Dead
<1>3. ASSUME NEW Y, NEW G, NEW how, NEW n, Y = yielded, G = GivenUp, GivenUp' = G,
             LeaveWith(how, n)
      PROVE  ApartInv'
  BY <1>1, <1>3, LeaveApart
<1>4. ASSUME states[t] \in Fine, Deliver(t, "round"), UNCHANGED dead PROVE ApartInv'
  <2>1. GivenUp' = GivenUp
    BY <1>4 DEF GivenUp
  <2>2. CASE CountFails  BY <1>3, <2>1, <2>2 DEF CountFails
  <2>3. CASE Yield(t, "round") /\ GoOn /\ UNCHANGED kept
    <3>1. /\ yielded' = yielded \cup {t} /\ phase' = "round" /\ todo' = Tail(todo)
          /\ states' = states
      BY <2>3 DEF Yield, GoOn
    <3>2. t \notin GivenUp /\ t \notin Range(kept)
      BY <1>1, <1>2, <1>4
    <3> QED  BY <1>1, <1>4, <2>1, <2>3, <3>1, <3>2 DEF ApartInv, Waiting, Fine, Dead
  <2> QED  BY <1>4, <2>2, <2>3 DEF Deliver
<1>5. CASE TakeFinished(t)
  BY <1>4, <1>5 DEF TakeFinished, Reach, Fine
<1>6. CASE TakeFailed(t)
  <2>1. states[t] \in Fine /\ UNCHANGED dead /\ (Leave("raised") \/ Deliver(t, "round"))
    BY <1>6 DEF TakeFailed, Reach, Fine
  <2>2. GivenUp' = GivenUp
    BY <2>1 DEF GivenUp
  <2> QED  BY <1>3, <1>4, <2>1, <2>2 DEF Leave
<1>7. CASE MissOutput(t)
  <2>1. Leave("broken") /\ GivenUp' = GivenUp
    BY <1>7 DEF MissOutput, GivenUp
  <2> QED  BY <1>3, <2>1 DEF Leave
<1>8. CASE TakeDead(t)
  <2>1. /\ states[t] \in Dead /\ GivenUp' = GivenUp \cup {t}
        /\ \/ Leave("raised")
           \/ /\ phase' = "round" /\ todo' = Tail(todo)
              /\ UNCHANGED <<kept, states, yielded>>
    BY <1>8 DEF TakeDead, Reach, GivenUp, Dead, Goto, GoOn, countVars
  <2>2. t \notin yielded /\ t \notin Range(kept)
    BY <1>1, <1>2, <2>1
  <2>3. CASE Leave("raised")
    BY <1>1, <2>1, <2>2, <2>3, LeaveApart DEF Leave
  <2>4. CASE ~Leave("raised")
    BY <1>1, <2>1, <2>2, <2>4 DEF ApartInv, Waiting, Fine, Dead
  <2> QED  BY <2>3, <2>4
<1>9. CASE TakePending(t)
  <2>1. /\ states[t] \in Blocking /\ GivenUp' = GivenUp
        /\ phase' = "round" /\ todo' = Tail(todo) /\ kept' = Append(kept, t)
        /\ UNCHANGED <<states, yielded>>
    BY <1>9 DEF TakePending, Reach, GivenUp, Goto, GoOn, countVars
  <2>2. t \notin yielded /\ t \notin GivenUp
    BY <1>1, <1>2, <2>1
  <2> QED  BY <1>1, <2>1, <2>2 DEF ApartInv, Waiting, Fine, Dead
<1> QED  BY <1>5, <1>6, <1>7, <1>8, <1>9

LEMMA DropApart ==
  ASSUME ListsInv, ApartInv, NEW unserved, unserved \subseteq Range(pending),
         NEW p, NEW q, Drop(unserved, p, q),
         \/ phase = "start" /\ p = "cached" /\ q = "cached"
         \/ phase = "squeue" /\ p = "end" /\ q = "poll",
         GivenUp' = GivenUp \cup unserved, UNCHANGED output
  PROVE  ApartInv'
<1>1. unserved \in SUBSET Tasks /\ Waiting = pending /\ yielded \cap unserved = {}
  BY RangeSeq DEF ListsInv, Waiting, ApartInv
<1>2. CASE Leave("raised")
  BY <1>1, <1>2, LeaveApart DEF ApartInv, Leave
<1>3. CASE DropsFrom(unserved, p, q)
  <2>1. /\ todo' = todo /\ yielded' = yielded /\ Range(pending') = Range(pending) \ unserved
        /\ phase' \in {p, q}
    BY <1>3 DEF DropsFrom, countVars
  <2>2. phase = "start" => Range(todo) \cap (Range(pending) \cup GivenUp) = {}
                           /\ \A t \in Range(todo) : output[t] # "none"
    BY DEF ApartInv
  <2>3. Waiting' = pending' /\ phase' # "round"
    BY <2>1 DEF Waiting
  <2>4. Range(Waiting') \cap (yielded' \cup GivenUp') = {} /\ yielded' \cap GivenUp' = {}
    BY <1>1, <2>1, <2>3 DEF ApartInv
  <2>5. phase = "squeue" => phase' \notin {"start", "cached"}
    BY <2>1
  <2> QED  BY <1>1, <2>1, <2>2, <2>3, <2>4, <2>5 DEF ApartInv
<1> QED  BY <1>1, <1>2, <1>3, DropsTasks DEF ListsInv

LEMMA ApartStep ==
  ASSUME ListsInv, ApartInv, [Next]_vars
  PROVE  ApartInv'
<1> USE DEF dropVars, loopVars, countVars
<1>1. CASE Elsewhere
  BY <1>1 DEF Elsewhere, ApartInv, Waiting, GivenUp
<1>2. ASSUME NEW list \in Lists, NEW policy \in Policies, NEW lazy \in BOOLEAN,
             BeginCall(list, policy, lazy)
      PROVE  ApartInv'
  <2>1. /\ phase' = "start" /\ yielded' = {} /\ GivenUp' = {} /\ output' = output
    BY <1>2 DEF BeginCall, GivenUp, handleVars
  <2> QED  BY <1>2, <2>1, BeginLists DEF ApartInv, Waiting
<1>3. CASE CheckStarved
  <2>1. /\ phase = "start" /\ Drop(starved', "cached", "cached") /\ GivenUp = {}
        /\ GivenUp' = starved' /\ UNCHANGED output
    BY <1>3 DEF CheckStarved, At, GivenUp, ListsInv, handleVars
  <2>2. starved' \subseteq Range(pending)
    BY <1>3, UnservedPending DEF CheckStarved, ListsInv
  <2>3. GivenUp' = GivenUp \cup starved'
    BY <2>1
  <2> QED  BY <2>1, <2>2, <2>3, DropApart
<1>4. CASE YieldCached
  <2>1. /\ phase = "cached" /\ todo # <<>> /\ GivenUp' = GivenUp /\ UNCHANGED output
        /\ Deliver(Head(todo), "cached")
    BY <1>4 DEF YieldCached, At, GivenUp, handleVars
  <2>2. CASE CountFails
    BY <2>1, <2>2, LeaveApart DEF CountFails, ApartInv
  <2>3. CASE Yield(Head(todo), "cached") /\ GoOn
    <3>1. /\ phase' = "cached" /\ todo' = Tail(todo) /\ UNCHANGED pending
          /\ yielded' = yielded \cup {Head(todo)}
      BY <2>3 DEF Yield, GoOn
    <3>2. Range(todo) = {Head(todo)} \cup Range(Tail(todo))
      BY <2>1, HeadAndTail DEF ListsInv
    <3>3. Head(todo) \notin Range(pending) \cup GivenUp
      BY <2>1, <3>2 DEF ApartInv
    <3> QED  BY <2>1, <3>1, <3>2, <3>3 DEF ApartInv, Waiting
  <2> QED  BY <2>1, <2>2, <2>3 DEF Deliver
<1>5. CASE StartLoop
  <2>1. /\ phase = "cached" /\ phase' \in {"end", "poll"} /\ GivenUp' = GivenUp
        /\ UNCHANGED <<todo, pending, yielded>>
    BY <1>5 DEF StartLoop, At, Goto, Loop, GivenUp
  <2> QED  BY <2>1 DEF ApartInv, Waiting
<1>6. CASE Poll
  <2>1. /\ phase = "poll" /\ phase' = "round" /\ todo' = pending /\ kept' = <<>>
        /\ GivenUp' = GivenUp /\ yielded' = yielded
    BY <1>6 DEF Poll, At, Goto, GivenUp
  <2> QED  BY <2>1, EmptyRange DEF ApartInv, Waiting
<1>7. CASE EndRound
  <2>1. /\ phase = "round" /\ phase' \in {"end", "poll", "check"} /\ pending' = kept
        /\ GivenUp' = GivenUp /\ yielded' = yielded
    BY <1>7 DEF EndRound, At, Loop, GivenUp
  <2> QED  BY <2>1 DEF ApartInv, Waiting
<1>8. CASE CheckAncestors \/ SqueueFails
  <2>1. /\ phase \in {"check", "squeue"} /\ phase' \in {"squeue", "poll"}
        /\ GivenUp' = GivenUp /\ UNCHANGED <<pending, yielded>>
    BY <1>8 DEF CheckAncestors, SqueueFails, At, Goto, GivenUp
  <2> QED  BY <2>1 DEF ApartInv, Waiting
<1>9. CASE CheckStranded
  <2>1. PICK unserved : /\ unserved \subseteq Range(pending)
                        /\ stranded' = stranded \cup unserved
                        /\ Drop(unserved, "end", "poll")
    BY <1>9, UnservedPending DEF CheckStranded, ListsInv
  <2>2. /\ phase = "squeue" /\ UNCHANGED output /\ GivenUp' = GivenUp \cup unserved
    BY <1>9, <2>1 DEF CheckStranded, At, GivenUp, handleVars
  <2> QED  BY <2>1, <2>2, DropApart
<1>10. CASE Finish \/ Break \/ Abandon
  <2>1. GivenUp' = GivenUp /\ \E how : Leave(how)
    BY <1>10 DEF Finish, Break, Abandon, GivenUp
  <2> QED  BY <2>1, LeaveApart DEF Leave, ApartInv
<1>11. ASSUME NEW t \in Tasks,
          \/ TakeFinished(t) \/ TakeFailed(t) \/ MissOutput(t) \/ TakeDead(t) \/ TakePending(t)
       PROVE  ApartInv'
  BY <1>11, RoundApart
<1> QED
  BY <1>1, <1>2, <1>3, <1>4, <1>5, <1>6, <1>7, <1>8, <1>9, <1>10, <1>11, ElsewhereShape
  DEF Next, DriverCall, LoopStep

-----------------------------------------------------------------------------
(* No task is lost.                                                        *)

LEMMA LeftNat ==
  ASSUME ListsInv, NEW S
  PROVE  Left(S) \in Nat /\ Times(call.tasks, S) \in Nat
<1>1. \A s \in {todo, pending, kept, call.tasks} : Times(s, S) \in Nat
  BY PlacesFinite DEF ListsInv
<1> QED  BY <1>1 DEF Left, Waiting

LEMMA LeftWith ==
  ASSUME ListsInv, NEW S, NEW t, t \notin S
  PROVE  /\ Left(S \cup {t}) = Left(S) + Left({t})
         /\ Times(call.tasks, S \cup {t}) = Times(call.tasks, S) + Times(call.tasks, {t})
<1>1. ASSUME NEW s \in {todo, pending, kept, call.tasks}
      PROVE  /\ Times(s, S \cup {t}) = Times(s, S) + Times(s, {t})
             /\ Times(s, S) \in Nat /\ Times(s, {t}) \in Nat
  <2>1. s \in Seq(Tasks) /\ S \cap {t} = {}
    BY <1>1 DEF ListsInv
  <2> QED  BY <2>1, TimesUnion, PlacesFinite
<1> QED  BY <1>1 DEF Left, Waiting

(* The loop reaches the next task of todo: it is gone, or is kept.         *)
LEMMA LeftNext ==
  ASSUME ListsInv, NEW S, phase \in {"cached", "round"}, phase' = phase,
         todo # <<>>, todo' = Tail(todo), pending' = pending
  PROVE  /\ kept' = kept =>
              Left(S) = Left(S)' + (IF Head(todo) \in S THEN 1 ELSE 0)
         /\ phase = "round" /\ kept' = Append(kept, Head(todo)) => Left(S)' = Left(S)
<1> DEFINE one == IF Head(todo) \in S THEN 1 ELSE 0
<1>1. /\ Times(todo, S) = Times(Tail(todo), S) + one
      /\ Times(Append(kept, Head(todo)), S) = Times(kept, S) + one
      /\ Times(Tail(todo), S) \in Nat
      /\ \A s \in {pending, kept} : Times(s, S) \in Nat
  <2>1. /\ todo \in Seq(Tasks) /\ kept \in Seq(Tasks) /\ pending \in Seq(Tasks)
        /\ Head(todo) \in Tasks /\ Tail(todo) \in Seq(Tasks)
    BY HeadAndTail DEF ListsInv
  <2>2. Times(todo, S) = Times(Tail(todo), S) + one
    BY <2>1, TimesTail
  <2>3. Times(Append(kept, Head(todo)), S) = Times(kept, S) + one
    BY <2>1, TimesAppend
  <2> QED  BY <2>1, <2>2, <2>3, PlacesFinite
<1>2. one \in Nat
  OBVIOUS
<1> HIDE DEF one
<1>3. ASSUME kept' = kept PROVE Left(S) = Left(S)' + one
  <2>1. Left(S)' = Times(Tail(todo), S) + Times(Waiting, S)
    BY <1>3 DEF Left, Waiting
  <2>2. Left(S) = Times(todo, S) + Times(Waiting, S) /\ Times(Waiting, S) \in Nat
    BY <1>1 DEF Left, Waiting
  <2> QED  BY <1>1, <1>2, <2>1, <2>2
<1>4. ASSUME phase = "round", kept' = Append(kept, Head(todo)) PROVE Left(S)' = Left(S)
  <2>1. Left(S)' = Times(Tail(todo), S) + Times(Append(kept, Head(todo)), S)
    BY <1>4 DEF Left, Waiting
  <2>2. Left(S) = Times(todo, S) + Times(kept, S)
    BY <1>4 DEF Left, Waiting
  <2> QED  BY <1>1, <1>2, <2>1, <2>2
<1> QED  BY <1>3, <1>4 DEF one

(* done counts one more: the next task, not given up, is yielded.          *)
LEMMA YieldCounts ==
  ASSUME ListsInv, CountedInv, phase \in {"cached", "round"}, phase' = phase,
         todo # <<>>, todo' = Tail(todo), UNCHANGED <<call, pending, kept>>,
         Head(todo) \notin GivenUp, GivenUp' = GivenUp,
         yielded' = yielded \cup {Head(todo)}, done \in Nat, done' = done + 1
  PROVE  CountedInv'
<1> DEFINE t == Head(todo)
<1>1. /\ Range(todo) = {t} \cup Range(todo') /\ Waiting' = Waiting
      /\ Range(call.tasks) = yielded \cup GivenUp \cup Range(todo) \cup Range(Waiting)
      /\ done + Left(yielded) = Times(call.tasks, yielded)
      /\ \A u \in Range(todo) \cup Range(Waiting) :
            u \notin yielded \cup GivenUp => Left({u}) = Times(call.tasks, {u})
  BY HeadAndTail DEF ListsInv, CountedInv, Waiting
<1>2. \A S : /\ Left(S) = Left(S)' + (IF t \in S THEN 1 ELSE 0)
             /\ Left(S) \in Nat /\ Times(call.tasks, S) \in Nat
  BY LeftNext, LeftNat
<1>3. \A S : Left(S)' = Times(todo', S) + Times(Waiting', S)
  BY DEF Left
<1>4. \A S : Left(S)' \in Nat
  <2>1. todo' \in Seq(Tasks) /\ Waiting' \in Seq(Tasks)
    BY <1>1, HeadAndTail DEF ListsInv, Waiting
  <2>2. \A S : Times(todo', S) \in Nat /\ Times(Waiting', S) \in Nat
    BY <2>1, PlacesFinite
  <2> QED  BY <1>3, <2>2
<1> DEFINE after(S) == Times(todo', S) + Times(Waiting', S)
<1>5. done' + after(yielded') = Times(call.tasks, yielded')
  <2>1. CASE t \in yielded
    <3>1. yielded' = yielded
      BY <2>1
    <3>2. Left(yielded) = after(yielded) + 1 /\ after(yielded) \in Nat
      BY <1>2, <1>3, <1>4, <2>1
    <3> HIDE DEF after
    <3>3. done + 1 + after(yielded) = done + Left(yielded)
      BY <3>2
    <3> QED  BY <1>1, <3>1, <3>3
  <2>2. CASE t \notin yielded
    <3>1. Left(yielded') = after(yielded') + 1 /\ after(yielded') \in Nat
      BY <1>2, <1>3, <1>4
    <3>2. /\ Left(yielded') = Left(yielded) + Left({t})
          /\ Times(call.tasks, yielded') = Times(call.tasks, yielded) + Times(call.tasks, {t})
      BY <2>2, LeftWith
    <3>3. Left({t}) = Times(call.tasks, {t})
      BY <1>1, <2>2
    <3>4. /\ Left(yielded) \in Nat /\ Left({t}) \in Nat
          /\ Times(call.tasks, yielded) \in Nat
      BY <1>2
    <3>5. done' = done + 1 /\ done \in Nat /\ done + Left(yielded) = Times(call.tasks, yielded)
      BY <1>1
    <3> HIDE DEF after
    <3> QED  BY ONLY <3>1, <3>2, <3>3, <3>4, <3>5
  <2> QED  BY <2>1, <2>2
<1>6. ASSUME NEW u \in Range(todo') \cup Range(Waiting'), u \notin yielded' \cup GivenUp
      PROVE  after({u}) = Times(call.tasks, {u})
  <2>1. u # t /\ Left({u}) = Times(call.tasks, {u})
    BY <1>1, <1>6
  <2>2. Left({u}) = after({u}) + 0 /\ after({u}) \in Nat
    BY <1>2, <1>3, <1>4, <2>1
  <2> HIDE DEF after
  <2> QED  BY <2>1, <2>2
<1>7. Range(call.tasks) = yielded' \cup GivenUp \cup Range(todo') \cup Range(Waiting')
  BY <1>1
<1> QED  BY <1>5, <1>6, <1>7 DEF CountedInv, Left

(* The next task is given up, or kept.                                     *)
LEMMA PassCounts ==
  ASSUME ListsInv, CountedInv, phase = "round", phase' = phase,
         todo # <<>>, todo' = Tail(todo), UNCHANGED <<call, pending, yielded, done>>,
         Head(todo) \notin yielded,
         \/ kept' = kept /\ GivenUp' = GivenUp \cup {Head(todo)}
         \/ kept' = Append(kept, Head(todo)) /\ GivenUp' = GivenUp
  PROVE  CountedInv'
<1> DEFINE t == Head(todo)
<1>1. /\ Range(todo) = {t} \cup Range(todo') /\ Waiting' = kept' /\ Waiting = kept
      /\ Range(Append(kept, t)) = Range(kept) \cup {t}
      /\ Range(call.tasks) = yielded \cup GivenUp \cup Range(todo) \cup Range(Waiting)
      /\ done + Left(yielded) = Times(call.tasks, yielded)
      /\ \A u \in Range(todo) \cup Range(Waiting) :
            u \notin yielded \cup GivenUp => Left({u}) = Times(call.tasks, {u})
  BY HeadAndTail, RangeAppend DEF ListsInv, CountedInv, Waiting
<1>2. \A S : kept' = Append(kept, t) \/ t \notin S => Left(S)' = Left(S)
  <2> SUFFICES ASSUME NEW S, kept' = Append(kept, t) \/ t \notin S
               PROVE  Left(S)' = Left(S)
    OBVIOUS
  <2>1. /\ Left(S)' = Times(todo', S) + Times(Waiting', S)
        /\ Times(todo', S) \in Nat /\ Times(Waiting', S) \in Nat
    <3>1. /\ t \in Tasks /\ todo' \in Seq(Tasks) /\ kept \in Seq(Tasks)
          /\ kept' = kept \/ kept' = Append(kept, t)
      BY HeadAndTail DEF ListsInv
    <3> HIDE DEF t
    <3>2. Append(kept, t) \in Seq(Tasks)
      BY <3>1
    <3>3. todo' \in Seq(Tasks) /\ kept' \in Seq(Tasks)
      BY <3>1, <3>2
    <3> QED  BY <1>1, <3>3, PlacesFinite DEF Left
  <2> QED  BY <2>1, LeftNext
<1>3. \A S : Left(S)' = Times(todo', S) + Times(Waiting', S)
  BY DEF Left
<1>4. done + (Times(todo', yielded) + Times(Waiting', yielded)) = Times(call.tasks, yielded)
  BY <1>1, <1>2, <1>3
<1>5. ASSUME NEW u \in Range(todo') \cup Range(Waiting'), u \notin yielded \cup GivenUp'
      PROVE  Times(todo', {u}) + Times(Waiting', {u}) = Times(call.tasks, {u})
  <2>1. u \in Range(todo) \cup Range(Waiting) /\ u \notin GivenUp
        /\ (kept' = Append(kept, t) \/ u # t)
    BY <1>1, <1>5
  <2>2. Left({u})' = Left({u}) /\ Left({u}) = Times(call.tasks, {u})
    BY <1>1, <1>2, <1>5, <2>1
  <2> QED  BY <1>3, <2>2
<1>6. Range(call.tasks) = yielded \cup GivenUp' \cup Range(todo') \cup Range(Waiting')
  BY <1>1
<1> QED  BY <1>4, <1>5, <1>6 DEF CountedInv, Left

(* Drop gives up some of the tasks that wait.                              *)
LEMMA DropCounts ==
  ASSUME ListsInv, ApartInv, CountedInv, NEW unserved, unserved \subseteq Range(pending),
         NEW p, NEW q, p # "round", q # "round", Drop(unserved, p, q),
         phase \notin {"idle", "round"},
         GivenUp' = GivenUp \cup unserved, UNCHANGED call
  PROVE  CountedInv'
<1>1. CASE Leave("raised")
  BY <1>1 DEF Leave, LeaveWith, Goto, CountedInv
<1>2. CASE DropsFrom(unserved, p, q)
  <2>1. /\ Waiting = pending /\ Waiting' = pending' /\ todo' = todo
        /\ yielded' = yielded /\ done' = done
        /\ Range(pending') = Range(pending) \ unserved
        /\ \A S \in SUBSET Tasks : Times(pending', S) = Times(pending, S \ unserved)
    BY <1>2 DEF DropsFrom, countVars, Waiting
  <2>2. /\ Range(call.tasks) = yielded \cup GivenUp \cup Range(todo) \cup Range(pending)
        /\ done + (Times(todo, yielded) + Times(pending, yielded))
                = Times(call.tasks, yielded)
        /\ \A u \in Range(todo) \cup Range(pending) :
              u \notin yielded \cup GivenUp =>
                 Times(todo, {u}) + Times(pending, {u}) = Times(call.tasks, {u})
    BY <2>1 DEF CountedInv, Left
  <2>3. /\ Range(pending) \subseteq Tasks /\ Range(todo) \subseteq Tasks
        /\ Range(call.tasks) \subseteq Tasks
    BY RangeSeq DEF ListsInv
  <2>4. yielded \cap unserved = {} /\ yielded \in SUBSET Tasks
    BY <2>1, <2>2, <2>3 DEF ApartInv
  <2>5. Times(pending', yielded) = Times(pending, yielded)
    <3>1. yielded \ unserved = yielded
      BY <2>4
    <3> QED  BY <2>1, <2>4, <3>1
  <2>6. ASSUME NEW u \in Range(todo) \cup Range(pending'), u \notin yielded \cup GivenUp'
        PROVE  Times(todo, {u}) + Times(pending', {u}) = Times(call.tasks, {u})
    <3>1. {u} \ unserved = {u} /\ {u} \in SUBSET Tasks
      BY <2>1, <2>3, <2>6
    <3>2. Times(pending', {u}) = Times(pending, {u})
      BY <2>1, <3>1
    <3> QED  BY <2>1, <2>2, <2>6, <3>2
  <2>7. Range(call.tasks) = yielded \cup GivenUp' \cup Range(todo) \cup Range(pending')
    BY <2>1, <2>2
  <2> QED  BY <2>1, <2>2, <2>5, <2>6, <2>7 DEF CountedInv, Left
<1> QED  BY <1>1, <1>2, DropsTasks, RangeSeq DEF ListsInv

(* A call begins: each task is in one of the two lists, as often as in the *)
(* list of the caller.                                                     *)
LEMMA BeginCounts ==
  ASSUME NEW list \in Lists, NEW policy, NEW lazy, BeginCall(list, policy, lazy)
  PROVE  CountedInv'
<1> DEFINE fresh == {t \in Tasks : output[t] = "none"}
           old   == {t \in Tasks : output[t] # "none"}
<1>1. /\ list \in Seq(Tasks) /\ Range(list) \subseteq Tasks
      /\ Range(pending') = {t \in Range(list) : output[t] = "none"}
      /\ Range(todo') = {t \in Range(list) : output[t] # "none"}
  BY BeginLists, RangeSeq
<1>2. /\ call'.tasks = list /\ phase' = "start"
      /\ yielded' = {} /\ GivenUp' = {} /\ done' = 0
      /\ pending' = Only(list, fresh) /\ todo' = Only(list, old)
  BY DEF BeginCall, GivenUp
<1> HIDE DEF fresh, old
<1>3. \A S : /\ Times(pending', S) = Times(list, fresh \cap S)
             /\ Times(todo', S) = Times(list, old \cap S)
  BY <1>1, <1>2, TimesOnly
<1>4. Times(list, {}) = 0 /\ \A S : Times(list, S) \in Nat
  BY <1>1, TimesRange
<1>5. Times(todo', {}) + Times(pending', {}) = 0
  <2>1. fresh \cap {} = {} /\ old \cap {} = {}
    OBVIOUS
  <2> QED  BY <1>3, <1>4, <2>1
<1>6. ASSUME NEW u \in Tasks
      PROVE  Times(todo', {u}) + Times(pending', {u}) = Times(list, {u})
  <2>1. \/ fresh \cap {u} = {u} /\ old \cap {u} = {}
        \/ fresh \cap {u} = {} /\ old \cap {u} = {u}
    BY DEF fresh, old
  <2> QED  BY <1>3, <1>4, <2>1
<1>7. Range(list) = Range(todo') \cup Range(pending')
  BY <1>1
<1>8. Waiting' = pending'
  BY <1>2 DEF Waiting
<1> QED  BY <1>1, <1>2, <1>4, <1>5, <1>6, <1>7, <1>8 DEF CountedInv, Left

LEMMA RoundCounts ==
  ASSUME ListsInv, ApartInv, CountedInv, done \in Nat, NEW t \in Tasks,
         \/ TakeFinished(t) \/ TakeFailed(t) \/ MissOutput(t) \/ TakeDead(t) \/ TakePending(t)
  PROVE  CountedInv'
<1>1. /\ phase = "round" /\ todo # <<>> /\ t = Head(todo) /\ t \in Range(todo)
      /\ UNCHANGED <<call, starved, stranded>>
  BY NextOfRound
<1>2. /\ t \in yielded => states[t] \in {"finished"} \cup Failed
      /\ t \in GivenUp => states[t] \in {"canceled", "undefined"}
  BY <1>1 DEF ApartInv
<1>3. CASE \E how, n : LeaveWith(how, n)
  BY <1>3 DEF LeaveWith, Goto, CountedInv
<1>4. ASSUME states[t] \in {"finished"} \cup Failed, Yield(t, "round"), GoOn,
             UNCHANGED <<kept, dead>>
      PROVE  CountedInv'
  <2>1. /\ phase' = phase /\ todo' = Tail(todo) /\ UNCHANGED pending
        /\ yielded' = yielded \cup {t} /\ done' = done + 1 /\ GivenUp' = GivenUp
    BY <1>1, <1>4 DEF Yield, GoOn, GivenUp
  <2>2. t \notin GivenUp
    BY <1>2, <1>4 DEF Failed
  <2> QED  BY <1>1, <1>4, <2>1, <2>2, YieldCounts
<1>5. CASE TakeFinished(t)
  BY <1>3, <1>4, <1>5 DEF TakeFinished, Reach, Deliver, CountFails
<1>6. CASE TakeFailed(t)
  BY <1>3, <1>4, <1>6 DEF TakeFailed, Reach, Deliver, CountFails, Leave
<1>7. CASE MissOutput(t)
  BY <1>3, <1>7 DEF MissOutput, Leave
<1>8. CASE TakeDead(t)
  <2>1. /\ t \notin yielded /\ GivenUp' = GivenUp \cup {t}
        /\ \/ Leave("raised")
           \/ /\ phase' = phase /\ todo' = Tail(todo)
              /\ UNCHANGED <<kept, pending, yielded, done>>
    BY <1>1, <1>2, <1>8 DEF TakeDead, Reach, GivenUp, Goto, GoOn, countVars, Failed
  <2> QED  BY <1>1, <1>3, <2>1, PassCounts DEF Leave
<1>9. CASE TakePending(t)
  <2>1. /\ t \notin yielded /\ GivenUp' = GivenUp /\ kept' = Append(kept, t)
        /\ phase' = phase /\ todo' = Tail(todo) /\ UNCHANGED <<pending, yielded, done>>
    BY <1>1, <1>2, <1>9
    DEF TakePending, Reach, GivenUp, Goto, GoOn, countVars, Failed, Blocking
  <2> QED  BY <1>1, <2>1, PassCounts
<1> QED  BY <1>5, <1>6, <1>7, <1>8, <1>9

LEMMA CountedStep ==
  ASSUME ListsInv, ApartInv, CountedInv, done \in Nat, [Next]_vars
  PROVE  CountedInv'
<1> USE DEF dropVars, loopVars, countVars
<1>1. CASE Elsewhere
  BY <1>1 DEF Elsewhere, CountedInv, Left, Waiting, GivenUp
<1>2. ASSUME NEW list \in Lists, NEW policy \in Policies, NEW lazy \in BOOLEAN,
             BeginCall(list, policy, lazy)
      PROVE  CountedInv'
  BY <1>2, BeginCounts
<1>3. CASE CheckStarved
  <2>1. /\ phase = "start" /\ Drop(starved', "cached", "cached") /\ UNCHANGED call
        /\ GivenUp' = GivenUp \cup starved'
    BY <1>3 DEF CheckStarved, At, GivenUp, ListsInv
  <2>2. starved' \subseteq Range(pending)
    BY <1>3, UnservedPending DEF CheckStarved, ListsInv
  <2> QED  BY <2>1, <2>2, DropCounts
<1>4. CASE YieldCached
  <2>1. /\ phase = "cached" /\ todo # <<>> /\ GivenUp' = GivenUp /\ UNCHANGED call
        /\ Deliver(Head(todo), "cached")
    BY <1>4 DEF YieldCached, At, GivenUp
  <2>2. CASE CountFails
    BY <2>2 DEF CountFails, LeaveWith, Goto, CountedInv
  <2>3. CASE Yield(Head(todo), "cached") /\ GoOn /\ UNCHANGED kept
    <3>1. /\ phase' = phase /\ todo' = Tail(todo) /\ UNCHANGED <<pending, kept>>
          /\ yielded' = yielded \cup {Head(todo)} /\ done' = done + 1
      BY <2>1, <2>3 DEF Yield, GoOn
    <3>2. Head(todo) \notin GivenUp
      BY <2>1, HeadAndTail DEF ListsInv, ApartInv
    <3> QED  BY <2>1, <3>1, <3>2, YieldCounts
  <2> QED  BY <2>1, <2>2, <2>3 DEF Deliver
<1>5. CASE StartLoop \/ CheckAncestors \/ SqueueFails
  <2>1. /\ phase \notin {"idle", "round"} /\ phase' \notin {"idle", "round"}
        /\ GivenUp' = GivenUp /\ UNCHANGED <<call, todo, pending, yielded, done>>
    BY <1>5 DEF StartLoop, CheckAncestors, SqueueFails, At, Goto, Loop, GivenUp
  <2>2. Waiting' = Waiting
    BY <2>1 DEF Waiting
  <2> QED  BY <2>1, <2>2 DEF CountedInv, Left
<1>6. CASE Poll
  <2>1. /\ phase = "poll" /\ phase' = "round" /\ todo' = pending /\ kept' = <<>>
        /\ GivenUp' = GivenUp /\ UNCHANGED <<call, yielded, done>>
    BY <1>6 DEF Poll, At, Goto, GivenUp
  <2>2. Waiting = pending /\ Waiting' = <<>> /\ todo = <<>>
    BY <2>1 DEF Waiting, ListsInv
  <2>3. \A S : Left(S)' = Left(S)
    <3> SUFFICES ASSUME NEW S PROVE Left(S)' = Left(S)
      OBVIOUS
    <3>1. Times(<<>>, S) = 0 /\ Times(pending, S) \in Nat
      BY TimesEmpty, PlacesFinite DEF ListsInv
    <3> QED  BY <2>1, <2>2, <3>1 DEF Left
  <2>4. \A S : Left(S)' = Times(todo', S) + Times(Waiting', S)
    BY DEF Left
  <2>5. /\ done + (Times(todo', yielded) + Times(Waiting', yielded))
              = Times(call.tasks, yielded)
        /\ \A u \in Range(pending) : u \notin yielded \cup GivenUp =>
              Times(todo', {u}) + Times(Waiting', {u}) = Times(call.tasks, {u})
    BY <2>1, <2>2, <2>3, <2>4 DEF CountedInv
  <2>6. Range(call.tasks) = yielded \cup GivenUp \cup Range(pending)
    BY <2>1, <2>2, EmptyRange DEF CountedInv
  <2> QED  BY <2>1, <2>2, <2>5, <2>6, EmptyRange DEF CountedInv, Left
<1>7. CASE EndRound
  <2>1. /\ phase = "round" /\ phase' \in {"end", "poll", "check"} /\ pending' = kept
        /\ GivenUp' = GivenUp /\ UNCHANGED <<call, todo, yielded, done>>
    BY <1>7 DEF EndRound, At, Loop, GivenUp
  <2>2. Waiting' = Waiting
    BY <2>1 DEF Waiting
  <2> QED  BY <2>1, <2>2 DEF CountedInv, Left
<1>8. CASE CheckStranded
  <2>1. PICK unserved : /\ unserved \subseteq Range(pending)
                        /\ stranded' = stranded \cup unserved
                        /\ Drop(unserved, "end", "poll")
    BY <1>8, UnservedPending DEF CheckStranded, ListsInv
  <2>2. /\ phase = "squeue" /\ UNCHANGED call /\ GivenUp' = GivenUp \cup unserved
    BY <1>8, <2>1 DEF CheckStranded, At, GivenUp
  <2> QED  BY <2>1, <2>2, DropCounts
<1>9. CASE Finish \/ Break \/ Abandon
  <2>1. \E how : Leave(how)
    BY <1>9 DEF Finish, Break, Abandon
  <2> QED  BY <2>1 DEF Leave, LeaveWith, Goto, CountedInv
<1>10. ASSUME NEW t \in Tasks,
          \/ TakeFinished(t) \/ TakeFailed(t) \/ MissOutput(t) \/ TakeDead(t) \/ TakePending(t)
       PROVE  CountedInv'
  BY <1>10, RoundCounts
<1> QED
  BY <1>1, <1>2, <1>3, <1>4, <1>5, <1>6, <1>7, <1>8, <1>9, <1>10, ElsewhereShape
  DEF Next, DriverCall, LoopStep

-----------------------------------------------------------------------------
(* The outputs of the tasks yielded.                                       *)

LEMMA HomeStep ==
  ASSUME ListsInv, ApartInv, HomeInv, ServerTypes, [Next]_vars
  PROVE  HomeInv'
<1> USE DEF dropVars, loopVars, countVars, handleVars
<1>1. CASE UNCHANGED <<yielded, output>>
  BY <1>1 DEF HomeInv
<1>2. CASE \/ Elsewhere \/ StartLoop \/ Poll \/ EndRound \/ CheckAncestors \/ SqueueFails
           \/ \E how : Leave(how) /\ UNCHANGED output
  <2>1. UNCHANGED <<yielded, output>>
    BY <1>2
    DEF Elsewhere, StartLoop, Poll, EndRound, CheckAncestors, SqueueFails, Leave, LeaveWith
  <2> QED  BY <1>1, <2>1
<1>3. ASSUME NEW list \in Lists, NEW policy \in Policies, NEW lazy \in BOOLEAN,
             BeginCall(list, policy, lazy)
      PROVE  HomeInv'
  BY <1>3 DEF BeginCall, HomeInv
<1>4. CASE CheckStarved \/ CheckStranded
  <2>1. UNCHANGED output /\ \E u, p, q : Drop(u, p, q)
    BY <1>4 DEF CheckStarved, CheckStranded
  <2>2. UNCHANGED yielded
    BY <2>1 DEF Drop, Leave, LeaveWith
  <2> QED  BY <1>1, <2>1, <2>2
<1>5. CASE YieldCached
  <2>1. /\ phase = "cached" /\ todo # <<>> /\ UNCHANGED output
        /\ yielded' \subseteq yielded \cup {Head(todo)}
    BY <1>5 DEF YieldCached, At, Deliver, Yield, CountFails, LeaveWith
  <2>2. output[Head(todo)] # "none"
    BY <2>1, HeadAndTail DEF ListsInv, ApartInv
  <2> QED  BY <2>1, <2>2 DEF HomeInv
<1>6. ASSUME NEW t \in Tasks, TakeFinished(t) \/ TakeFailed(t) PROVE HomeInv'
  <2>1. /\ yielded' \subseteq yielded \cup {t}
        /\ \A u \in Tasks \ {t} : output'[u] = output[u]
        /\ t \in Fetched => output'[t] # "none"
    BY <1>6 DEF TakeFinished, TakeFailed, Deliver, CountFails, Yield, Leave, LeaveWith, ServerTypes
  <2> QED  BY <2>1, ConstantsOK DEF HomeInv
<1>7. ASSUME NEW t \in Tasks, MissOutput(t) \/ TakeDead(t) \/ TakePending(t)
      PROVE  HomeInv'
  <2>1. UNCHANGED <<yielded, output>>
    BY <1>7 DEF MissOutput, TakeDead, TakePending, Leave, LeaveWith
  <2> QED  BY <1>1, <2>1
<1>8. CASE Finish \/ Break \/ Abandon
  BY <1>2, <1>8 DEF Finish, Break, Abandon
<1> QED
  BY <1>2, <1>3, <1>4, <1>5, <1>6, <1>7, <1>8, ElsewhereShape DEF Next, DriverCall, LoopStep

-----------------------------------------------------------------------------
(* How a call ends.                                                        *)

(* What holds of a call that left: it leaves no task behind in good order, *)
(* and obeys its policy.                                                   *)
LeftWell ==
    /\ outcome' # "none"
    /\ InGoodOrder' => /\ yielded' \cup GivenUp' = Range(call'.tasks)
                       /\ done' = Times(call'.tasks, yielded')
    /\ PolicyIsKept'

LEMMA EndOfCall ==
  ASSUME FailuresInv, EndInv, PolicyIsKept,
         \/ UNCHANGED <<call, failures, outcome, yielded, GivenUp, done>>
            /\ (phase = "idle" <=> phase' = "idle")
         \/ /\ phase' # "idle" /\ outcome' = "none"
            /\ call'.policy = First => failures' = 0
         \/ phase' = "idle" /\ LeftWell
  PROVE  FailuresInv' /\ EndInv' /\ PolicyIsKept'
<1>1. CASE UNCHANGED <<call, failures, outcome, yielded, GivenUp, done>>
           /\ (phase = "idle" <=> phase' = "idle")
  BY <1>1 DEF FailuresInv, EndInv, PolicyIsKept, InGoodOrder
<1>2. CASE /\ phase' # "idle" /\ outcome' = "none"
           /\ call'.policy = First => failures' = 0
  BY <1>2 DEF FailuresInv, EndInv, PolicyIsKept, InGoodOrder
<1>3. CASE phase' = "idle" /\ LeftWell
  BY <1>3 DEF FailuresInv, EndInv, PolicyIsKept, LeftWell
<1> QED  BY <1>1, <1>2, <1>3

(* Raising at once: not in good order.                                     *)
LEMMA RaisedWell ==
  ASSUME Leave("raised"), UNCHANGED call, call.policy = First, failures' > 0
  PROVE  phase' = "idle" /\ LeftWell
  BY DEF Leave, LeaveWith, Goto, LeftWell, InGoodOrder, PolicyIsKept, First, After, Never

LEMMA BrokenWell ==
  ASSUME NEW how \in {"broken", "abandoned"}, NEW n, LeaveWith(how, n)
  PROVE  phase' = "idle" /\ LeftWell
  BY DEF LeaveWith, Goto, LeftWell, InGoodOrder, PolicyIsKept

LEMMA FinishWell ==
  ASSUME ListsInv, CountedInv, FailuresInv, CallTypes, Finish
  PROVE  phase' = "idle" /\ LeftWell
<1>1. /\ phase = "end" /\ todo = <<>> /\ Waiting = <<>>
      /\ UNCHANGED <<call, dropVars, yielded, done>>
  BY DEF Finish, At, ListsInv, Waiting, Leave, LeaveWith
<1>2. \A S : Left(S) = 0
  BY <1>1, TimesEmpty DEF Left
<1>3. /\ yielded \cup GivenUp = Range(call.tasks)
      /\ done = Times(call.tasks, yielded)
  BY <1>1, <1>2, EmptyRange DEF CountedInv, CallTypes
<1>4. GivenUp' = GivenUp
  BY <1>1 DEF GivenUp, dropVars
<1>5. /\ phase' = "idle"
      /\ \/ outcome' = "broken"
         \/ outcome' = IF failures > 0 /\ call.policy = After THEN "raised" ELSE "returned"
  BY DEF Finish, Leave, LeaveWith, Goto
<1>6. call.policy \in {First, After, Never}
  BY ConstantsOK DEF CallTypes
<1>7. call.policy = First => failures = 0
  BY <1>1 DEF FailuresInv
<1>8. PolicyIsKept'
  BY <1>1, <1>5, <1>6, <1>7 DEF PolicyIsKept, dropVars, First, After, Never
<1> QED  BY <1>1, <1>3, <1>4, <1>5, <1>8 DEF LeftWell

LEMMA DropEnds ==
  ASSUME ListsInv, CallTypes, FailuresInv, EndInv, phase # "idle",
         NEW unserved, unserved \subseteq Range(pending),
         NEW p, NEW q, p # "idle", q # "idle", Drop(unserved, p, q), UNCHANGED call
  PROVE  \/ /\ phase' # "idle" /\ outcome' = "none"
            /\ call'.policy = First => failures' = 0
         \/ phase' = "idle" /\ LeftWell
<1>1. unserved \in SUBSET Tasks /\ pending \in Seq(Tasks)
  BY RangeSeq DEF ListsInv
<1>2. /\ failures' = failures + Times(pending, unserved) /\ failures \in Nat
      /\ Times(pending, unserved) \in Nat
      /\ Times(pending, unserved) = 0 <=> unserved = {}
  BY <1>1, DropsTasks, TimesRange DEF CallTypes
<1>3. CASE unserved # {} /\ call.policy = First /\ Leave("raised")
  BY <1>2, <1>3, RaisedWell
<1>4. CASE DropsFrom(unserved, p, q) /\ (unserved # {} => call.policy # First)
  BY <1>2, <1>4 DEF DropsFrom, FailuresInv, EndInv
<1> QED  BY <1>1, <1>3, <1>4, DropsTasks

LEMMA EndStep ==
  ASSUME ListsInv, CallTypes, CountedInv, HeldInCall,
         FailuresInv, EndInv, PolicyIsKept, [Next]_vars
  PROVE  FailuresInv' /\ EndInv' /\ PolicyIsKept'
<1> USE DEF dropVars, loopVars, countVars
<1> DEFINE Stays == /\ UNCHANGED <<call, failures, outcome, yielded, GivenUp, done>>
                    /\ phase = "idle" <=> phase' = "idle"
           Goes  == /\ phase' # "idle" /\ outcome' = "none"
                    /\ call'.policy = First => failures' = 0
           Ends  == phase' = "idle" /\ LeftWell
<1>1. ASSUME Stays \/ Goes \/ Ends PROVE FailuresInv' /\ EndInv' /\ PolicyIsKept'
  BY <1>1, EndOfCall
<1>2. Elsewhere => Stays
  BY DEF Elsewhere, GivenUp
<1>3. ASSUME NEW list \in Lists, NEW policy \in Policies, NEW lazy \in BOOLEAN,
             BeginCall(list, policy, lazy)
      PROVE  Goes
  BY <1>3 DEF BeginCall
<1>4. CheckStarved => Goes \/ Ends
  <2> SUFFICES ASSUME CheckStarved PROVE Goes \/ Ends
    OBVIOUS
  <2>1. /\ phase = "start" /\ Drop(starved', "cached", "cached") /\ UNCHANGED call
    BY DEF CheckStarved, At
  <2>2. starved' \subseteq Range(pending)
    BY UnservedPending DEF CheckStarved, ListsInv
  <2> QED  BY <2>1, <2>2, DropEnds
<1>5. CheckStranded => Goes \/ Ends
  <2> SUFFICES ASSUME CheckStranded PROVE Goes \/ Ends
    OBVIOUS
  <2>1. PICK unserved : unserved \subseteq Range(pending) /\ Drop(unserved, "end", "poll")
    BY UnservedPending DEF CheckStranded, ListsInv
  <2>2. phase = "squeue" /\ UNCHANGED call
    BY DEF CheckStranded, At
  <2> QED  BY <2>1, <2>2, DropEnds
<1>6. StartLoop \/ Poll \/ EndRound \/ CheckAncestors \/ SqueueFails => Goes
  BY DEF StartLoop, Poll, EndRound, CheckAncestors, SqueueFails, At, Goto, Loop,
         FailuresInv, EndInv
<1>7. Finish => Ends
  BY FinishWell
<1>8. Break \/ Abandon => Ends
  BY BrokenWell DEF Break, Abandon, Leave
<1>9. ASSUME NEW t \in Tasks,
         \/ TakeFinished(t) \/ TakeFailed(t) \/ MissOutput(t) \/ TakeDead(t) \/ TakePending(t)
      PROVE  Goes \/ Ends
  <2>1. /\ phase = "round" /\ UNCHANGED call /\ failures \in Nat
        /\ call.policy = First => failures = 0
        /\ outcome = "none"
    BY <1>9, NextOfRound DEF FailuresInv, EndInv, CallTypes
  <2>2. ASSUME Deliver(t, "round"), call.policy = First => failures' = 0 PROVE Goes \/ Ends
    BY <2>1, <2>2, BrokenWell DEF Deliver, CountFails, Yield
  <2>3. CASE TakeFinished(t)
    BY <2>1, <2>2, <2>3 DEF TakeFinished
  <2>4. CASE TakeFailed(t)
    <3>1. failures' > 0
      BY <2>1, <2>4 DEF TakeFailed
    <3> QED  BY <2>1, <2>2, <2>4, <3>1, RaisedWell DEF TakeFailed, RaisesNow
  <2>5. CASE MissOutput(t)
    BY <2>5, BrokenWell DEF MissOutput, Leave
  <2>6. CASE TakeDead(t)
    <3>1. failures' > 0
      BY <2>1, <2>6 DEF TakeDead
    <3>2. \/ call.policy = First /\ Leave("raised")
          \/ call.policy # First /\ phase' = "round" /\ outcome' = outcome
      BY <2>6 DEF TakeDead, RaisesNow, Goto
    <3> QED  BY <2>1, <3>1, <3>2, RaisedWell
  <2>7. CASE TakePending(t)
    BY <2>1, <2>7 DEF TakePending, Goto
  <2> QED  BY <1>9, <2>3, <2>4, <2>5, <2>6, <2>7
<1>10. YieldCached => Goes \/ Ends
  <2> SUFFICES ASSUME YieldCached PROVE Goes \/ Ends
    OBVIOUS
  <2>1. phase = "cached" /\ Deliver(Head(todo), "cached") /\ UNCHANGED <<call, failures>>
    BY DEF YieldCached, At
  <2> QED  BY <2>1, BrokenWell DEF Deliver, CountFails, Yield, FailuresInv, EndInv
<1> HIDE DEF Stays, Goes, Ends
<1>11. Stays \/ Goes \/ Ends
  BY <1>2, <1>3, <1>4, <1>5, <1>6, <1>7, <1>8, <1>9, <1>10, ElsewhereShape
  DEF Next, DriverCall, LoopStep
<1> QED  BY <1>1, <1>11

-----------------------------------------------------------------------------
(* What every call keeps.                                                  *)

CallInv ==
    /\ ServerTypes /\ CallTypes /\ ListsInv /\ HeldInCall
    /\ ApartInv /\ CountedInv /\ HomeInv /\ FailuresInv /\ EndInv
    /\ PolicyIsKept

LEMMA CallInvariant == Spec => []CallInv
<1>1. ASSUME Init PROVE CallInv
  <2>1. /\ phase = "idle" /\ pending = <<>> /\ todo = <<>> /\ yielded = {} /\ GivenUp = {}
        /\ outcome = "none" /\ held = FALSE
    BY <1>1 DEF Init, GivenUp
  <2> QED
    BY <1>1, <2>1, TypesInit, EmptyRange
    DEF CallInv, HeldInCall, ApartInv, CountedInv, HomeInv, FailuresInv, EndInv,
        PolicyIsKept, InGoodOrder, Waiting
<1>2. CallInv /\ [Next]_vars => CallInv'
  <2> SUFFICES ASSUME CallInv, [Next]_vars PROVE CallInv'
    OBVIOUS
  <2>1. /\ ServerTypes /\ CallTypes /\ ListsInv /\ HeldInCall
        /\ ApartInv /\ CountedInv /\ HomeInv /\ FailuresInv /\ EndInv /\ PolicyIsKept
    BY DEF CallInv
  <2>2. ServerTypes' /\ CallTypes' /\ ListsInv' /\ HeldInCall'
    BY <2>1, ServerTypesStep, CallTypesStep, ListsStep, HeldInCallStep
  <2>3. ApartInv' /\ HomeInv'
    BY <2>1, ApartStep, HomeStep
  <2>4. CountedInv'
    <3>1. done \in Nat
      BY <2>1 DEF CallTypes
    <3> QED  BY <2>1, <3>1, CountedStep
  <2>5. FailuresInv' /\ EndInv' /\ PolicyIsKept'
    BY <2>1, EndStep
  <2> QED  BY <2>2, <2>3, <2>4, <2>5 DEF CallInv
<1> QED  BY <1>1, <1>2, PTL DEF Spec

(* Every task of the list meets one fate: a call that ends in good order   *)
(* yielded it as often as the list names it, or gave up on it, never both. *)
THEOREM EveryTaskAlwaysHasOneFate == Spec => []EveryTaskHasOneFate
<1>1. CallInv => EveryTaskHasOneFate
  <2> SUFFICES ASSUME CallInv PROVE EveryTaskHasOneFate
    OBVIOUS
  <2>1. Len(Only(call.tasks, yielded)) = Times(call.tasks, yielded)
    BY OnlyLen DEF CallInv, ListsInv
  <2> QED  BY <2>1 DEF CallInv, ApartInv, EndInv, EveryTaskHasOneFate
<1> QED  BY <1>1, CallInvariant, PTL

(* A task that somebody waited for to the end was given up, or has its     *)
(* output in the handle unless only another task reads it; and an output   *)
(* tells what became of the task.                                          *)
THEOREM OutputsAreAlwaysHome == Spec => []OutputsAreHome
<1>1. CallInv /\ OutputsTell => OutputsAreHome
  <2> SUFFICES ASSUME CallInv, OutputsTell PROVE OutputsAreHome
    OBVIOUS
  <2>1. InGoodOrder => \A t \in Range(call.tasks) \ GivenUp :
                          t \in Fetched => output[t] # "none"
    BY DEF CallInv, EndInv, HomeInv
  <2>2. \A t \in Tasks : output[t] # "none" =>
          server[t] \in {"undefined",
                         CASE output[t] = "value" -> "finished"
                           [] output[t] = "error" -> "failed"
                           [] output[t] = "dependency" -> "dependency"}
    BY DEF OutputsTell, Told
  <2> QED  BY <2>1, <2>2 DEF OutputsAreHome
<1> QED  BY <1>1, CallInvariant, OutputsAlwaysTell, PTL

(* The policy decides: RAISE_NEVER never raises, and no other policy       *)
(* returns after a failure, whichever task of the list failed.             *)
THEOREM PolicyIsAlwaysKept == Spec => []PolicyIsKept
<1>1. CallInv => PolicyIsKept
  BY DEF CallInv
<1> QED  BY <1>1, CallInvariant, PTL

-----------------------------------------------------------------------------
(* The periodic check.                                                     *)

LEMMA AncestorsClosed ==
  ASSUME NEW t \in Tasks
  PROVE  /\ Ancestors[t] \subseteq Tasks /\ Parents[t] \subseteq Ancestors[t]
         /\ \A a \in Ancestors[t] : Parents[a] \subseteq Ancestors[t]
<1>1. Parents \in [Tasks -> SUBSET Tasks]
  BY ConstantsOK
<1>2. Ancestors[t] \subseteq Tasks /\ Parents[t] \subseteq Ancestors[t]
  BY <1>1 DEF Ancestors, Above
<1>3. ASSUME NEW a \in Ancestors[t] PROVE Parents[a] \subseteq Ancestors[t]
  <2> SUFFICES ASSUME NEW u \in Parents[a], NEW B \in SUBSET Tasks,
                      Parents[t] \cup UNION {Parents[b] : b \in B} \subseteq B
               PROVE  u \in B
    BY <1>1, <1>2, <1>3 DEF Ancestors, Above
  <2>1. a \in B
    BY <1>3 DEF Ancestors, Above
  <2> QED  BY <2>1
<1> QED  BY <1>2, <1>3

(* The ancestors are in every set that holds the parents and is closed.    *)
LEMMA AncestorsLeast ==
  ASSUME NEW t \in Tasks, NEW A \in SUBSET Tasks, Parents[t] \subseteq A,
         \A a \in A : Parents[a] \subseteq A
  PROVE  Ancestors[t] \subseteq A
<1>1. Parents[t] \cup UNION {Parents[a] : a \in A} \subseteq A
  OBVIOUS
<1> QED  BY <1>1 DEF Ancestors, Above

LEMMA AncestorsOfAncestors ==
  ASSUME NEW t \in Tasks, NEW u \in Ancestors[t]
  PROVE  Ancestors[u] \subseteq Ancestors[t]
  BY AncestorsClosed, AncestorsLeast

(* A walk through the unfinished ancestors finds some of the ancestors,    *)
(* and no others but unfinished ones.                                      *)
LEMMA AboveOpen ==
  ASSUME NEW open, NEW t \in Tasks
  PROVE  Above([u \in Tasks |-> Parents[u] \cap open])[t] \subseteq Ancestors[t] \cap open
<1> DEFINE up == [u \in Tasks |-> Parents[u] \cap open]
           A  == Ancestors[t] \cap open
<1>1. A \in SUBSET Tasks /\ up[t] \cup UNION {up[a] : a \in A} \subseteq A
  <2>1. A \subseteq Tasks /\ up[t] \subseteq A
    BY AncestorsClosed
  <2>2. ASSUME NEW a \in A PROVE up[a] \subseteq A
    <3>1. a \in Tasks /\ a \in Ancestors[t]
      BY AncestorsClosed
    <3> QED  BY AncestorsClosed, <3>1
  <2> QED  BY <2>1, <2>2
<1>2. ASSUME NEW u \in Above(up)[t] PROVE u \in A
  <2> HIDE DEF up, A
  <2>1. \A B \in SUBSET Tasks :
           up[t] \cup UNION {up[a] : a \in B} \subseteq B => u \in B
    BY <1>2 DEF Above
  <2> QED  BY <1>1, <2>1
<1> QED  BY <1>2

(* What the server holds: a task gets ready after all its parents, and     *)
(* whoever runs one is on a live queue of that task.                       *)
QueueInv ==
    /\ \A t \in Tasks : server[t] \in {"ready", "running", "finished", "failed"} =>
          \A p \in Parents[t] : server[p] = "finished"
    /\ \A t \in Tasks : runner[t] # Nobody =>
          server[t] = "running" /\ runner[t] \in QueuesOf[t] \cap running

LEMMA QueueStepShape ==
  ASSUME [Next]_vars,
         ~WorkerStep, ~Fault, \A t \in Tasks : ~Submit(t), \A q \in Queues : ~ScaleUp(q)
  PROVE  UNCHANGED <<server, runner, running>>
  BY DEF vars, Next, DriverCall, ForgetJobs, BeginCall, LoopStep, Resume, CheckStarved,
         YieldCached, StartLoop, Poll, EndRound, CheckAncestors, CheckStranded,
         SqueueFails, Finish, TakeFinished, TakeFailed, MissOutput, TakeDead, TakePending,
         Reach, Break, Abandon, serverVars

LEMMA QueueInvStep ==
  ASSUME ServerTypes, OutputInv, QueueInv, [Next]_vars
  PROVE  QueueInv'
<1>1. Parents \in [Tasks -> SUBSET Tasks]
  BY ConstantsOK
<1> USE DEF ServerTypes, QueueInv, QueueStep
<1>2. ASSUME NEW t \in Tasks, ClaimTask(t) PROVE QueueInv'
  BY <1>1, <1>2 DEF ClaimTask
<1>3. ASSUME NEW t \in Tasks, FinishTask(t) PROVE QueueInv'
  BY <1>1, <1>3 DEF FinishTask
<1>4. ASSUME NEW t \in Tasks, FailTask(t) PROVE QueueInv'
  BY <1>1, <1>4 DEF FailTask
<1>5. ASSUME NEW t \in Tasks, LoseTask(t) PROVE QueueInv'
  BY <1>5 DEF LoseTask
<1>6. ASSUME NEW t \in Tasks, CancelTask(t) PROVE QueueInv'
  BY <1>1, <1>6 DEF CancelTask, Blocking
<1>7. CASE RestartServer
  BY <1>7 DEF RestartServer
<1>8. ASSUME NEW q \in Queues, EndJobs(q) PROVE QueueInv'
  BY <1>8 DEF EndJobs
<1>9. ASSUME NEW t \in Tasks, Submit(t) PROVE QueueInv'
  <2>1. server[t] = "undefined" /\ UNCHANGED <<runner, running>>
    BY <1>9 DEF Submit, OutputInv
  <2>2. \A u \in Tasks \ {t} : server'[u] = server[u]
    BY <1>9 DEF Submit
  <2>3. server'[t] \in {"dependency", "canceled", "waiting", "ready"}
        /\ (server'[t] = "ready" => \A p \in Parents[t] : server[p] = "finished")
    BY <1>9 DEF Submit
  <2> QED  BY <1>1, <2>1, <2>2, <2>3
<1>10. ASSUME NEW q \in Queues, ScaleUp(q) PROVE QueueInv'
  BY <1>10 DEF ScaleUp
<1>11. UNCHANGED <<server, runner, running>> => QueueInv'
  OBVIOUS
<1> QED
  BY <1>2, <1>3, <1>4, <1>5, <1>6, <1>7, <1>8, <1>9, <1>10, <1>11, QueueStepShape
  DEF WorkerStep, Fault

(* Everything above a task that got ready has finished.                    *)
LEMMA AboveReady ==
  ASSUME ServerTypes, QueueInv, NEW t \in Tasks,
         server[t] \in {"ready", "running", "finished", "failed"}
  PROVE  \A u \in Ancestors[t] : server[u] = "finished"
<1> DEFINE A == {u \in Tasks : server[u] = "finished"}
<1>1. Parents[t] \subseteq A /\ \A a \in A : Parents[a] \subseteq A
  BY ConstantsOK DEF QueueInv
<1>2. A \in SUBSET Tasks
  OBVIOUS
<1>3. Ancestors[t] \subseteq A
  <2> HIDE DEF A
  <2> QED  BY <1>1, <1>2, AncestorsLeast
<1> QED  BY <1>3

(* A task with a task above it that did not finish ends with that one.     *)
LEMMA EndsTogether ==
  ASSUME ServerTypes, QueueInv, NEW t \in Tasks, NEW u \in {t} \cup Ancestors[t],
         server[u] \in Blocking, NEW x \in Tasks, x = u \/ x \in Ancestors[u],
         NEW ending \in {"dependency", "canceled"},
         \A y \in Descendants(x) : server[y] = "waiting" => server'[y] = ending,
         \A y \in Tasks : server'[y] \in {server[y], "failed", ending},
         server'[u] \notin Blocking
  PROVE  server'[t] \notin Blocking \cup {"finished"}
<1> USE DEF Blocking
<1>1. ending \notin Blocking /\ ending # "finished"
  OBVIOUS
<1>2. CASE u = t
  BY <1>1, <1>2
<1>3. CASE u \in Ancestors[t]
  <2>1. x \in Ancestors[t]
    BY <1>3, AncestorsOfAncestors
  <2>2. t \in Descendants(x)
    BY <2>1 DEF Descendants
  <2>3. server[t] \notin {"ready", "running", "finished", "failed"}
    BY <1>3, AboveReady
  <2>4. CASE server[t] = "waiting"
    BY <1>1, <2>2, <2>4
  <2>5. CASE server[t] # "waiting"
    BY <1>1, <2>3, <2>5
  <2> QED  BY <2>4, <2>5
<1> QED  BY <1>2, <1>3

(* Hopeless is final, but for a step that starts a pilot job.              *)
LEMMA HopelessStays ==
  ASSUME ServerTypes, OutputInv, QueueInv, [Next]_vars, running' \subseteq running,
         NEW t \in Tasks, Hopeless(t)
  PROVE  Hopeless(t)' \/ server'[t] \notin Blocking \cup {"finished"}
<1>1. PICK u \in {t} \cup Ancestors[t] :
          server[u] \in Blocking /\ QueuesOf[u] \cap running = {}
  BY DEF Hopeless
<1>2. u \in Tasks
  BY AncestorsClosed
<1>3. runner[u] = Nobody
  BY <1>1, <1>2 DEF QueueInv
<1>4. CASE server'[u] \in Blocking
  <2>1. QueuesOf[u] \cap running' = {}
    BY <1>1
  <2> QED  BY <1>1, <1>4, <2>1 DEF Hopeless
<1>5. CASE server'[u] \notin Blocking
  <2>1. server'[u] # server[u]
    BY <1>1, <1>5
  <2>2. ASSUME NEW x \in Tasks, ClaimTask(x) PROVE FALSE
    BY <1>1, <1>2, <1>5, <2>2 DEF ClaimTask, ServerTypes, Blocking
  <2>3. ASSUME NEW x \in Tasks, FinishTask(x) PROVE FALSE
    BY <1>1, <1>2, <1>3, <1>5, <2>3 DEF FinishTask, Blocking
  <2>4. ASSUME NEW x \in Tasks, FailTask(x)
        PROVE  server'[t] \notin Blocking \cup {"finished"}
    <3>1. x # u /\ u \in Descendants(x)
      BY <1>1, <1>2, <1>3, <2>1, <2>4 DEF FailTask
    <3>2. x \in Ancestors[u]
      BY <3>1 DEF Descendants
    <3>3. /\ \A y \in Descendants(x) : server[y] = "waiting" => server'[y] = "dependency"
          /\ \A y \in Tasks : server'[y] \in {server[y], "failed", "dependency"}
      BY <2>4 DEF FailTask, Descendants
    <3> QED  BY <1>1, <1>5, <3>2, <3>3, EndsTogether
  <2>5. ASSUME NEW x \in Tasks, CancelTask(x)
        PROVE  server'[t] \notin Blocking \cup {"finished"}
    <3>1. x = u \/ u \in Descendants(x)
      BY <1>2, <2>1, <2>5 DEF CancelTask
    <3>2. x = u \/ x \in Ancestors[u]
      BY <3>1 DEF Descendants
    <3>3. /\ \A y \in Descendants(x) : server[y] = "waiting" => server'[y] = "canceled"
          /\ \A y \in Tasks : server'[y] \in {server[y], "failed", "canceled"}
      BY <2>5 DEF CancelTask, Descendants
    <3> QED  BY <1>1, <1>5, <3>2, <3>3, EndsTogether
  <2>6. CASE RestartServer
    BY <2>6 DEF RestartServer, Blocking
  <2>7. ASSUME NEW x \in Tasks, LoseTask(x) PROVE FALSE
    BY <2>1, <2>7 DEF LoseTask
  <2>8. ASSUME NEW q \in Queues, EndJobs(q) \/ ScaleUp(q) PROVE FALSE
    BY <2>1, <2>8 DEF EndJobs, ScaleUp
  <2>9. ASSUME NEW x \in Tasks, Submit(x) PROVE FALSE
    <3>1. server[x] = "undefined"
      BY <2>9 DEF Submit, OutputInv
    <3>2. x # u
      BY <1>1, <3>1 DEF Blocking
    <3> QED  BY <1>2, <2>1, <2>9, <3>2 DEF Submit, ServerTypes
  <2>10. ~(UNCHANGED <<server, runner, running>>)
    BY <2>1
  <2> QED
    BY <2>2, <2>3, <2>4, <2>5, <2>6, <2>7, <2>8, <2>9, <2>10, QueueStepShape
    DEF WorkerStep, Fault
<1> QED  BY <1>4, <1>5

LEMMA DropsHopeless ==
  ASSUME ListsInv, Next, running \subseteq tracked,
         NEW t \in stranded' \ stranded,
         \A u \in {t} \cup (Ancestors[t] \cap unfinished) : server[u] \in Blocking
  PROVE  Hopeless(t)
<1>1. CheckStranded
  <2> USE DEF dropVars, loopVars, countVars
  <2>1. Elsewhere => UNCHANGED stranded
    BY DEF Elsewhere
  <2>2. ASSUME NEW list \in Lists, NEW policy \in Policies, NEW lazy \in BOOLEAN,
               BeginCall(list, policy, lazy)
        PROVE  stranded' = {}
    BY <2>2 DEF BeginCall
  <2>3. ASSUME NEW u \in Tasks,
            \/ TakeFinished(u) \/ TakeFailed(u) \/ MissOutput(u) \/ TakeDead(u)
            \/ TakePending(u)
        PROVE  UNCHANGED stranded
    BY <2>3, NextOfRound
  <2>4. ASSUME \/ CheckStarved \/ YieldCached \/ StartLoop \/ Poll \/ EndRound
               \/ CheckAncestors \/ SqueueFails \/ Finish \/ Break \/ Abandon
        PROVE  UNCHANGED stranded
    BY <2>4 DEF CheckStarved, YieldCached, StartLoop, Poll, EndRound, CheckAncestors,
           SqueueFails, Finish, Break, Abandon
  <2>5. stranded' # stranded /\ stranded' # {}
    OBVIOUS
  <2>6. CASE WorkerStep \/ Fault \/ Break \/ Abandon
    BY <2>1, <2>4, <2>5, <2>6, ElsewhereShape
  <2>7. CASE DriverCall
    BY <2>1, <2>2, <2>5, <2>7, ElsewhereShape DEF DriverCall
  <2>8. CASE LoopStep
    BY <2>1, <2>3, <2>4, <2>5, <2>8, ElsewhereShape DEF LoopStep
  <2> QED  BY <2>6, <2>7, <2>8 DEF Next
<1>2. /\ t \in Unserved(unfinished, LiveQueues) /\ t \in Tasks
  BY <1>1, UnservedPending DEF CheckStranded, ListsInv
<1>3. PICK qs \in Needed(unfinished)[t] : qs \cap LiveQueues = {}
  BY <1>2 DEF Unserved
<1> DEFINE above == Above([u \in Tasks |-> Parents[u] \cap unfinished])
<1>4. Needed(unfinished)[t] = {QueuesOf[u] : u \in {t} \cup above[t]}
  BY <1>2 DEF Needed
<1>5. above[t] \subseteq Ancestors[t] \cap unfinished
  BY <1>2, AboveOpen
<1> HIDE DEF above
<1>6. PICK u \in {t} \cup above[t] : qs = QueuesOf[u]
  BY <1>3, <1>4
<1>7. /\ u \in {t} \cup Ancestors[t] /\ server[u] \in Blocking
      /\ QueuesOf[u] \cap running = {}
  BY <1>3, <1>5, <1>6 DEF LiveQueues
<1> QED  BY <1>7 DEF Hopeless

(* The periodic check drops no task that could still finish.  It looks at  *)
(* the queues of the tasks its request found unfinished, and of no others: *)
(* if none of those ended since, and no job is left that the driver        *)
(* forgot, what it drops is hopeless.  And hopeless is final: whatever the *)
(* workers, other users and the server do, no step that starts no pilot    *)
(* job makes such a task ready to run to its end.                          *)
THEOREM StrandedNeverFinish == Spec => StrandedNeverFinishes
<1> DEFINE Inv == ListsInv /\ ServerTypes /\ OutputInv /\ QueueInv
<1>1. Init => Inv
  <2>1. Init => OutputInv /\ QueueInv
    BY DEF Init, OutputInv, OutputsTell, QueueInv, State
  <2> QED  BY <2>1, TypesInit
<1>2. Inv /\ [Next]_vars => Inv'
  BY ListsStep, ServerTypesStep, OutputStep, QueueInvStep
<1>3. Inv /\ [Next]_vars =>
        [ /\ running \subseteq tracked =>
               \A t \in stranded' \ stranded :
                  (\A u \in {t} \cup (Ancestors[t] \cap unfinished) : server[u] \in Blocking)
                     => Hopeless(t)
          /\ running' \subseteq running =>
               \A t \in Tasks : Hopeless(t) =>
                  Hopeless(t)' \/ server'[t] \notin Blocking \cup {"finished"} ]_vars
  BY DropsHopeless, HopelessStays
<1> HIDE DEF Inv
<1> QED  BY <1>1, <1>2, <1>3, PTL DEF Spec, StrandedNeverFinishes

-----------------------------------------------------------------------------
(* What the caller was promised.                                           *)

(* The promise counts with the operators of this module.                   *)
LEMMA SameOperators ==
  ASSUME NEW s, NEW S
  PROVE  Promise!Only(s, S) = Only(s, S) /\ Promise!Range(s) = Range(s)
  BY DEF Promise!Only, Only, Promise!Range, Range

(* What the call did so far stays, but for tasks it gives up on now.       *)
DropsNow(dropped) ==
    /\ UNCHANGED <<call, yielded>>
    /\ GivenUp' = GivenUp \cup dropped
    /\ dropped \subseteq Range(call.tasks) \ yielded

(* The final count goes out; or a request failed, maybe the one of a count. *)
Shows == done' = done /\ sent' = done
Loses == done' \in {done, done + 1} /\ sent' \in {sent, done'}

Going == phase # "idle" /\ outcome = "none"
Met(n) == failures' = failures + n /\ n \in Nat /\ failures \in Nat

(* Nothing the caller sees.                                                *)
LEMMA PromiseStutters ==
  ASSUME UNCHANGED <<call, yielded, GivenUp, done, sent, failures, outcome>>,
         phase = "idle" <=> phase' = "idle"
  PROVE  UNCHANGED Promise!vars
  BY DEF Promise!vars, Promise!asked, Status

LEMMA PromiseBegins ==
  ASSUME NEW list \in Lists, NEW policy \in Policies, NEW lazy \in BOOLEAN,
         BeginCall(list, policy, lazy), outcome # "open"
  PROVE  Promise!Begin
<1>1. /\ call'.tasks = list /\ call'.policy \in Policies \cup {First}
      /\ phase = "idle" /\ phase' = "start" /\ yielded' = {} /\ GivenUp' = {}
      /\ done' = 0 /\ sent' = 0 /\ failures' = 0
  BY DEF BeginCall, GivenUp
<1>2. Status # "open" /\ Status' = "open" /\ (failures' > 0) = FALSE
  BY <1>1 DEF Status
<1> QED  BY <1>1, <1>2 DEF Promise!Begin

LEMMA PromiseGives ==
  ASSUME Going, phase' # "idle", ListsInv', CountedInv', done' \in Nat,
         UNCHANGED <<call, GivenUp>>,
         NEW t \in Range(call.tasks) \ GivenUp, yielded' = yielded \cup {t},
         done' = done + 1,
         sent' \in {sent, done'}, done' = Len(call.tasks) => sent' = done',
         NEW n, Met(n), n > 0 => call.policy # First
  PROVE  Promise!Give
<1>1. Status = "open" /\ Status' = "open"
  BY DEF Status, Going
<1>2. done' <= Times(call'.tasks, yielded')
  <2>1. done' + Left(yielded)' = Times(call'.tasks, yielded')
    BY DEF CountedInv
  <2>2. \A s \in {todo', pending', kept'} : Times(s, yielded') \in Nat
    BY PlacesFinite DEF ListsInv
  <2>3. Left(yielded)' \in Nat
    BY <2>2 DEF Left, Waiting
  <2>4. Times(call'.tasks, yielded') \in Nat
    BY PlacesFinite DEF ListsInv
  <2> QED  BY <2>1, <2>3, <2>4
<1>3. Promise!Only(call.tasks, yielded') = Only(call.tasks, yielded')
  BY SameOperators
<1>4. Len(Only(call.tasks, yielded')) = Times(call.tasks, yielded')
  BY OnlyLen DEF ListsInv
<1>5. t \in Promise!Range(call.tasks) \ GivenUp
  BY SameOperators
<1>6. \/ (failures' > 0) = (failures > 0)
      \/ call.policy # First /\ (failures' > 0) = TRUE
  <2>1. CASE n = 0  BY <2>1 DEF Met
  <2>2. CASE n > 0  BY <2>2 DEF Met
  <2> QED  BY <2>1, <2>2 DEF Met
<1> QED
  BY <1>1, <1>2, <1>3, <1>4, <1>5, <1>6 DEF Promise!Give, Promise!Open, Promise!asked

(* The call gives up on some tasks, and goes on.                           *)
LEMMA PromiseGivesUp ==
  ASSUME Going, phase' # "idle", NEW dropped, DropsNow(dropped), UNCHANGED <<done, sent>>,
         NEW n, Met(n), n > 0, call.policy # First
  PROVE  Promise!GiveUp
<1>1. Status = "open" /\ Status' = "open"
  BY DEF Status, Going
<1>2. Promise!Drop
  BY SameOperators DEF DropsNow, Promise!Drop
<1>3. (failures' > 0) = TRUE
  BY DEF Met
<1> QED
  BY <1>1, <1>2, <1>3 DEF Promise!GiveUp, Promise!Open, Promise!asked, DropsNow

(* The call raises for the first failure.                                  *)
LEMMA PromiseRaises ==
  ASSUME Going, phase' = "idle", NEW dropped, DropsNow(dropped), Shows,
         NEW n, Met(n), n > 0, failures = 0, call.policy = First, outcome' = "raised"
  PROVE  Promise!RaiseFirst
<1>1. Status = "open" /\ Status' = "raised"
  BY DEF Status, Going
<1>2. Promise!Drop
  BY SameOperators DEF DropsNow, Promise!Drop
<1>3. (failures' > 0) = TRUE /\ ~(failures > 0)
  BY DEF Met
<1> QED
  BY <1>1, <1>2, <1>3 DEF Promise!RaiseFirst, Promise!Open, Promise!asked, DropsNow, Shows

(* A request fails.                                                        *)
LEMMA PromiseBreaks ==
  ASSUME Going, phase' = "idle", NEW dropped, DropsNow(dropped), Loses,
         NEW n, Met(n), outcome' = "broken"
  PROVE  Promise!Break
<1>1. Status = "open" /\ Status' = "broken"
  BY DEF Status, Going
<1>2. Promise!Drop
  BY SameOperators DEF DropsNow, Promise!Drop
<1>3. (failures' > 0) = (failures > 0) \/ (failures' > 0) = TRUE
  BY DEF Met
<1> QED
  BY <1>1, <1>2, <1>3 DEF Promise!Break, Promise!Open, Promise!asked, DropsNow, Loses

(* The caller leaves.                                                      *)
LEMMA PromiseLeaves ==
  ASSUME Going, phase' = "idle", DropsNow({}), Shows, UNCHANGED failures,
         outcome' = "abandoned"
  PROVE  Promise!Leave
<1>1. Status = "open" /\ Status' = "abandoned"
  BY DEF Status, Going
<1> QED
  BY <1>1 DEF Promise!Leave, Promise!Open, Promise!asked, DropsNow, Shows

(* The call ends with all its tasks accounted for.                         *)
LEMMA PromiseEnds ==
  ASSUME Going, phase' = "idle", DropsNow({}), Shows, UNCHANGED failures, failures \in Nat,
         ListsInv', EndInv', PolicyIsKept',
         \/ outcome' = "returned"
         \/ outcome' = "raised" /\ call.policy = After
  PROVE  Promise!Return \/ Promise!RaiseAfter
<1>1. Status = "open" /\ Status' = outcome'
  BY DEF Status, Going
<1>2. /\ yielded' \cup GivenUp' = Range(call'.tasks)
      /\ done' = Times(call'.tasks, yielded')
  BY DEF EndInv, InGoodOrder, DropsNow
<1>3. Len(Only(call'.tasks, yielded')) = Times(call'.tasks, yielded')
  BY OnlyLen DEF ListsInv
<1>4. Promise!Complete
  BY <1>1, <1>2, <1>3, SameOperators
  DEF Promise!Complete, Promise!Open, Promise!asked, DropsNow, Shows
<1>5. CASE outcome' = "returned"
  <2>1. failures > 0 => call.policy = Never
    BY <1>5 DEF PolicyIsKept, DropsNow
  <2> QED  BY <1>1, <1>4, <1>5, <2>1 DEF Promise!Return
<1>6. CASE outcome' = "raised" /\ call.policy = After
  <2>1. failures > 0
    BY <1>6 DEF PolicyIsKept, DropsNow
  <2> QED  BY <1>1, <1>4, <1>6, <2>1 DEF Promise!RaiseAfter
<1> QED  BY <1>5, <1>6

Promised == Promise!Next \/ UNCHANGED Promise!vars

(* Leaving with an exception, or without one because a request failed.     *)
LEMMA RaisePromised ==
  ASSUME Going, Leave("raised"), NEW dropped, GivenUp' = GivenUp \cup dropped,
         dropped \subseteq Range(call.tasks) \ yielded, UNCHANGED call,
         NEW n, Met(n), n > 0, failures = 0, call.policy = First
  PROVE  Promised
<1>1. /\ phase' = "idle" /\ DropsNow(dropped)
      /\ \/ outcome' = "raised" /\ Shows
         \/ outcome' = "broken" /\ Loses
  BY DEF Leave, LeaveWith, Goto, DropsNow, Shows, Loses
<1> QED  BY <1>1, PromiseRaises, PromiseBreaks DEF Promised, Promise!Next

LEMMA DropPromised ==
  ASSUME CallInv, NEW unserved, unserved \subseteq Range(pending),
         NEW p, NEW q, p # "idle", q # "idle", Drop(unserved, p, q),
         phase \in {"start", "squeue"}, UNCHANGED call,
         GivenUp' = GivenUp \cup unserved
  PROVE  Promised
<1>1. /\ pending \in Seq(Tasks) /\ unserved \in SUBSET Tasks
      /\ unserved \subseteq Range(call.tasks) \ yielded
  BY RangeSeq DEF CallInv, ListsInv, ApartInv, Waiting
<1>2. /\ Met(Times(pending, unserved))
      /\ Times(pending, unserved) > 0 <=> unserved # {}
  BY <1>1, DropsTasks, TimesRange DEF CallInv, CallTypes, Met
<1>3. Going
  BY DEF CallInv, EndInv, Going
<1>4. CASE unserved # {} /\ call.policy = First /\ Leave("raised")
  <2>1. failures = 0
    BY <1>3, <1>4 DEF CallInv, FailuresInv, Going
  <2> QED  BY <1>1, <1>2, <1>3, <1>4, <2>1, RaisePromised
<1>5. CASE DropsFrom(unserved, p, q) /\ (unserved # {} => call.policy # First)
  <2>1. /\ phase' # "idle" /\ outcome' = outcome /\ DropsNow(unserved)
        /\ UNCHANGED <<done, sent>>
    BY <1>1, <1>5 DEF DropsFrom, countVars, DropsNow
  <2>2. CASE unserved = {}
    <3>1. UNCHANGED <<call, yielded, GivenUp, done, sent, failures, outcome>>
      BY <1>2, <2>1, <2>2 DEF Met, DropsNow
    <3> QED  BY <1>3, <2>1, <3>1, PromiseStutters DEF Going, Promised
  <2>3. CASE unserved # {}
    BY <1>2, <1>3, <1>5, <2>1, <2>3, PromiseGivesUp DEF Promised, Promise!Next
  <2> QED  BY <2>2, <2>3
<1> QED  BY <1>1, <1>4, <1>5, DropsTasks

(* A task that goes to the caller, after a failure or without one.         *)
LEMMA DeliverPromised ==
  ASSUME CallInv, CallInv', Going, NEW t \in Range(call.tasks) \ GivenUp,
         NEW p, p # "idle", Deliver(t, p), UNCHANGED <<call, GivenUp>>,
         NEW n, Met(n), n > 0 => call.policy # First
  PROVE  Promised
<1>1. CASE Yield(t, p)
  <2>1. /\ phase' # "idle" /\ yielded' = yielded \cup {t} /\ done' = done + 1
        /\ sent' \in {sent, done'}
    BY <1>1 DEF Yield
  <2>2. ListsInv' /\ CountedInv' /\ done' \in Nat
    BY DEF CallInv, CallTypes
  <2>3. done' = Len(call.tasks) => sent' = done'
    <3>1. Len(call.tasks) \in Nat /\ ~(Len(call.tasks) < Len(call.tasks))
      BY DEF CallInv, ListsInv
    <3> QED  BY <1>1, <2>1, <3>1 DEF Yield
  <2> QED  BY <2>1, <2>2, <2>3, PromiseGives DEF Promised, Promise!Next
<1>2. CASE CountFails
  <2>1. phase' = "idle" /\ outcome' = "broken" /\ DropsNow({}) /\ Loses
    BY <1>2 DEF CountFails, LeaveWith, Goto, DropsNow, Loses
  <2> QED  BY <2>1, PromiseBreaks DEF Promised, Promise!Next
<1> QED  BY <1>1, <1>2 DEF Deliver

(* A step of a round.                                                      *)
LEMMA RoundPromised ==
  ASSUME CallInv, CallInv', NEW t \in Tasks,
         \/ TakeFinished(t) \/ TakeFailed(t) \/ MissOutput(t) \/ TakeDead(t) \/ TakePending(t)
  PROVE  Promised
<1>1. /\ phase = "round" /\ todo # <<>> /\ t = Head(todo) /\ t \in Range(todo)
      /\ UNCHANGED <<call, starved, stranded>>
  BY NextOfRound DEF CallInv
<1>2. Going /\ failures \in Nat /\ (call.policy = First => failures = 0)
  BY <1>1 DEF CallInv, EndInv, Going, CallTypes, FailuresInv
<1>3. t \in Range(call.tasks)
  BY <1>1 DEF CallInv, ListsInv
<1>4. states[t] \in {"finished"} \cup Failed => t \notin GivenUp
  BY <1>1 DEF CallInv, ApartInv, Failed
<1>5. states[t] \in {"canceled", "undefined"} => t \notin yielded
  BY <1>1 DEF CallInv, ApartInv, Failed
<1>6. CASE TakeFinished(t)
  <2>1. /\ Deliver(t, "round") /\ t \notin GivenUp /\ GivenUp' = GivenUp /\ Met(0)
    BY <1>1, <1>2, <1>4, <1>6 DEF TakeFinished, Reach, GivenUp, Met
  <2>2. ~(0 > 0)
    OBVIOUS
  <2> QED  BY <1>1, <1>2, <1>3, <2>1, <2>2, DeliverPromised
<1>7. CASE TakeFailed(t)
  <2>1. /\ t \notin GivenUp /\ GivenUp' = GivenUp /\ Met(1)
        /\ \/ call.policy = First /\ Leave("raised")
           \/ call.policy # First /\ Deliver(t, "round")
    BY <1>1, <1>2, <1>4, <1>7 DEF TakeFailed, Reach, GivenUp, Met, RaisesNow
  <2>2. CASE call.policy = First /\ Leave("raised")
    <3>1. /\ GivenUp' = GivenUp \cup {} /\ {} \subseteq Range(call.tasks) \ yielded
          /\ failures = 0 /\ 1 > 0
      BY <1>2, <2>1, <2>2
    <3> QED  BY <1>1, <1>2, <2>1, <2>2, <3>1, RaisePromised
  <2>3. CASE call.policy # First /\ Deliver(t, "round")
    BY <1>1, <1>2, <1>3, <2>1, <2>3, DeliverPromised
  <2> QED  BY <2>1, <2>2, <2>3
<1>8. CASE MissOutput(t)
  <2>1. phase' = "idle" /\ outcome' = "broken" /\ DropsNow({}) /\ Loses /\ Met(0)
    BY <1>1, <1>2, <1>8
    DEF MissOutput, Leave, LeaveWith, Goto, DropsNow, Loses, Met, GivenUp
  <2> QED  BY <1>2, <2>1, PromiseBreaks DEF Promised, Promise!Next
<1>9. CASE TakeDead(t)
  <2>1. /\ GivenUp' = GivenUp \cup {t} /\ {t} \subseteq Range(call.tasks) \ yielded
        /\ Met(1)
        /\ \/ call.policy = First /\ Leave("raised")
           \/ /\ call.policy # First /\ phase' = "round"
              /\ UNCHANGED <<countVars, outcome>>
    BY <1>1, <1>2, <1>3, <1>5, <1>9 DEF TakeDead, Reach, GivenUp, Met, RaisesNow, Goto
  <2>2. CASE call.policy = First /\ Leave("raised")
    <3>1. failures = 0 /\ 1 > 0
      BY <1>2, <2>2
    <3> QED  BY <1>1, <1>2, <2>1, <2>2, <3>1, RaisePromised
  <2>3. CASE /\ call.policy # First /\ phase' = "round"
             /\ UNCHANGED <<countVars, outcome>>
    <3>1. DropsNow({t}) /\ UNCHANGED <<done, sent>>
      BY <1>1, <2>1, <2>3 DEF DropsNow, countVars
    <3> QED  BY <1>2, <2>1, <2>3, <3>1, PromiseGivesUp DEF Promised, Promise!Next
  <2> QED  BY <2>1, <2>2, <2>3
<1>10. CASE TakePending(t)
  <2>1. /\ UNCHANGED <<call, yielded, GivenUp, done, sent, failures, outcome>>
        /\ phase' = "round"
    BY <1>1, <1>10 DEF TakePending, Goto, GivenUp, countVars
  <2> QED  BY <1>1, <2>1, PromiseStutters DEF Promised
<1> QED  BY <1>6, <1>7, <1>8, <1>9, <1>10

(* Every step is a step of the promise, or none that the caller sees.      *)
LEMMA StepPromised ==
  ASSUME CallInv, CallInv', [Next]_vars
  PROVE  Promised
<1> USE DEF dropVars, loopVars, countVars
<1>1. ListsInv /\ CallTypes /\ FailuresInv /\ EndInv /\ ApartInv /\ HeldInCall
  BY DEF CallInv
<1>2. phase # "idle" => Going
  BY <1>1 DEF EndInv, Going
<1>3. CASE Elsewhere
  <2>1. /\ UNCHANGED <<call, yielded, GivenUp, done, sent, failures, outcome>>
        /\ phase' = phase
    BY <1>3 DEF Elsewhere, GivenUp
  <2> QED  BY <2>1, PromiseStutters DEF Promised
<1>4. ASSUME NEW list \in Lists, NEW policy \in Policies, NEW lazy \in BOOLEAN,
             BeginCall(list, policy, lazy)
      PROVE  Promised
  <2>1. outcome # "open"
    BY <1>1 DEF CallTypes
  <2> QED  BY <1>4, <2>1, PromiseBegins DEF Promised, Promise!Next
<1>5. CASE CheckStarved
  <2>1. /\ phase = "start" /\ Drop(starved', "cached", "cached") /\ UNCHANGED call
        /\ GivenUp' = GivenUp \cup starved'
    BY <1>1, <1>5 DEF CheckStarved, At, GivenUp, ListsInv
  <2>2. starved' \subseteq Range(pending)
    BY <1>1, <1>5, UnservedPending DEF CheckStarved, ListsInv
  <2> QED  BY <2>1, <2>2, DropPromised
<1>6. CASE CheckStranded
  <2>1. PICK unserved : /\ unserved \subseteq Range(pending)
                        /\ stranded' = stranded \cup unserved
                        /\ Drop(unserved, "end", "poll")
    BY <1>1, <1>6, UnservedPending DEF CheckStranded, ListsInv
  <2>2. /\ phase = "squeue" /\ UNCHANGED call
        /\ GivenUp' = GivenUp \cup unserved
    BY <1>6, <2>1 DEF CheckStranded, At, GivenUp
  <2> QED  BY <2>1, <2>2, DropPromised
<1>7. CASE YieldCached
  <2>1. /\ phase = "cached" /\ todo # <<>> /\ Deliver(Head(todo), "cached")
        /\ UNCHANGED <<call, GivenUp, failures>>
    BY <1>7 DEF YieldCached, At, GivenUp
  <2>2. PICK t : t = Head(todo)
    OBVIOUS
  <2>3. t \in Range(call.tasks) \ GivenUp
    <3>1. t \in Range(todo)
      BY <1>1, <2>1, <2>2, HeadAndTail DEF ListsInv
    <3> QED  BY <1>1, <2>1, <3>1 DEF ListsInv, ApartInv
  <2>4. Met(0) /\ ~(0 > 0) /\ Going /\ Deliver(t, "cached")
    BY <1>1, <1>2, <2>1, <2>2 DEF Met, CallTypes
  <2> QED  BY <2>1, <2>3, <2>4, DeliverPromised
<1>8. CASE StartLoop \/ Poll \/ EndRound \/ CheckAncestors \/ SqueueFails
  <2>1. /\ UNCHANGED <<call, yielded, GivenUp, done, sent, failures, outcome>>
        /\ phase # "idle" /\ phase' # "idle"
    BY <1>8 DEF StartLoop, Poll, EndRound, CheckAncestors, SqueueFails, At, Goto, Loop, GivenUp
  <2> QED  BY <2>1, PromiseStutters DEF Promised
<1>9. CASE Finish \/ Break \/ Abandon
  <2>1. /\ phase # "idle" /\ phase' = "idle" /\ UNCHANGED <<call, failures>>
        /\ GivenUp' = GivenUp /\ UNCHANGED yielded
        /\ outcome' \in {"returned", "raised", "broken", "abandoned"}
        /\ outcome' = "raised" => call.policy = After
        /\ \/ outcome' # "broken" /\ Shows
           \/ outcome' = "broken" /\ Loses
    BY <1>1, <1>9
    DEF Finish, Break, Abandon, Leave, LeaveWith, At, Goto, GivenUp, HeldInCall, Shows, Loses
  <2>2. Going /\ DropsNow({}) /\ Met(0) /\ failures \in Nat
    BY <1>1, <1>2, <2>1 DEF DropsNow, Met, CallTypes
  <2>3. CASE outcome' = "broken"
    BY <2>1, <2>2, <2>3, PromiseBreaks DEF Promised, Promise!Next
  <2>4. CASE outcome' = "abandoned"
    BY <2>1, <2>2, <2>4, PromiseLeaves DEF Promised, Promise!Next
  <2>5. CASE outcome' = "returned" \/ (outcome' = "raised" /\ call.policy = After)
    <3>1. ListsInv' /\ EndInv' /\ PolicyIsKept'
      BY DEF CallInv
    <3>2. Shows
      BY <2>1, <2>5
    <3> QED  BY <2>1, <2>2, <2>5, <3>1, <3>2, PromiseEnds DEF Promised, Promise!Next
  <2> QED  BY <2>1, <2>3, <2>4, <2>5
<1>10. ASSUME NEW t \in Tasks,
          \/ TakeFinished(t) \/ TakeFailed(t) \/ MissOutput(t) \/ TakeDead(t) \/ TakePending(t)
       PROVE  Promised
  BY <1>10, RoundPromised
<1> QED
  BY <1>3, <1>4, <1>5, <1>6, <1>7, <1>8, <1>9, <1>10, ElsewhereShape
  DEF Next, DriverCall, LoopStep

(* A call keeps the promise of WaitPromise, through its polls, its rounds  *)
(* and both checks: it ends well only when each task of its list is        *)
(* accounted for, gives none up after it gave it or the other way round,   *)
(* and raises at the moment its policy says.                               *)
THEOREM PromiseAlwaysKept == Spec => PromiseKept
<1>1. Init => Promise!Init
  <2> SUFFICES ASSUME Init PROVE Promise!Init
    OBVIOUS
  <2>1. /\ call.tasks = <<>> /\ call.policy \in Policies /\ yielded = {} /\ GivenUp = {}
        /\ done = 0 /\ sent = 0 /\ failures = 0 /\ phase = "idle" /\ outcome = "none"
    BY DEF Init, GivenUp
  <2>2. Status = "idle" /\ (failures > 0) = FALSE
    BY <2>1 DEF Status
  <2> QED  BY <2>1, <2>2 DEF Promise!Init
<1>2. CallInv /\ CallInv' /\ [Next]_vars => [Promise!Next]_(Promise!vars)
  BY StepPromised DEF Promised
<1> QED
  BY <1>1, <1>2, CallInvariant, PTL DEF Spec, PromiseKept, Promise!Spec

=============================================================================
