--------------------------- MODULE CollectorProofs ---------------------------
(* Proofs about Collector, for every value of its constants. *)
EXTENDS Collector, TLAPS

-----------------------------------------------------------------------------
(* Types, without the bounds of TypeOK on what the server holds.           *)

Asked == Gathered \cup Later

PollType == [on : BOOLEAN, got : [Asked -> Answers], wait : Nat, row : Row]

Types ==
    /\ server \in [Keys -> Nat]
    /\ task \in TaskStates
    /\ count \in [Waits -> Nat]
    /\ cache \in [Identities -> Nat]
    /\ seen \in [Waits -> Nat]
    /\ poll \in PollType
    /\ began \in [Keys -> Nat]

(* The server's keys only grow, and no run writes a key that is not its    *)
(* own.  A task that has a name was submitted.                             *)
ServerInv ==
    /\ \A k \in Keys : began[k] <= server[k]
    /\ \A k \in Keys \ writes : server[k] = 0
    /\ \A k \in Keys \ {"display", "task_name"} : server[k] <= 1
    /\ server["display"] <= MaxWaits
    /\ task # "none" => "task_name" \in writes
    /\ server["task_name"] # 0 => task # "none"
    /\ \A k \in Identities : cache[k] <= server[k]

(* What the answers of the poll in flight say.                             *)
AnswersTrue ==
    /\ \A k \in Keys : poll.got[k] = "absent" => began[k] = 0
    /\ \A k \in Keys : poll.got[k] \in {"found", "known"} => server[k] # 0
    /\ \A k \in Identities : poll.got[k] = "known" => cache[k] # 0
    /\ poll.got["task_id"] = "absent" => began["task_name"] = 0

(* The order of its requests.                                              *)
AnswersOrdered ==
    /\ poll.got["task_id"] # "sent" => Answered(Gathered)
    /\ poll.got["status"] \in {"sent", "known"}
    /\ poll.got["holder"] \in {"sent", "known"}
    /\ poll.got["status"] = "known" => poll.got["task_id"] = "known"
    /\ poll.got["holder"] = "known" => poll.got["status"] = "known"

(* What it read of the task.                                               *)
RowTrue ==
    /\ poll.got["status"] = "known" /\ poll.row.state = "running" =>
          task \in {"running", "ended"}
    /\ poll.got["status"] = "sent" => poll.row.state = "none"
    /\ poll.got["holder"] = "known" =>
          /\ poll.row.worker = "id" => began["worker_info"] = 0
          /\ poll.row.worker = "" => task = "ended"

SnapshotInv ==
    /\ Types
    /\ ServerInv
    /\ poll.on => AnswersTrue /\ AnswersOrdered /\ RowTrue

LEMMA KeySets ==
  /\ Identities \subseteq Keys /\ Exits \subseteq Keys
  /\ Gathered \subseteq Keys /\ Gathered \subseteq Asked /\ Keys \subseteq Asked
  /\ {"task_id", "status", "holder"} \cap Keys = {}
  /\ {"task_name", "task_id", "status", "holder"} \subseteq Asked
  /\ {"job_info", "job_start", "worker_info", "task_name"} \subseteq Identities
  /\ {"job_exit", "worker_exit", "job_series", "display"} \subseteq Keys \ Identities
  /\ {"job_info", "job_start", "worker_info", "job_exit", "worker_exit",
      "job_series", "display"} \subseteq Gathered
  /\ "task_name" \notin Gathered
  BY DEF Identities, Exits, Keys, Gathered, Later, Asked

LEMMA NoPollType ==
  /\ NoPoll \in PollType /\ ~NoPoll.on
  /\ NoPoll.row.state = "none" /\ \A k \in Asked : NoPoll.got[k] = "sent"
<1>1. [k \in Asked |-> "sent"] \in [Asked -> Answers]
  BY DEF Answers
<1>2. [state |-> "none", worker |-> ""] \in Row
  BY DEF Row, TaskStates
<1> QED  BY <1>1, <1>2 DEF NoPoll, PollType, Asked

LEMMA SnapshotInit == Init => SnapshotInv
<1> SUFFICES ASSUME Init PROVE SnapshotInv
  OBVIOUS
<1>1. Types
  BY NoPollType DEF Init, Types, TaskStates
<1>2. ServerInv
  BY CollectorOK, KeySets DEF Init, ServerInv
<1> QED  BY <1>1, <1>2, NoPollType DEF Init, SnapshotInv

-----------------------------------------------------------------------------
(* The run goes on.                                                        *)

(* The steps of the run leave the collector alone, write no key back, and  *)
(* never take back a submitted task, or an ended one.                      *)
LEMMA RunShape ==
  ASSUME SnapshotInv, RunStep
  PROVE  /\ UNCHANGED <<writes, cache, seen, poll, began, shown>>
         /\ server' \in [Keys -> Nat] /\ \A k \in Keys : server[k] <= server'[k]
         /\ \A k \in Keys \ writes : server'[k] = 0
         /\ \A k \in Keys \ {"display", "task_name"} : server'[k] <= 1
         /\ server'["display"] <= MaxWaits
         /\ task' \in TaskStates
         /\ task # "none" => task' # "none"
         /\ task' # "none" => "task_name" \in writes
         /\ server'["task_name"] # 0 => task' # "none"
         /\ task = "ended" => task' = "ended"
         /\ task = "running" => task' \in {"running", "ended"}
         /\ count' \in [Waits -> Nat] /\ \A i \in Waits : count[i] <= count'[i]
<1>1. Types /\ ServerInv /\ MaxWaits \in Nat
  BY CollectorOK DEF SnapshotInv
<1> USE <1>1, KeySets DEF RunMoves, Types, ServerInv
<1>2. CASE SetTaskName
  <2>1. /\ server["task_name"] \in Nat
        /\ server' = [server EXCEPT !["task_name"] = server["task_name"] + 1]
        /\ UNCHANGED <<task, count, recent>> /\ RunMoves /\ task # "none"
    BY <1>2 DEF SetTaskName
  <2> QED  BY <2>1
<1>3. CASE TaskMoves
  BY <1>3 DEF TaskMoves, TaskStates
<1>4. CASE PublishDisplay
  <2>1. /\ server["display"] \in Nat /\ server["display"] + 1 <= MaxWaits
        /\ server' = [server EXCEPT !["display"] = server["display"] + 1]
        /\ UNCHANGED <<task, count, recent>> /\ RunMoves /\ "display" \in writes
    BY <1>4 DEF PublishDisplay
  <2> QED  BY <2>1
<1>5. CASE AppendProgress
  <2> DEFINE i == server["display"]
  <2>1. i \in Waits
    <3>1. i \in Nat /\ i <= MaxWaits  OBVIOUS
    <3>2. i # 0  BY <1>5 DEF AppendProgress
    <3> QED  BY ONLY <3>1, <3>2, <1>1 DEF Waits
  <2>2. PICK n \in {count[i], count[i] + 1} : count' = [count EXCEPT ![i] = n]
    BY <1>5 DEF AppendProgress
  <2>3. n \in Nat /\ count[i] <= n  BY <2>1, <2>2
  <2>4. UNCHANGED <<server, task>> /\ RunMoves  BY <1>5 DEF AppendProgress
  <2> QED  BY <2>1, <2>2, <2>3, <2>4
<1>6. ASSUME NEW k \in Keys, Publish(k)
      PROVE  /\ server' = [server EXCEPT ![k] = 1] /\ server[k] = 0
             /\ k \in writes /\ k # "display" /\ k # "task_name"
             /\ UNCHANGED <<task, count, recent>> /\ RunMoves
  BY <1>6 DEF Publish
<1>7. ASSUME NEW i \in Waits, Age(i)
      PROVE  UNCHANGED <<server, task, count>> /\ RunMoves
  BY <1>7 DEF Age
<1> QED  BY <1>2, <1>3, <1>4, <1>5, <1>6, <1>7 DEF RunStep

LEMMA RunKeepsSnapshot == SnapshotInv /\ RunStep => SnapshotInv'
<1> SUFFICES ASSUME SnapshotInv, RunStep PROVE SnapshotInv'
  OBVIOUS
<1>1. Types'  BY RunShape DEF SnapshotInv, Types
<1>2. ServerInv'
  <2>1. \A k \in Keys : began[k] \in Nat /\ server[k] \in Nat /\ server'[k] \in Nat
    BY RunShape DEF SnapshotInv, Types
  <2>2. \A k \in Identities : cache[k] \in Nat
    BY DEF SnapshotInv, Types
  <2> QED  BY <2>1, <2>2, RunShape, KeySets DEF SnapshotInv, ServerInv
<1>3. ASSUME poll.on PROVE AnswersTrue' /\ AnswersOrdered' /\ RowTrue'
  <2>1. \A k \in Keys : server[k] # 0 => server'[k] # 0
    BY RunShape DEF SnapshotInv, Types
  <2> QED
    BY <1>3, <2>1, RunShape
       DEF SnapshotInv, AnswersTrue, AnswersOrdered, RowTrue, Answered
<1> QED  BY <1>1, <1>2, <1>3, RunShape DEF SnapshotInv

-----------------------------------------------------------------------------
(* The poll goes on.                                                       *)

(* A step of the poll in flight: one request of the kind k is answered by  *)
(* a.  Only the caches and the progress change beside it.                  *)
Replied(k, a) ==
    /\ poll.on /\ poll'.on /\ poll' \in PollType
    /\ poll'.got = [poll.got EXCEPT ![k] = a]
    /\ UNCHANGED <<writes, server, task, count, began, shown>>

LEMMA ReplyShape ==
  ASSUME Types, NEW k \in Asked, NEW a \in Answers, poll.on, Got(k, a), PollMoves
  PROVE  /\ Replied(k, a)
         /\ poll'.row = poll.row /\ poll'.wait = poll.wait
  BY DEF Types, Got, PollMoves, Replied, PollType

(* What a reply must keep to: a key that began is not absent, one that is  *)
(* found is there, one that is known is cached, and what comes after the   *)
(* first gather comes after it.                                            *)
LEMMA ReplyKeeps ==
  ASSUME SnapshotInv, NEW k \in Asked, NEW a \in Answers \ {"sent"}, Replied(k, a),
         poll.got[k] \in {"sent", "found"},
         cache' \in [Identities -> Nat], seen' \in [Waits -> Nat],
         \A l \in Identities : cache'[l] <= server[l] /\ (cache[l] # 0 => cache'[l] # 0),
         k \in Keys /\ a = "absent" => server[k] = 0,
         k \in Keys /\ a \in {"found", "known"} => server[k] # 0,
         k \in Identities /\ a = "known" => cache'[k] # 0,
         k = "task_id" => Answered(Gathered) /\ (a = "absent" => task = "none"),
         k \in {"status", "holder"} => a = "known",
         k = "status" => poll.got["task_id"] = "known",
         k = "holder" => poll.got["status"] = "known"
  PROVE  /\ Types' /\ ServerInv' /\ AnswersTrue' /\ AnswersOrdered'
         /\ poll'.on
<1>1. /\ Types /\ ServerInv /\ AnswersTrue /\ AnswersOrdered /\ RowTrue
      /\ poll.got \in [Asked -> Answers]
      /\ UNCHANGED <<writes, server, task, count, began, shown>>
      /\ poll'.got = [poll.got EXCEPT ![k] = a]
      /\ \A l \in Keys : began[l] \in Nat /\ server[l] \in Nat
  BY DEF SnapshotInv, Replied, Types, PollType
<1>2. poll'.got[k] = a /\ \A l \in Asked \ {k} : poll'.got[l] = poll.got[l]
  BY <1>1
<1>3. Types'  BY <1>1 DEF Types, Replied
<1>4. ServerInv'  BY <1>1 DEF ServerInv
<1>5. AnswersTrue'
  <2>1. ASSUME NEW l \in Keys
        PROVE  /\ poll'.got[l] = "absent" => began[l] = 0
               /\ poll'.got[l] \in {"found", "known"} => server[l] # 0
    <3>1. CASE l = k  BY <1>1, <1>2, <2>1, <3>1 DEF ServerInv
    <3>2. CASE l # k  BY <1>1, <1>2, <2>1, <3>2, KeySets DEF AnswersTrue
    <3> QED  BY <3>1, <3>2
  <2>2. ASSUME NEW l \in Identities, poll'.got[l] = "known" PROVE cache'[l] # 0
    <3>1. CASE l = k  BY <1>2, <2>2, <3>1
    <3>2. CASE l # k  BY <1>1, <1>2, <2>2, <3>2, KeySets DEF AnswersTrue
    <3> QED  BY <3>1, <3>2
  <2>3. poll'.got["task_id"] = "absent" => began["task_name"] = 0
    <3>1. CASE k = "task_id"
      <4>1. task = "none" => server["task_name"] = 0  BY <1>1 DEF ServerInv
      <4> QED  BY <1>1, <1>2, <3>1, <4>1, KeySets DEF ServerInv
    <3>2. CASE k # "task_id"  BY <1>1, <1>2, <3>2, KeySets DEF AnswersTrue
    <3> QED  BY <3>1, <3>2
  <2> QED  BY <1>1, <2>1, <2>2, <2>3 DEF AnswersTrue
<1>6. AnswersOrdered'
  <2>1. Answered(Gathered) => Answered(Gathered)'
    BY <1>2, KeySets DEF Answered
  <2>2. poll'.got["task_id"] # "sent" => Answered(Gathered)'
    <3>1. CASE k = "task_id"  BY <2>1, <3>1
    <3>2. CASE k # "task_id"  BY <1>1, <1>2, <2>1, <3>2, KeySets DEF AnswersOrdered
    <3> QED  BY <3>1, <3>2
  <2>3. poll'.got["status"] \in {"sent", "known"} /\ poll'.got["holder"] \in {"sent", "known"}
    BY <1>1, <1>2, KeySets DEF AnswersOrdered
  <2>4. poll.got["task_id"] = "known" => poll'.got["task_id"] = "known"
    BY <1>1, <1>2, KeySets
  <2>5. poll.got["status"] = "known" => poll'.got["status"] = "known"
    BY <1>1, <1>2, KeySets
  <2>6. poll'.got["status"] = "known" => poll'.got["task_id"] = "known"
    BY <1>1, <1>2, <2>4, KeySets DEF AnswersOrdered
  <2>7. poll'.got["holder"] = "known" => poll'.got["status"] = "known"
    BY <1>1, <1>2, <2>5, KeySets DEF AnswersOrdered
  <2> QED  BY <2>2, <2>3, <2>6, <2>7 DEF AnswersOrdered
<1> QED  BY <1>3, <1>4, <1>5, <1>6 DEF Replied

LEMMA SearchTrue ==
  ASSUME Types, NEW k \in Keys
  PROVE  /\ SearchAnswer(k) \in Answers \ {"sent"}
         /\ SearchAnswer(k) = "absent" <=> server[k] = 0
         /\ k \in Identities /\ SearchAnswer(k) = "known" => cache[k] # 0
  BY DEF SearchAnswer, Answers

(* What a reply leaves of the task.                                        *)
LEMMA RowKept ==
  ASSUME SnapshotInv, NEW k \in Asked \ {"status", "holder"}, NEW a, Replied(k, a),
         poll'.row = poll.row
  PROVE  RowTrue'
<1>1. poll.got \in [Asked -> Answers]  BY DEF SnapshotInv, Types, PollType
<1>2. poll'.got["status"] = poll.got["status"] /\ poll'.got["holder"] = poll.got["holder"]
  BY <1>1, KeySets DEF Replied
<1> QED  BY <1>2 DEF Replied, SnapshotInv, RowTrue

LEMMA PollKeepsSnapshot == SnapshotInv /\ PollStep => SnapshotInv'
<1> SUFFICES ASSUME SnapshotInv, PollStep PROVE SnapshotInv'
  OBVIOUS
<1>1. /\ Types /\ ServerInv /\ poll.got \in [Asked -> Answers]
      /\ poll.on => AnswersTrue /\ AnswersOrdered /\ RowTrue
  BY DEF SnapshotInv, Types, PollType
<1>2. cache \in [Identities -> Nat] /\ seen \in [Waits -> Nat]
      /\ \A l \in Identities : cache[l] <= server[l]
  BY <1>1 DEF Types, ServerInv
<1>3. CASE BeginPoll
  <2> DEFINE got == [k \in Asked |-> IF k \in Keys \ writes THEN "absent" ELSE "sent"]
  <2>1. /\ poll' = [NoPoll EXCEPT !.on = TRUE, !.got = got] /\ began' = server
        /\ UNCHANGED <<writes, server, task, count, recent, cache, seen, shown>>
    BY <1>3 DEF BeginPoll, NoPoll, Asked
  <2>2. got \in [Asked -> Answers]  BY DEF Answers
  <2>3. /\ poll' \in PollType /\ poll'.got = got /\ poll'.on
        /\ poll'.row = NoPoll.row /\ poll'.wait = NoPoll.wait
    BY <2>1, <2>2, NoPollType DEF PollType
  <2>4. Types' /\ ServerInv'
    <3>1. \A k \in Keys : server[k] \in Nat  BY <1>1 DEF Types
    <3> QED  BY <1>1, <2>1, <2>3, <3>1 DEF Types, ServerInv
  <2>5. /\ \A k \in Keys : got[k] = IF k \in writes THEN "sent" ELSE "absent"
        /\ \A k \in {"task_id", "status", "holder"} : got[k] = "sent"
    BY KeySets
  <2> HIDE DEF got
  <2>6. AnswersTrue'
    <3>1. \A k \in Keys \ writes : began'[k] = 0
      BY <1>1, <2>1 DEF ServerInv
    <3> QED  BY <2>3, <2>5, <3>1, KeySets DEF AnswersTrue
  <2>7. AnswersOrdered' /\ RowTrue'
    BY <2>3, <2>5, NoPollType DEF AnswersOrdered, RowTrue
  <2> QED  BY <2>4, <2>6, <2>7 DEF SnapshotInv
<1>4. ASSUME NEW k \in Keys, Search(k) \/ (SearchNames /\ k = "task_name")
      PROVE  SnapshotInv'
  <2>1. /\ poll.on /\ poll.got[k] = "sent"
        /\ Got(k, SearchAnswer(k)) /\ PollMoves /\ UNCHANGED <<cache, seen>>
    BY <1>4 DEF Search, SearchNames, Sent
  <2>2. k \in Asked /\ SearchAnswer(k) \in Answers \ {"sent"}
    BY <1>1, SearchTrue, KeySets
  <2>3. Replied(k, SearchAnswer(k)) /\ poll'.row = poll.row
    BY <1>1, <2>1, <2>2, ReplyShape
  <2>4. RowTrue'  BY <2>2, <2>3, KeySets, RowKept
  <2> QED
    BY <1>1, <1>2, <2>1, <2>2, <2>3, <2>4, SearchTrue, KeySets, ReplyKeeps DEF SnapshotInv
<1>5. ASSUME NEW k \in Identities, Read(k) PROVE SnapshotInv'
  <2>1. /\ poll.on /\ poll.got[k] = "found"
        /\ Got(k, "known") /\ PollMoves /\ UNCHANGED seen
        /\ cache' = [cache EXCEPT ![k] = server[k]]
    BY <1>5 DEF Read, MayRead
  <2>2. k \in Asked /\ k \in Keys /\ "known" \in Answers \ {"sent"}
    BY KeySets DEF Answers
  <2>3. Replied(k, "known") /\ poll'.row = poll.row
    BY <1>1, <2>1, <2>2, ReplyShape
  <2>4. RowTrue'  BY <2>2, <2>3, KeySets, RowKept
  <2>5. server[k] # 0 /\ server[k] \in Nat
    BY <1>1, <2>1, <2>2 DEF AnswersTrue, Types
  <2>6. /\ cache' \in [Identities -> Nat] /\ cache'[k] # 0
        /\ \A l \in Identities : cache'[l] <= server[l] /\ (cache[l] # 0 => cache'[l] # 0)
    BY <1>2, <2>1, <2>5
  <2> QED
    BY <1>2, <2>1, <2>2, <2>3, <2>4, <2>5, <2>6, KeySets, ReplyKeeps DEF SnapshotInv
<1>6. CASE ReadDisplay
  <2> DEFINE a == IF server["display"] = 0 THEN "absent" ELSE "found"
  <2>1. /\ poll.on /\ poll.got["display"] = "sent"
        /\ poll' = [poll EXCEPT !.wait = server["display"], !.got["display"] = a]
        /\ PollMoves /\ UNCHANGED <<cache, seen>>
    BY <1>6 DEF ReadDisplay, Sent
  <2>2. a \in Answers \ {"sent"} /\ server["display"] \in Nat
    BY <1>1, KeySets DEF Answers, Types
  <2>3. Replied("display", a) /\ poll'.row = poll.row
    BY <1>1, <2>1, <2>2, KeySets DEF Types, PollMoves, Replied, PollType
  <2>4. RowTrue'  BY <2>3, KeySets, RowKept
  <2> QED
    BY <1>2, <2>1, <2>2, <2>3, <2>4, KeySets, ReplyKeeps DEF SnapshotInv
<1>7. CASE ReadTail
  <2>1. /\ poll.on /\ poll.got["display"] = "found"
        /\ Got("display", "known") /\ PollMoves /\ UNCHANGED cache
    BY <1>7 DEF ReadTail
  <2>2. "known" \in Answers \ {"sent"}  BY DEF Answers
  <2>3. Replied("display", "known") /\ poll'.row = poll.row
    BY <1>1, <2>1, <2>2, ReplyShape, KeySets
  <2>4. RowTrue'  BY <2>3, KeySets, RowKept
  <2>5. seen' \in [Waits -> Nat]
    BY <1>1, <1>7 DEF ReadTail, Types
  <2>6. server["display"] # 0
    BY <1>1, <2>1, KeySets DEF AnswersTrue
  <2> QED
    BY <1>2, <2>1, <2>2, <2>3, <2>4, <2>5, <2>6, KeySets, ReplyKeeps DEF SnapshotInv
<1>8. CASE SearchTasks
  <2> DEFINE a == IF task = "none" THEN "absent" ELSE "known"
  <2>1. /\ poll.on /\ poll.got["task_id"] = "sent" /\ Answered(Gathered)
        /\ Got("task_id", a) /\ PollMoves /\ UNCHANGED <<cache, seen>>
    BY <1>8 DEF SearchTasks, Sent
  <2>2. a \in Answers \ {"sent"} /\ (a = "absent" => task = "none")  BY DEF Answers
  <2>3. Replied("task_id", a) /\ poll'.row = poll.row
    BY <1>1, <2>1, <2>2, ReplyShape, KeySets
  <2>4. RowTrue'  BY <2>3, KeySets, RowKept
  <2> QED
    BY <1>2, <2>1, <2>2, <2>3, <2>4, KeySets, ReplyKeeps DEF SnapshotInv
<1>9. CASE ReadStatus
  <2>1. /\ poll.on /\ poll.got["status"] = "sent" /\ poll.got["task_id"] = "known"
        /\ poll' = [poll EXCEPT !.got["status"] = "known", !.row.state = task]
        /\ PollMoves /\ UNCHANGED <<cache, seen>>
    BY <1>9 DEF ReadStatus, Sent
  <2>2. "known" \in Answers \ {"sent"} /\ task \in TaskStates
    BY <1>1 DEF Answers, Types
  <2>3. /\ Replied("status", "known")
        /\ poll'.row.state = task /\ poll'.got["holder"] = poll.got["holder"]
        /\ poll'.got["status"] = "known"
    BY <1>1, <2>1, <2>2, KeySets DEF Types, PollMoves, Replied, PollType, Row
  <2>4. poll.got["holder"] = "sent"
    BY <1>1, <2>1 DEF AnswersOrdered
  <2>5. RowTrue'
    BY <2>2, <2>3, <2>4 DEF RowTrue, Replied
  <2> QED
    BY <1>2, <2>1, <2>2, <2>3, <2>5, KeySets, ReplyKeeps DEF SnapshotInv
<1>10. CASE Holder
  <2> DEFINE w == NameOf(poll.got["worker_info"] = "known")
  <2>1. /\ poll.on /\ poll.got["holder"] = "sent" /\ poll.got["status"] = "known"
        /\ poll.row.state = "running"
        /\ poll' = [poll EXCEPT !.got["holder"] = "known", !.row.worker = w]
        /\ PollMoves /\ UNCHANGED <<cache, seen>>
    BY <1>10 DEF Holder, HolderBecomes, Sent
  <2>2. "known" \in Answers \ {"sent"} /\ w \in {"", "name", "id"}
    BY DEF Answers, NameOf
  <2>3. /\ Replied("holder", "known")
        /\ poll'.row.state = poll.row.state /\ poll'.row.worker = w
        /\ poll'.got["status"] = "known"
    BY <1>1, <2>1, <2>2, KeySets DEF Types, PollMoves, Replied, PollType, Row
  <2>4. poll.got["worker_info"] \in {"absent", "known"}
    BY <1>1, <2>1, KeySets DEF AnswersOrdered, Answered, Answers
  <2>5. w = "id" => began["worker_info"] = 0
    BY <1>1, <2>1, <2>4, KeySets DEF NameOf, AnswersTrue
  <2>6. w = "" => task = "ended"
    BY <1>1, <2>1 DEF NameOf, RowTrue
  <2>7. RowTrue'
    BY <1>1, <2>1, <2>3, <2>5, <2>6 DEF RowTrue, Replied
  <2> QED
    BY <1>2, <2>1, <2>2, <2>3, <2>7, KeySets, ReplyKeeps DEF SnapshotInv
<1>11. CASE EndPoll \/ FailPoll
  <2>1. /\ poll' = NoPoll
        /\ UNCHANGED <<writes, server, task, count, cache, seen, began>>
    BY <1>11 DEF EndPoll, FailPoll, PollMoves
  <2> QED  BY <1>1, <2>1, NoPollType DEF Types, ServerInv, SnapshotInv
<1> QED
  BY <1>3, <1>4, <1>5, <1>6, <1>7, <1>8, <1>9, <1>10, <1>11, KeySets DEF PollStep

LEMMA SnapshotNext == SnapshotInv /\ [Next]_vars => SnapshotInv'
<1> SUFFICES ASSUME SnapshotInv, [Next]_vars PROVE SnapshotInv'
  OBVIOUS
<1>1. CASE RunStep \/ PollStep
  BY <1>1, RunKeepsSnapshot, PollKeepsSnapshot
<1>2. CASE UNCHANGED vars
  BY <1>2 DEF vars, SnapshotInv, Types, ServerInv, AnswersTrue, AnswersOrdered, RowTrue,
     Answered
<1> QED  BY <1>1, <1>2 DEF Next

THEOREM SnapshotInvariant == Spec => []SnapshotInv
  BY SnapshotInit, SnapshotNext, PTL DEF Spec

(* What a snapshot is made of, when all of it is read.                     *)
LEMMA ReadyAnswers ==
  ASSUME SnapshotInv, Ready
  PROVE  /\ Types /\ ServerInv /\ AnswersTrue /\ AnswersOrdered /\ RowTrue
         /\ \A k \in Gathered : poll.got[k] \in {"absent", "known"}
         /\ \A k \in Keys : began[k] \in Nat /\ server[k] \in Nat
  BY KeySets DEF SnapshotInv, Ready, Answered, Types, PollType, Answers

(* A snapshot has the rows of what was there when its poll began, and not  *)
(* of what had exited, and shows what the server holds unless that changed *)
(* meanwhile; although each request reads another moment of the server.    *)
THEOREM RowsAreTrueAlways == Spec => []RowsAreTrue
<1>1. SnapshotInv => RowsAreTrue
  <2> SUFFICES ASSUME SnapshotInv, Ready PROVE RowsAreTrue
    BY DEF RowsAreTrue
  <2>1. /\ ServerInv /\ AnswersTrue
        /\ \A k \in Gathered : poll.got[k] \in {"absent", "known"}
        /\ \A k \in Keys : began[k] \in Nat /\ server[k] \in Nat
    BY ReadyAnswers
  <2>2. \A k \in Gathered : /\ Was(k) => Listed(k)
                            /\ Listed(k) => server[k] # 0
    BY <2>1, KeySets DEF Was, Listed, AnswersTrue
  <2>3. /\ Was("job_info") /\ server["job_exit"] = 0 => ShowsJob
        /\ Was("job_exit") => ~ShowsJob
        /\ Was("worker_info") /\ server["worker_exit"] = 0 => ShowsWorker
        /\ Was("worker_exit") => ~ShowsWorker
        /\ Was("job_series") /\ server["job_exit"] = 0 => ShowsSeries
        /\ Was("job_info") /\ Was("job_exit") => ~ShowsSeries
    BY <2>2, KeySets DEF ShowsJob, ShowsWorker, ShowsSeries
  <2>4. ASSUME NEW k \in {"job_info", "job_start", "worker_info"}, began[k] = server[k]
        PROVE  cache[k] = server[k]
    <3>1. /\ k \in Gathered /\ k \in Keys \ {"display", "task_name"} /\ k \in Identities
          /\ cache[k] \in Nat
      BY KeySets, ReadyAnswers DEF Types
    <3>2. server[k] \in Nat /\ server[k] <= 1 /\ cache[k] <= server[k]
      BY <2>1, <3>1 DEF ServerInv
    <3>3. CASE poll.got[k] = "absent"
      <4>1. server[k] = 0  BY <2>1, <2>4, <3>1, <3>3 DEF AnswersTrue
      <4> QED  BY <3>1, <3>2, <4>1
    <3>4. CASE poll.got[k] = "known"
      <4>1. cache[k] # 0  BY <2>1, <3>1, <3>4 DEF AnswersTrue
      <4> QED  BY <3>1, <3>2, <4>1
    <3> QED  BY <2>1, <3>1, <3>3, <3>4
  <2>5. ASSUME Was("task_name") PROVE ShowsTask /\ cache["task_name"] # 0
    <3>1. poll.got["task_id"] = "known" /\ Answered({"task_name"})
      BY <2>1, <2>5 DEF Ready, AnswersTrue, Was, Answered
    <3>2. poll.got["task_name"] \in Answers
      BY ReadyAnswers, KeySets DEF Types, PollType
    <3>3. poll.got["task_name"] = "known"
      BY <2>1, <2>5, <3>1, <3>2, KeySets DEF Answered, AnswersTrue, Was, Answers
    <3> QED  BY <2>1, <3>1, <3>3, KeySets DEF AnswersTrue, ShowsTask, Listed
  <2> QED  BY <2>3, <2>4, <2>5 DEF RowsAreTrue
<1> QED  BY <1>1, SnapshotInvariant, PTL

(* A running task shows the name of a worker that registered before the    *)
(* poll, also when that worker exited since.                               *)
THEOREM HolderIsNamedAlways == Spec => []HolderIsNamed
<1>1. SnapshotInv => HolderIsNamed
  <2> SUFFICES ASSUME SnapshotInv, Ready, poll.row.state = "running", Was("worker_info")
               PROVE  /\ poll.row.worker # "id"
                      /\ task = "running" => poll.row.worker = "name"
    BY DEF HolderIsNamed
  <2>1. AnswersOrdered /\ RowTrue /\ poll.row.worker \in {"", "name", "id"}
    BY ReadyAnswers DEF Types, PollType, Row
  <2>2. poll.got["status"] = "known"
    BY <2>1 DEF AnswersOrdered, RowTrue
  <2>3. poll.got["holder"] = "known"
    BY <2>1, <2>2 DEF Ready, Answered, AnswersOrdered
  <2> QED  BY <2>1, <2>3 DEF RowTrue, Was
<1> QED  BY <1>1, SnapshotInvariant, PTL

-----------------------------------------------------------------------------
(* The progress that is shown.                                             *)

(* What is shown was seen, what was seen was published; and a display that *)
(* the poll in flight read is not older than the one that is shown.        *)
ProgressInv ==
    /\ SnapshotInv
    /\ \A i \in Waits : seen[i] <= count[i]
    /\ shown.wait \in Nat /\ shown.done \in Nat
    /\ shown.wait <= server["display"]
    /\ shown.wait # 0 => shown.done <= seen[shown.wait]
    /\ shown.wait = 0 => shown.done = 0
    /\ poll.on /\ poll.got["display"] = "absent" => shown.wait = 0
    /\ poll.on /\ poll.got["display"] \in {"found", "known"} =>
          poll.wait \in Waits /\ shown.wait <= poll.wait /\ poll.wait <= server["display"]

LEMMA ProgressTypes ==
  ASSUME ProgressInv
  PROVE  /\ Types /\ ServerInv
         /\ \A i \in Waits : i \in Nat /\ count[i] \in Nat /\ seen[i] \in Nat
         /\ server["display"] \in Nat
         /\ shown.wait # 0 => shown.wait \in Waits
         /\ poll.got \in [Asked -> Answers]
         /\ poll.wait \in Nat
<1>1. Types /\ ServerInv /\ MaxWaits \in Nat
  BY CollectorOK DEF ProgressInv, SnapshotInv
<1>2. /\ \A i \in Waits : i \in Nat /\ count[i] \in Nat /\ seen[i] \in Nat
      /\ server["display"] \in Nat /\ server["display"] <= MaxWaits
  <2>1. \A i \in Waits : count[i] \in Nat /\ seen[i] \in Nat  BY <1>1 DEF Types
  <2>2. \A i \in Waits : i \in Nat  BY <1>1 DEF Waits
  <2> QED  BY <1>1, <2>1, <2>2, KeySets DEF Types, ServerInv
<1>3. shown.wait # 0 => shown.wait \in Waits
  BY <1>1, <1>2 DEF ProgressInv, Waits
<1> QED  BY <1>1, <1>2, <1>3 DEF Types, PollType

LEMMA ProgressInit == Init => ProgressInv
<1> SUFFICES ASSUME Init PROVE ProgressInv
  OBVIOUS
<1>1. SnapshotInv  BY SnapshotInit
<1> QED  BY <1>1, NoPollType, KeySets DEF Init, ProgressInv, Nothing

(* What the last poll showed, against what it shows now.                   *)
ShownForward ==
    /\ shown.wait <= shown'.wait
    /\ shown.wait = shown'.wait => shown.done <= shown'.done
    /\ shown'.wait # 0 => shown'.done <= count[shown'.wait]

LEMMA ProgressNext == ProgressInv /\ [Next]_vars => ProgressInv' /\ [ShownForward]_vars
<1> SUFFICES ASSUME ProgressInv, [Next]_vars PROVE ProgressInv' /\ ShownForward
  OBVIOUS
<1>1. /\ Types /\ ServerInv
      /\ \A i \in Waits : i \in Nat /\ count[i] \in Nat /\ seen[i] \in Nat
      /\ server["display"] \in Nat
      /\ shown.wait # 0 => shown.wait \in Waits
      /\ poll.got \in [Asked -> Answers]
      /\ poll.wait \in Nat
  BY ProgressTypes
<1>2. SnapshotInv'  BY SnapshotNext DEF ProgressInv
<1>3. ASSUME UNCHANGED shown PROVE ShownForward
  <2>1. shown.wait # 0 => shown.done <= count[shown.wait]
    BY <1>1 DEF ProgressInv
  <2> QED  BY <1>3, <2>1 DEF ShownForward, ProgressInv
<1>4. CASE RunStep
  <2>1. /\ UNCHANGED <<seen, poll, shown>>
        /\ server["display"] <= server'["display"] /\ server'["display"] \in Nat
        /\ \A i \in Waits : count[i] <= count'[i] /\ count'[i] \in Nat
    BY <1>4, RunShape, KeySets DEF ProgressInv
  <2>2. ProgressInv'  BY <1>1, <1>2, <2>1 DEF ProgressInv
  <2> QED  BY <1>3, <2>1, <2>2
<1>5. ASSUME UNCHANGED <<server, count, seen, shown>>,
             poll'.on => /\ poll.on /\ poll'.wait = poll.wait
                         /\ poll'.got["display"] = poll.got["display"]
      PROVE  ProgressInv' /\ ShownForward
  BY <1>2, <1>3, <1>5 DEF ProgressInv
<1>6. CASE BeginPoll
  <2>1. /\ UNCHANGED <<server, count, seen, shown>>
        /\ poll'.got["display"] = IF "display" \in Keys \ writes THEN "absent" ELSE "sent"
    BY <1>6, KeySets DEF BeginPoll, NoPoll, Asked
  <2>2. "display" \in Keys \ writes => shown.wait = 0
    BY <1>1 DEF ServerInv, ProgressInv
  <2> QED  BY <1>2, <1>3, <2>1, <2>2 DEF ProgressInv
<1>7. CASE ReadDisplay
  <2>1. /\ UNCHANGED <<server, count, seen, shown>>
        /\ poll'.wait = server["display"]
        /\ poll'.got["display"] = IF server["display"] = 0 THEN "absent" ELSE "found"
    BY <1>1, <1>7, KeySets DEF ReadDisplay, PollMoves, Types, PollType
  <2>2. server["display"] # 0 => server["display"] \in Waits
    BY <1>1, CollectorOK DEF ServerInv, Waits
  <2> QED  BY <1>1, <1>2, <1>3, <2>1, <2>2 DEF ProgressInv
<1>8. CASE ReadTail
  <2>1. /\ poll.on /\ poll.got["display"] = "found"
        /\ UNCHANGED <<server, count, shown>>
        /\ poll'.got["display"] = "known" /\ poll'.wait = poll.wait
    BY <1>1, <1>8, KeySets DEF ReadTail, Got, PollMoves, Types, PollType
  <2>2. /\ seen' \in [Waits -> Nat]
        /\ \A i \in Waits : seen[i] <= seen'[i] /\ seen'[i] <= count[i]
    BY <1>1, <1>8 DEF ReadTail, ProgressInv, Types
  <2>3. \A i \in Waits : seen'[i] \in Nat  BY <2>2
  <2> QED  BY <1>1, <1>2, <1>3, <2>1, <2>2, <2>3 DEF ProgressInv
<1>9. CASE EndPoll
  <2>1. /\ UNCHANGED <<server, count, seen>> /\ ~poll'.on /\ poll.on
        /\ poll.got["display"] \in {"absent", "known"}
        /\ shown' = IF poll.got["display"] = "known"
                    THEN [wait |-> poll.wait, done |-> seen[poll.wait]] ELSE Nothing
    BY <1>1, <1>9, KeySets, NoPollType
       DEF EndPoll, Ready, Answered, Answers, Listed
  <2>2. CASE poll.got["display"] = "known"
    <3>1. poll.wait \in Waits /\ shown.wait <= poll.wait /\ poll.wait <= server["display"]
      BY <2>1, <2>2 DEF ProgressInv
    <3>2. shown'.wait = poll.wait /\ shown'.done = seen[poll.wait]
      BY <2>1, <2>2
    <3>3. poll.wait # 0  BY <3>1 DEF Waits
    <3>4. ShownForward
      BY <1>1, <3>1, <3>2, <3>3 DEF ShownForward, ProgressInv
    <3> QED  BY <1>1, <1>2, <2>1, <3>1, <3>2, <3>3, <3>4 DEF ProgressInv
  <2>3. CASE poll.got["display"] = "absent"
    <3>1. shown.wait = 0 /\ shown.done = 0  BY <2>1, <2>3 DEF ProgressInv
    <3>2. shown'.wait = 0 /\ shown'.done = 0  BY <2>1, <2>3 DEF Nothing
    <3> QED  BY <1>1, <1>2, <2>1, <3>1, <3>2 DEF ShownForward, ProgressInv
  <2> QED  BY <2>1, <2>2, <2>3
<1>10. CASE FailPoll
  BY <1>5, <1>10, NoPollType DEF FailPoll, PollMoves
<1>11. ASSUME NEW k \in Asked \ {"display"}, NEW a, Got(k, a), poll.on,
              PollMoves, UNCHANGED seen
       PROVE  ProgressInv' /\ ShownForward
  BY <1>1, <1>5, <1>11, KeySets DEF Got, PollMoves, Types, PollType
<1>12. ASSUME NEW k \in Keys, Search(k) PROVE ProgressInv' /\ ShownForward
  BY <1>11, <1>12, KeySets DEF Search, Sent
<1>13. ASSUME NEW k \in Identities, Read(k) PROVE ProgressInv' /\ ShownForward
  <2>1. k \in Asked \ {"display"}  BY KeySets
  <2> QED  BY <1>11, <1>13, <2>1 DEF Read, MayRead
<1>14. CASE SearchNames  BY <1>11, <1>14, KeySets DEF SearchNames, Sent
<1>15. CASE SearchTasks  BY <1>11, <1>15, KeySets DEF SearchTasks, Sent
<1>16. CASE ReadStatus
  BY <1>1, <1>5, <1>16, KeySets DEF ReadStatus, Sent, PollMoves, Types, PollType
<1>17. CASE Holder
  BY <1>1, <1>5, <1>17, KeySets DEF Holder, HolderBecomes, Sent, PollMoves, Types, PollType
<1>18. CASE UNCHANGED vars
  BY <1>5, <1>18 DEF vars
<1> QED
  BY <1>4, <1>6, <1>7, <1>8, <1>9, <1>10, <1>12, <1>13, <1>14, <1>15, <1>16, <1>17,
     <1>18 DEF Next, PollStep

(* The progress bar of a wait never goes back, and a later snapshot never  *)
(* shows an earlier wait.                                                  *)
THEOREM ProgressNeverGoesBack == Spec => ProgressNeverBack
<1>1. ProgressInv /\ [Next]_vars => ProgressInv'  BY ProgressNext
<1>2. ProgressInv /\ [Next]_vars =>
        [/\ shown.wait <= shown'.wait
         /\ shown.wait = shown'.wait => shown.done <= shown'.done
         /\ shown'.wait # 0 => shown'.done <= count[shown'.wait]]_vars
  BY ProgressNext DEF ShownForward
<1> QED  BY <1>1, <1>2, ProgressInit, PTL DEF Spec, ProgressNeverBack

-----------------------------------------------------------------------------
(* The bounds.                                                             *)

BoundInv ==
    /\ ProgressInv
    /\ writes \in Runs
    /\ server["task_name"] <= MaxNames
    /\ \A i \in Waits : count[i] <= MaxCount
    /\ recent \subseteq Waits
    /\ poll.wait <= MaxWaits
    /\ ~poll.on => poll = NoPoll
    /\ shown \in [wait : Nat, done : Nat]

LEMMA BoundInit == Init => BoundInv
<1> SUFFICES ASSUME Init PROVE BoundInv
  OBVIOUS
<1>1. ProgressInv
  BY ProgressInit
<1>2. NoPoll.wait = 0 /\ 0 <= MaxNames /\ 0 <= MaxCount /\ 0 <= MaxWaits
  BY CollectorOK DEF NoPoll
<1> QED  BY <1>1, <1>2, KeySets DEF Init, BoundInv, Nothing

LEMMA RunKeepsBounds == BoundInv /\ RunStep => BoundInv'
<1> SUFFICES ASSUME BoundInv, RunStep PROVE BoundInv'
  OBVIOUS
<1>1. /\ ProgressInv /\ SnapshotInv /\ Types /\ ServerInv /\ ProgressInv'
      /\ MaxNames \in Nat /\ MaxCount \in Nat /\ MaxWaits \in Nat
  BY ProgressNext, CollectorOK DEF BoundInv, ProgressInv, SnapshotInv, Next
<1>2. UNCHANGED <<writes, poll, shown>>
  BY <1>1, RunShape
<1>3. /\ server'["task_name"] <= MaxNames
      /\ \A i \in Waits : count'[i] <= MaxCount
      /\ recent' \subseteq Waits
  <2>1. CASE SetTaskName
    <3>1. /\ server["task_name"] \in Nat /\ server["task_name"] < MaxNames
          /\ server'["task_name"] = server["task_name"] + 1
          /\ UNCHANGED <<count, recent>>
      BY <1>1, <2>1, KeySets DEF SetTaskName, Types
    <3> QED  BY <1>1, <3>1 DEF BoundInv
  <2>2. CASE TaskMoves
    BY <2>2 DEF TaskMoves, BoundInv
  <2>3. CASE PublishDisplay
    <3>1. server'["task_name"] = server["task_name"] /\ UNCHANGED <<count, recent>>
      BY <1>1, <2>3, KeySets DEF PublishDisplay, Types
    <3> QED  BY <3>1 DEF BoundInv
  <2>4. CASE AppendProgress
    <3>1. server["display"] \in Waits
      <4>1. server["display"] \in Nat /\ server["display"] <= MaxWaits /\ server["display"] # 0
        BY <1>1, <2>4, KeySets DEF AppendProgress, Types, ServerInv
      <4> QED  BY <1>1, <4>1 DEF Waits
    <3>2. PICK n \in {count[server["display"]], count[server["display"]] + 1} :
             n <= MaxCount /\ count' = [count EXCEPT ![server["display"]] = n]
      BY <2>4 DEF AppendProgress
    <3>3. recent' = recent \cup {server["display"]} /\ server' = server
      BY <2>4 DEF AppendProgress
    <3>4. \A i \in Waits : count'[i] <= MaxCount
      BY <1>1, <3>1, <3>2 DEF BoundInv, Types
    <3> QED  BY <3>1, <3>3, <3>4 DEF BoundInv
  <2>5. ASSUME NEW k \in Keys, Publish(k)
        PROVE  server'["task_name"] = server["task_name"] /\ UNCHANGED <<count, recent>>
    BY <1>1, <2>5, KeySets DEF Publish, Types
  <2>6. ASSUME NEW i \in Waits, Age(i)
        PROVE  recent' \subseteq recent /\ UNCHANGED <<server, count>>
    BY <2>6 DEF Age
  <2> QED  BY <2>1, <2>2, <2>3, <2>4, <2>5, <2>6 DEF RunStep, BoundInv
<1> QED  BY <1>1, <1>2, <1>3 DEF BoundInv

LEMMA PollKeepsBounds == BoundInv /\ PollStep => BoundInv'
<1> SUFFICES ASSUME BoundInv, PollStep PROVE BoundInv'
  OBVIOUS
<1>1. /\ ProgressInv /\ ProgressInv' /\ Types /\ ServerInv /\ MaxWaits \in Nat
      /\ poll \in PollType /\ NoPoll.wait = 0
  BY ProgressNext, CollectorOK DEF BoundInv, ProgressInv, SnapshotInv, Types, Next, NoPoll
<1>2. UNCHANGED <<writes, server, count, recent>>
  BY DEF PollStep, BeginPoll, SearchNames, ReadDisplay, ReadTail, SearchTasks, ReadStatus,
     Holder, HolderBecomes, EndPoll, FailPoll, Search, Read, PollMoves
<1>3. shown' \in [wait : Nat, done : Nat]
  <2>1. CASE EndPoll
    <3>1. CASE Listed("display")
      <4>1. poll.wait \in Nat /\ poll.wait \in Waits /\ seen[poll.wait] \in Nat
        BY <1>1, <2>1, <3>1 DEF EndPoll, Ready, Listed, ProgressInv, Types, PollType
      <4> QED  BY <2>1, <3>1, <4>1 DEF EndPoll
    <3>2. CASE ~Listed("display")
      BY <2>1, <3>2 DEF EndPoll, Nothing
    <3> QED  BY <3>1, <3>2
  <2>2. CASE UNCHANGED shown
    BY <2>2 DEF BoundInv
  <2> QED
    BY <2>1, <2>2
       DEF PollStep, BeginPoll, SearchNames, ReadDisplay, ReadTail, SearchTasks, ReadStatus,
           Holder, HolderBecomes, FailPoll, Search, Read, PollMoves
<1>4. poll'.wait <= MaxWaits /\ (~poll'.on => poll' = NoPoll)
  <2>1. CASE BeginPoll
    <3>1. poll'.on /\ poll'.wait = 0
      BY <2>1, <1>1 DEF BeginPoll, NoPoll
    <3> QED  BY <1>1, <3>1
  <2>2. CASE EndPoll \/ FailPoll
    BY <1>1, <2>2 DEF EndPoll, FailPoll
  <2>3. CASE ReadDisplay
    <3>1. poll'.on /\ poll'.wait = server["display"]
      BY <1>1, <2>3 DEF ReadDisplay, Sent, PollType
    <3> QED  BY <1>1, <3>1 DEF ServerInv
  <2>4. ASSUME poll'.on = poll.on, poll'.wait = poll.wait, poll.on
        PROVE  poll'.wait <= MaxWaits /\ (~poll'.on => poll' = NoPoll)
    BY <2>4 DEF BoundInv
  <2>5. ASSUME NEW k, NEW a, Got(k, a) PROVE poll'.on = poll.on /\ poll'.wait = poll.wait
    BY <1>1, <2>5 DEF Got, PollType
  <2>6. CASE SearchNames \/ ReadTail \/ SearchTasks
    BY <2>4, <2>5, <2>6 DEF SearchNames, ReadTail, SearchTasks, Sent
  <2>7. CASE ReadStatus \/ Holder
    BY <1>1, <2>4, <2>7 DEF ReadStatus, Holder, HolderBecomes, Sent, PollType
  <2>8. ASSUME NEW k \in Keys, Search(k) PROVE poll'.on = poll.on /\ poll'.wait = poll.wait /\ poll.on
    BY <2>5, <2>8 DEF Search, Sent
  <2>9. ASSUME NEW k \in Identities, Read(k)
        PROVE  poll'.on = poll.on /\ poll'.wait = poll.wait /\ poll.on
    BY <2>5, <2>9 DEF Read, MayRead
  <2> QED
    BY <2>1, <2>2, <2>3, <2>4, <2>6, <2>7, <2>8, <2>9 DEF PollStep
<1> QED  BY <1>1, <1>2, <1>3, <1>4 DEF BoundInv

LEMMA BoundNext == BoundInv /\ [Next]_vars => BoundInv'
<1> SUFFICES ASSUME BoundInv, [Next]_vars PROVE BoundInv'
  OBVIOUS
<1>1. CASE RunStep \/ PollStep
  BY <1>1, RunKeepsBounds, PollKeepsBounds
<1>2. CASE UNCHANGED vars
  <2>1. ProgressInv'
    BY ProgressNext DEF BoundInv
  <2> QED  BY <1>2, <2>1 DEF vars, BoundInv
<1> QED  BY <1>1, <1>2 DEF Next

(* The types: no cache holds a write that the server never had, a wait is  *)
(* not shown with more than it has done; and what a poll has read is in    *)
(* the cache, also when it is cut short.                                   *)
THEOREM TypeCorrect == Spec => []TypeOK
<1>1. BoundInv => TypeOK
  <2> SUFFICES ASSUME BoundInv PROVE TypeOK
    OBVIOUS
  <2>1. /\ ProgressInv /\ SnapshotInv /\ Types /\ ServerInv
        /\ MaxNames \in Nat /\ MaxCount \in Nat /\ MaxWaits \in Nat
    BY CollectorOK DEF BoundInv, ProgressInv, SnapshotInv
  <2>2. ASSUME NEW k \in Keys
        PROVE  /\ server[k] \in 0..(MaxNames + MaxWaits + 1)
               /\ began[k] \in 0..(MaxNames + MaxWaits + 1)
               /\ k \in Identities => cache[k] \in 0..(MaxNames + 1)
    <3>1. /\ server[k] \in Nat /\ began[k] \in Nat /\ began[k] <= server[k]
          /\ k \in Identities => cache[k] \in Nat /\ cache[k] <= server[k]
      BY <2>1 DEF Types, ServerInv
    <3>2. CASE k = "display"
      <4>1. server[k] <= MaxWaits /\ k \notin Identities
        BY <2>1, <3>2, KeySets DEF ServerInv
      <4> QED  BY <2>1, <3>1, <4>1
    <3>3. CASE k = "task_name"
      <4>1. server[k] <= MaxNames
        BY <3>3 DEF BoundInv
      <4> QED  BY <2>1, <3>1, <4>1
    <3>4. CASE k \notin {"display", "task_name"}
      <4>1. server[k] <= 1
        BY <2>1, <3>4 DEF ServerInv
      <4> QED  BY <2>1, <3>1, <4>1
    <3> QED  BY <3>2, <3>3, <3>4
  <2>3. /\ server \in [Keys -> 0..(MaxNames + MaxWaits + 1)]
        /\ began \in [Keys -> 0..(MaxNames + MaxWaits + 1)]
        /\ cache \in [Identities -> 0..(MaxNames + 1)]
    BY <2>1, <2>2, KeySets DEF Types
  <2>4. ASSUME NEW i \in Waits
        PROVE  count[i] \in 0..MaxCount /\ seen[i] \in 0..MaxCount
    <3>1. /\ count[i] \in Nat /\ seen[i] \in Nat /\ seen[i] <= count[i]
          /\ count[i] <= MaxCount
      BY <2>1 DEF Types, ProgressInv, BoundInv
    <3> QED  BY <2>1, <3>1
  <2>5. count \in [Waits -> 0..MaxCount] /\ seen \in [Waits -> 0..MaxCount]
    BY <2>1, <2>4 DEF Types
  <2>6. poll \in Poll
    <3>1. poll \in PollType /\ poll.wait \in 0..MaxWaits
      BY <2>1 DEF Types, PollType, BoundInv
    <3> QED  BY <3>1 DEF PollType, Poll, Asked
  <2>7. ASSUME NEW k \in Identities, poll.got[k] = "known" PROVE cache[k] # 0
    <3>1. k \in Asked
      BY KeySets
    <3>2. poll.on
      BY <2>7, <3>1, NoPollType DEF BoundInv
    <3> QED  BY <2>1, <2>7, <3>2 DEF SnapshotInv, AnswersTrue
  <2>8. shown \in [wait : 0..MaxWaits, done : 0..MaxCount]
    <3>1. /\ shown.wait \in Nat /\ shown.wait <= server["display"]
          /\ server["display"] \in Nat /\ server["display"] <= MaxWaits
      BY <2>1, KeySets DEF ProgressInv, ServerInv, Types
    <3>2. shown.wait \in 0..MaxWaits
      BY <2>1, <3>1
    <3>3. shown.done \in 0..MaxCount
      <4>1. CASE shown.wait = 0
        BY <2>1, <4>1 DEF ProgressInv
      <4>2. CASE shown.wait # 0
        <5>1. shown.wait \in Waits
          BY <2>1, <3>2, <4>2 DEF Waits
        <5>2. shown.done \in Nat /\ shown.done <= seen[shown.wait]
              /\ seen[shown.wait] \in 0..MaxCount
          BY <2>1, <2>4, <4>2, <5>1 DEF ProgressInv
        <5> QED  BY <2>1, <5>2
      <4> QED  BY <4>1, <4>2
    <3> QED  BY <3>2, <3>3 DEF BoundInv
  <2> QED  BY <2>1, <2>3, <2>5, <2>6, <2>7, <2>8 DEF BoundInv, Types, TypeOK
<1> QED  BY <1>1, BoundInit, BoundNext, PTL DEF Spec

=============================================================================
