--------------------------- MODULE MonitorsProofs ---------------------------
(* Proofs about Monitors, for every value of its constants. *)
EXTENDS Monitors, FiniteSetTheorems, TLAPS

-----------------------------------------------------------------------------
(* Types.  TypeOK also counts the workers of an election, which has an     *)
(* invariant of its own, at the end.                                       *)

(* The worker took part in an election, and its monitors may run.          *)
AfterElection == {"serve", "stop", "join", "close"}

Types ==
    /\ counter \in Gens
    /\ election \in [Gens -> Nat]
    /\ info \in BOOLEAN
    /\ series \in BOOLEAN
    /\ worker \in [Slots -> WorkerState]
    /\ thread \in [Slots -> [Kinds -> ThreadState]]
    /\ lost \subseteq Gens
    /\ \A s \in Slots :
          /\ worker[s].pc = "join" => worker[s].monitors # <<>>
          /\ worker[s].elected => worker[s].pc \in AfterElection

(* What a worker starts is monitors, and all of those that always start.   *)
LEMMA StartedTypes ==
  /\ \A started \in StartedLists :
        /\ started \in Seq(Kinds)
        /\ \A k \in Kinds \ {GPU} : \E i \in DOMAIN started : started[i] = k
  /\ <<>> \in Seq(Kinds)
<1>1. AlwaysStarted \in Seq(Kinds)
  <2>1. AlwaysStarted \in [1..Len(AlwaysStarted) -> Kinds] /\ Len(AlwaysStarted) \in Nat
    BY MonitorsOK DEF Kinds
  <2> QED  BY <2>1
<1>2. GPU \in Kinds  BY DEF Kinds
<1>3. Append(AlwaysStarted, GPU) \in Seq(Kinds)  BY <1>1, <1>2
<1>4. \A k \in Kinds \ {GPU} : \E i \in DOMAIN AlwaysStarted : AlwaysStarted[i] = k
  BY DEF Kinds
<1>5. \A i \in DOMAIN AlwaysStarted :
         /\ i \in DOMAIN Append(AlwaysStarted, GPU)
         /\ Append(AlwaysStarted, GPU)[i] = AlwaysStarted[i]
  BY <1>1, <1>2
<1> QED  BY <1>1, <1>3, <1>4, <1>5 DEF StartedLists

LEMMA ProcessTypes ==
  /\ \A p \in Pc : Process(p) \in WorkerState
  /\ NoThread \in ThreadState /\ NewThread \in ThreadState
  /\ NoThreads \in [Kinds -> ThreadState]
<1>1. 0 \in Gens /\ <<>> \in Seq(Kinds)  BY MonitorsOK, StartedTypes DEF Gens
<1>2. \A p \in Pc : Process(p) \in WorkerState  BY <1>1 DEF Process, WorkerState
<1>3. NoThread \in ThreadState /\ NewThread \in ThreadState
  BY DEF NoThread, NewThread, ThreadState
<1> QED  BY <1>2, <1>3 DEF NoThreads

LEMMA TypesInit == Init => Types
<1> SUFFICES ASSUME Init PROVE Types
  OBVIOUS
<1>1. 0 \in Gens /\ Process("boot") \in WorkerState /\ Process("boot").pc = "boot"
      /\ ~Process("boot").elected
  BY MonitorsOK, ProcessTypes DEF Gens, Pc, Process
<1> QED  BY <1>1, ProcessTypes DEF Init, Types

(* The steps of the threads of slot s.                                     *)
ThreadStep(s) == SetInfo(s) \/ \E k \in Kinds : Sample(s, k) \/ Fail(s, k)

(* What a step of the threads may do: one of them, k, becomes t.  It ends  *)
(* only once it was told to stop, and it holds a GPU for published only    *)
(* when the server has its key.                                            *)
Moved(s, k, t) ==
    /\ thread' = [thread EXCEPT ![s][k] = t]
    /\ thread[s][k].at # "none"
    /\ t.at = "none" => thread[s][k].stopping
    /\ t.stopping => thread[s][k].stopping
    /\ k = GPU /\ t.published => thread[s][k].published \/ info'

LEMMA ThreadStepShape ==
  ASSUME Types, NEW s \in Slots, ThreadStep(s)
  PROVE  /\ UNCHANGED <<counter, election, worker, lost>>
         /\ \E k \in Kinds, t \in ThreadState : Moved(s, k, t)
         /\ info' = info \/ info' = TRUE
         /\ series' = series \/ (series' = TRUE /\ info' = info /\ thread[s][GPU].published)
<1>1. GPU \in Kinds /\ \A k \in Kinds : thread[s][k] \in ThreadState
  BY DEF Types, Kinds
<1>2. CASE SetInfo(s)
  <2> DEFINE t == [thread[s][GPU] EXCEPT !.published = TRUE]
  <2>1. t \in ThreadState /\ t.at = thread[s][GPU].at
        /\ t.stopping = thread[s][GPU].stopping
    BY <1>1 DEF ThreadState
  <2>2. Moved(s, GPU, t)
    BY <1>2, <2>1 DEF SetInfo, ThreadBecomes, Moved
  <2> QED  BY <1>1, <1>2, <2>1, <2>2 DEF SetInfo, ThreadBecomes
<1>3. ASSUME NEW k \in Kinds, AppendPoint(s, k) \/ Fail(s, k)
      PROVE  Moved(s, k, Moves(s, k, "waiting")) /\ Moves(s, k, "waiting") \in ThreadState
  <2> DEFINE t == Moves(s, k, "waiting")
  <2>1. t \in ThreadState /\ t.at = "waiting" /\ t.stopping = thread[s][k].stopping
        /\ t.published = thread[s][k].published
    BY <1>1 DEF Moves, ThreadState
  <2>2. thread' = [thread EXCEPT ![s][k] = t] /\ thread[s][k].at = "reading"
    BY <1>3 DEF AppendPoint, Fail, ThreadBecomes
  <2> QED  BY <2>1, <2>2 DEF Moved
<1>4. ASSUME NEW k \in Kinds, Wake(s, k)
      PROVE  \E t \in ThreadState : Moved(s, k, t)
  <2>1. CASE thread[s][k].stopping
    BY <1>4, <2>1, ProcessTypes DEF Wake, ThreadBecomes, Moved, NoThread
  <2>2. CASE ~thread[s][k].stopping
    <3> DEFINE t == Moves(s, k, "reading")
    <3>1. t \in ThreadState /\ t.at = "reading" /\ t.stopping = thread[s][k].stopping
          /\ t.published = thread[s][k].published
      BY <1>1 DEF Moves, ThreadState
    <3>2. thread' = [thread EXCEPT ![s][k] = t] /\ thread[s][k].at = "waiting"
      BY <1>4, <2>2 DEF Wake, ThreadBecomes
    <3> QED  BY <2>2, <3>1, <3>2 DEF Moved
  <2> QED  BY <2>1, <2>2
<1>5. ASSUME NEW k \in Kinds, AppendPoint(s, k) \/ Wake(s, k) \/ Fail(s, k)
      PROVE  /\ UNCHANGED <<counter, election, worker, lost, info>>
             /\ series' = series \/ (series' = TRUE /\ thread[s][GPU].published)
  <2>1. series \in BOOLEAN  BY DEF Types
  <2>2. CASE AppendPoint(s, k)  BY <2>1, <2>2 DEF AppendPoint, ThreadBecomes
  <2>3. CASE Wake(s, k) \/ Fail(s, k)  BY <2>3 DEF Wake, Fail, ThreadBecomes
  <2> QED  BY <1>5, <2>2, <2>3
<1> QED  BY <1>2, <1>3, <1>4, <1>5 DEF ThreadStep, Sample

LEMMA MovedType ==
  ASSUME Types, NEW s \in Slots, NEW k \in Kinds, NEW t \in ThreadState, Moved(s, k, t)
  PROVE  thread' \in [Slots -> [Kinds -> ThreadState]]
  BY DEF Types, Moved

(* The election of a worker, which starts no monitors or those of a list.  *)
LEMMA ElectShape ==
  ASSUME Types, NEW s \in Slots, Elect(s)
  PROVE  LET g == worker[s].gen IN
         /\ worker[s].pc = "elect"
         /\ election' = [election EXCEPT ![g] = election[g] + 1]
         /\ UNCHANGED <<counter, info, series, lost>>
         /\ \E w \in WorkerState, t \in [Kinds -> ThreadState] :
               /\ worker' = [worker EXCEPT ![s] = w]
               /\ thread' = [thread EXCEPT ![s] = t]
               /\ w.pc = "serve" /\ w.gen = g
               /\ w.elected <=> election[g] = 0
               /\ \A k \in Kinds : ~t[k].stopping /\ ~t[k].published
               /\ w.elected => \A k \in Kinds \ {GPU} : t[k].at # "none"
               /\ w.elected \/ t = NoThreads
<1> DEFINE g == worker[s].gen
<1>1. /\ g \in Gens /\ worker[s] \in WorkerState /\ election[g] \in Nat
      /\ worker[s].pc = "elect"
      /\ election' = [election EXCEPT ![g] = election[g] + 1]
      /\ election'[g] = election[g] + 1
      /\ UNCHANGED <<counter, info, series, lost>>
  BY DEF Types, WorkerState, Elect, ElectFor, Becomes
<1>2. PICK started \in IF election'[g] = 1 THEN StartedLists ELSE {<<>>} :
         /\ worker' = [worker EXCEPT ![s] = [Goes(s, "serve") EXCEPT
                                    !.elected = (election'[g] = 1),
                                    !.monitors = started]]
         /\ thread' = [thread EXCEPT ![s] =
                [k \in Kinds |-> IF \E i \in DOMAIN started : started[i] = k
                                 THEN NewThread ELSE NoThread]]
  BY DEF Elect, ElectFor, Becomes
<1> DEFINE w == [Goes(s, "serve") EXCEPT !.elected = (election'[g] = 1),
                                         !.monitors = started]
           t == [k \in Kinds |-> IF \E i \in DOMAIN started : started[i] = k
                                 THEN NewThread ELSE NoThread]
<1>3. started \in Seq(Kinds)  BY <1>2, StartedTypes
<1>4. w \in WorkerState /\ w.pc = "serve" /\ w.gen = g /\ w.elected = (election'[g] = 1)
  BY <1>1, <1>3 DEF Goes, WorkerState, Pc
<1>5. t \in [Kinds -> ThreadState] /\ \A k \in Kinds : ~t[k].stopping /\ ~t[k].published
  BY ProcessTypes DEF NewThread, NoThread
<1>6. w.elected <=> election[g] = 0
  <2>1. election'[g] = 1 <=> election[g] = 0  BY ONLY <1>1
  <2> HIDE DEF w
  <2> QED  BY ONLY <1>4, <2>1
<1>7. w.elected => \A k \in Kinds \ {GPU} : t[k].at # "none"
  <2> SUFFICES ASSUME w.elected, NEW k \in Kinds \ {GPU} PROVE t[k].at # "none"
    OBVIOUS
  <2>1. \E i \in DOMAIN started : started[i] = k  BY <1>2, <1>4, StartedTypes
  <2> QED  BY <2>1 DEF NewThread, NoThread
<1>8. w.elected \/ t = NoThreads
  <2> SUFFICES ASSUME ~w.elected PROVE t = NoThreads
    OBVIOUS
  <2>1. started = <<>>  BY <1>2, <1>4
  <2> QED  BY <2>1 DEF NoThreads
<1> HIDE DEF w, t
<1> QED  BY <1>1, <1>2, <1>4, <1>5, <1>6, <1>7, <1>8 DEF w, t

(* The steps of the worker of slot s.                                      *)
SlotStep(s) ==
    \/ StartWorker(s) \/ Construct(s) \/ ElectFails(s)
    \/ MeetRestart(s) \/ Raise(s) \/ Die(s) \/ Close(s)

(* What those but the election do: the process of s becomes w, and its     *)
(* threads t, of which none begin, and none go on when an elected process  *)
(* ends.  An elected worker that stops to serve is behind a restart, or    *)
(* its generation is lost.                                                 *)
Stepped(s, w, t) ==
    /\ worker' = [worker EXCEPT ![s] = w]
    /\ thread' = [thread EXCEPT ![s] = t]
    /\ UNCHANGED <<counter, info, series>>
    /\ w.pc # "serve"
    /\ w.pc = "join" => w.monitors # <<>>
    /\ w.pc \in AfterElection =>
          w.gen = worker[s].gen /\ worker[s].pc \in AfterElection
    /\ w.elected => worker[s].elected /\ w.pc \in AfterElection
    /\ w.gen \in {0, worker[s].gen, counter}
    /\ worker[s].pc = "serve" /\ worker[s].elected =>
          worker[s].gen < counter \/ worker[s].gen \in lost'
    /\ worker[s].elected /\ ~w.elected => t = NoThreads
    /\ thread[s] = NoThreads => t = NoThreads
    /\ \A k \in Kinds : t[k].published => thread[s][k].published

(* What they do to the elections: a worker that fails in its own may count *)
(* in it, and loses its generation if it was the first.                    *)
Counted(s) ==
    LET g == worker[s].gen IN
    /\ lost \subseteq lost'
    /\ \/ election' = election
       \/ /\ election' = [election EXCEPT ![g] = election[g] + 1]
          /\ worker[s].pc = "elect"
          /\ election[g] = 0 => g \in lost'

LEMMA SlotStepShape ==
  ASSUME Types, NEW s \in Slots, SlotStep(s), ~Elect(s)
  PROVE  /\ \E w \in WorkerState, t \in [Kinds -> ThreadState] : Stepped(s, w, t)
         /\ Counted(s)
         /\ lost' \subseteq Gens
<1>1. /\ worker[s] \in WorkerState /\ thread[s] \in [Kinds -> ThreadState]
      /\ worker[s].gen \in Gens /\ counter \in Gens /\ 0 \in Gens
      /\ worker[s].monitors \in Seq(Kinds) /\ worker[s].elected \in BOOLEAN
      /\ election \in [Gens -> Nat] /\ lost \subseteq Gens
      /\ worker \in [Slots -> WorkerState]
      /\ thread \in [Slots -> [Kinds -> ThreadState]]
      /\ worker[s].elected => worker[s].pc \in AfterElection
  BY MonitorsOK DEF Types, WorkerState, Gens
<1>2. \A p \in Pc : Goes(s, p) \in WorkerState /\ Goes(s, p).pc = p
                    /\ Goes(s, p).gen = worker[s].gen
                    /\ Goes(s, p).elected = worker[s].elected
                    /\ Goes(s, p).monitors = worker[s].monitors
  BY <1>1 DEF Goes, WorkerState
<1>3. \A p \in Pc : Process(p) \in WorkerState /\ Process(p).pc = p
                    /\ ~Process(p).elected /\ Process(p).gen = 0
  BY ProcessTypes DEF Process
<1>4. NoThreads \in [Kinds -> ThreadState]
      /\ \A k \in Kinds : NoThreads[k].at = "none" /\ ~NoThreads[k].published
  BY ProcessTypes DEF NoThreads, NoThread
<1>5. thread = [thread EXCEPT ![s] = thread[s]]  BY <1>1
<1>6. CASE StartWorker(s)
  <2>1. Stepped(s, Process("boot"), thread[s])
    BY <1>1, <1>3, <1>5, <1>6 DEF StartWorker, Becomes, Stepped, AfterElection, Pc
  <2> QED  BY <1>1, <1>3, <1>6, <2>1 DEF StartWorker, Counted, Pc
<1>7. CASE ReadGeneration(s)
  <2> DEFINE w == [Goes(s, "elect") EXCEPT !.gen = counter]
  <2>1. w \in WorkerState /\ w.pc = "elect" /\ w.gen = counter
        /\ w.elected = worker[s].elected
    BY <1>1, <1>2 DEF WorkerState, Pc
  <2>2. Stepped(s, w, thread[s])
    BY <1>1, <1>5, <1>7, <2>1 DEF ReadGeneration, Becomes, Stepped, AfterElection
  <2> QED  BY <1>1, <1>7, <2>1, <2>2 DEF ReadGeneration, Counted
<1>8. CASE ElectFails(s)
  <2>1. Stepped(s, Process("gone"), thread[s])
    BY <1>1, <1>3, <1>5, <1>8
       DEF ElectFails, ElectFailsInto, Becomes, Stepped, AfterElection, Pc
  <2>2. Counted(s) /\ lost' \subseteq Gens
    BY <1>1, <1>8 DEF ElectFails, ElectFailsInto, Becomes, Counted
  <2> QED  BY <1>1, <1>3, <2>1, <2>2 DEF Pc
<1>9. CASE MeetRestart(s)
  <2> DEFINE w == [Goes(s, "stop") EXCEPT !.restarts = TRUE]
  <2>1. w \in WorkerState /\ w.pc = "stop" /\ w.gen = worker[s].gen
        /\ w.elected = worker[s].elected
    BY <1>1, <1>2 DEF WorkerState, Pc
  <2>2. Stepped(s, w, thread[s])
    BY <1>1, <1>5, <1>9, <2>1 DEF MeetRestart, Becomes, Stepped, AfterElection
  <2> QED  BY <1>1, <1>9, <2>1, <2>2 DEF MeetRestart, Counted
<1>10. CASE Raise(s)
  <2>1. Stepped(s, Goes(s, "stop"), thread[s])
    BY <1>1, <1>2, <1>5, <1>10 DEF Raise, Loses, Becomes, Stepped, AfterElection, Pc
  <2> QED  BY <1>1, <1>2, <1>10, <2>1 DEF Raise, Loses, Counted, Pc
<1>11. CASE Die(s)
  <2>1. Stepped(s, Process("gone"), NoThreads)
    BY <1>1, <1>3, <1>4, <1>11 DEF Die, Ends, Loses, Becomes, Stepped, AfterElection, Pc
  <2> QED  BY <1>1, <1>3, <1>4, <1>11, <2>1 DEF Die, Ends, Loses, Counted, Pc
<1>12. CASE SetStopping(s)
  <2> DEFINE k == Head(worker[s].monitors)
             t == [thread[s] EXCEPT ![k].stopping = Runs(s, k)]
  <2>1. k \in Kinds  BY <1>1, <1>12 DEF SetStopping
  <2>2. t \in [Kinds -> ThreadState] /\ \A l \in Kinds :
           t[l].published = thread[s][l].published /\ t[l].at = thread[s][l].at
    BY <1>1, <2>1 DEF ThreadState, Runs
  <2>3. thread' = [thread EXCEPT ![s] = t]
    BY <1>1, <1>12, <2>1 DEF SetStopping
  <2>4. thread[s] = NoThreads => t = NoThreads
    <3> SUFFICES ASSUME thread[s] = NoThreads PROVE t = NoThreads
      OBVIOUS
    <3>1. ~Runs(s, k) /\ NoThreads[k] = NoThread
      BY <2>1 DEF Runs, NoThreads, NoThread
    <3>2. t[k] = [NoThread EXCEPT !.stopping = FALSE]
      BY <1>1, <2>1, <3>1 DEF Runs
    <3>3. [NoThread EXCEPT !.stopping = FALSE] = NoThread
      <4>1. \A r \in ThreadState : ~r.stopping => [r EXCEPT !.stopping = FALSE] = r
        BY DEF ThreadState
      <4>2. NoThread \in ThreadState /\ ~NoThread.stopping
        BY ProcessTypes DEF NoThread
      <4> QED  BY <4>1, <4>2
    <3>4. \A m \in Kinds : t[m] = NoThreads[m]
      <4> SUFFICES ASSUME NEW m \in Kinds PROVE t[m] = NoThreads[m]
        OBVIOUS
      <4>1. CASE m = k  BY <3>1, <3>2, <3>3, <4>1
      <4>2. CASE m # k  BY <1>1, <4>2
      <4> QED  BY <4>1, <4>2
    <3> HIDE DEF t
    <3> QED  BY <1>4, <2>2, <3>4
  <2>5. Stepped(s, Goes(s, "join"), t)
    <3> HIDE DEF t
    <3> QED  BY <1>1, <1>2, <1>12, <2>2, <2>3, <2>4
             DEF SetStopping, Becomes, Stepped, AfterElection, Pc
  <2> QED  BY <1>1, <1>2, <1>12, <2>2, <2>5 DEF SetStopping, Counted, Pc
<1>13. CASE Join(s)
  <2> DEFINE w == [Goes(s, "stop") EXCEPT !.monitors = Tail(worker[s].monitors)]
  <2>1. Tail(worker[s].monitors) \in Seq(Kinds)
    BY <1>1, <1>13 DEF Join, Becomes, Types
  <2>2. w \in WorkerState /\ w.pc = "stop" /\ w.gen = worker[s].gen
        /\ w.elected = worker[s].elected
    BY <1>1, <1>2, <2>1 DEF WorkerState, Pc
  <2>3. worker' = [worker EXCEPT ![s] = w]
    BY <1>2, <1>13 DEF Join, Becomes, Pc
  <2>4. Stepped(s, w, thread[s])
    BY <1>1, <1>5, <1>13, <2>2, <2>3 DEF Join, Becomes, Stepped, AfterElection
  <2> QED  BY <1>1, <1>13, <2>2, <2>4 DEF Join, Counted
<1>14. CASE CloseClient(s)
  <2>1. Stepped(s, Goes(s, "close"), thread[s])
    BY <1>1, <1>2, <1>5, <1>14 DEF CloseClient, Becomes, Stepped, AfterElection, Pc
  <2> QED  BY <1>1, <1>2, <1>14, <2>1 DEF CloseClient, Counted, Pc
<1>15. CASE Exit(s)
  <2>1. PICK q \in {"gone", "again"} : Ends(s, "close", q)
    BY <1>15 DEF Exit
  <2>2. Stepped(s, Process(q), NoThreads)
    BY <1>1, <1>3, <1>4, <2>1 DEF Ends, Becomes, Stepped, AfterElection, Pc
  <2> QED  BY <1>1, <1>3, <1>4, <1>15, <2>1, <2>2 DEF Exit, Ends, Counted, Pc
<1> QED
  BY <1>6, <1>7, <1>8, <1>9, <1>10, <1>11, <1>12, <1>13, <1>14, <1>15
     DEF SlotStep, Construct, Close

(* One more worker in an election.                                         *)
LEMMA OneMore ==
  ASSUME Types, NEW s \in Slots
  PROVE  /\ worker[s].gen \in Gens /\ election[worker[s].gen] \in Nat
         /\ [election EXCEPT ![worker[s].gen] = election[worker[s].gen] + 1]
               \in [Gens -> Nat]
<1>1. worker[s].gen \in Gens  BY DEF Types, WorkerState
<1>2. election[worker[s].gen] + 1 \in Nat  BY <1>1 DEF Types
<1> QED  BY <1>1, <1>2 DEF Types

LEMMA NextCases ==
  ASSUME [Next]_vars
  PROVE  \/ RequestRestart
         \/ \E s \in Slots : SlotStep(s) \/ ThreadStep(s)
         \/ UNCHANGED vars
  BY DEF Next, SlotStep, ThreadStep

LEMMA TypesNext == Types /\ [Next]_vars => Types'
<1> SUFFICES ASSUME Types, [Next]_vars PROVE Types'
  OBVIOUS
<1>1. CASE RequestRestart
  BY <1>1, MonitorsOK DEF RequestRestart, Types, Gens
<1>2. ASSUME NEW s \in Slots, SlotStep(s), ~Elect(s) PROVE Types'
  <2>1. PICK w \in WorkerState, t \in [Kinds -> ThreadState] : Stepped(s, w, t)
    BY <1>2, SlotStepShape
  <2>2. Counted(s) /\ lost' \subseteq Gens  BY <1>2, SlotStepShape
  <2>3. election' \in [Gens -> Nat]
    BY <2>2, OneMore DEF Types, Counted
  <2> QED  BY <2>1, <2>2, <2>3 DEF Types, Stepped
<1>3. ASSUME NEW s \in Slots, Elect(s) PROVE Types'
  <2>1. PICK w \in WorkerState, t \in [Kinds -> ThreadState] :
               /\ worker' = [worker EXCEPT ![s] = w]
               /\ thread' = [thread EXCEPT ![s] = t]
               /\ w.pc = "serve"
    BY <1>3, ElectShape
  <2>2. election' \in [Gens -> Nat] /\ UNCHANGED <<counter, info, series, lost>>
    BY <1>3, ElectShape, OneMore
  <2> QED  BY <2>1, <2>2 DEF Types, AfterElection
<1>4. ASSUME NEW s \in Slots, ThreadStep(s) PROVE Types'
  BY <1>4, ThreadStepShape, MovedType DEF Types
<1>5. CASE UNCHANGED vars  BY <1>5 DEF vars, Types
<1> QED  BY <1>1, <1>2, <1>3, <1>4, <1>5, NextCases

-----------------------------------------------------------------------------
(* What a GPU is, before its time series.                                  *)

InfoInv ==
    /\ Types
    /\ InfoBeforeSeries
    /\ \A s \in Slots : thread[s][GPU].published => info

LEMMA InfoNext == InfoInv /\ [Next]_vars => InfoInv'
<1> SUFFICES ASSUME InfoInv, [Next]_vars PROVE InfoInv'
  OBVIOUS
<1>1. Types /\ Types' /\ GPU \in Kinds
  BY TypesNext DEF InfoInv, Kinds
<1>2. CASE RequestRestart
  BY <1>1, <1>2 DEF RequestRestart, InfoInv, InfoBeforeSeries
<1>3. ASSUME NEW s \in Slots, SlotStep(s), ~Elect(s) PROVE InfoInv'
  <2>1. PICK w \in WorkerState, t \in [Kinds -> ThreadState] : Stepped(s, w, t)
    BY <1>1, <1>3, SlotStepShape
  <2> QED  BY <1>1, <2>1 DEF Stepped, InfoInv, InfoBeforeSeries, Types
<1>4. ASSUME NEW s \in Slots, Elect(s) PROVE InfoInv'
  <2>1. PICK t \in [Kinds -> ThreadState] :
               /\ thread' = [thread EXCEPT ![s] = t]
               /\ ~t[GPU].published
    BY <1>1, <1>4, ElectShape
  <2>2. UNCHANGED <<info, series>>  BY <1>1, <1>4, ElectShape
  <2> QED  BY <1>1, <2>1, <2>2 DEF InfoInv, InfoBeforeSeries, Types
<1>5. ASSUME NEW s \in Slots, ThreadStep(s) PROVE InfoInv'
  <2>1. PICK k \in Kinds, t \in ThreadState : Moved(s, k, t)
    BY <1>1, <1>5, ThreadStepShape
  <2>2. /\ info' = info \/ info' = TRUE
        /\ series' = series \/ (series' = TRUE /\ info' = info /\ thread[s][GPU].published)
    BY <1>1, <1>5, ThreadStepShape
  <2>3. info => info'  BY <2>2
  <2>4. ASSUME NEW u \in Slots PROVE thread'[u][GPU].published => info'
    <3>1. CASE u = s /\ k = GPU
      BY <1>1, <2>1, <2>3, <3>1 DEF Moved, InfoInv, Types
    <3>2. CASE ~(u = s /\ k = GPU)
      <4>1. thread'[u][GPU] = thread[u][GPU]
        BY <1>1, <2>1, <3>2 DEF Moved, Types
      <4> QED  BY <2>3, <4>1 DEF InfoInv
    <3> QED  BY <3>1, <3>2
  <2>5. InfoBeforeSeries'
    BY <2>2, <2>3 DEF InfoInv, InfoBeforeSeries
  <2> QED  BY <1>1, <2>4, <2>5 DEF InfoInv
<1>6. CASE UNCHANGED vars
  BY <1>1, <1>6 DEF vars, InfoInv, InfoBeforeSeries
<1> QED  BY <1>2, <1>3, <1>4, <1>5, <1>6, NextCases

(* A reader that finds a GPU's time series finds the key that says what    *)
(* the GPU is, whatever failed.                                            *)
THEOREM InfoBeforeSeriesAlways == Spec => []InfoBeforeSeries
<1>1. Init => InfoInv
  <2>1. GPU \in Kinds  BY DEF Kinds
  <2> QED  BY <2>1, TypesInit
           DEF Init, InfoInv, InfoBeforeSeries, NoThreads, NoThread
<1>2. InfoInv => InfoBeforeSeries
  BY DEF InfoInv
<1> QED  BY <1>1, <1>2, InfoNext, PTL DEF Spec

-----------------------------------------------------------------------------
(* One worker has the monitors of a generation.                            *)

(* The elected worker of generation g serves, and its host and job         *)
(* monitors run.                                                           *)
Watches(t, g) ==
    worker[t].gen = g /\ worker[t].pc = "serve" /\ Monitoring(t)

(* A worker that took part in an election counts in it, one worker is      *)
(* elected by it, nobody tells the monitors of a worker that serves to     *)
(* stop, and the newest generation that has had an election is watched,    *)
(* unless it is lost.                                                      *)
ElectionInv ==
    /\ Types
    /\ \A s \in Slots :
          /\ worker[s].gen <= counter
          /\ worker[s].pc \in AfterElection => election[worker[s].gen] # 0
          /\ worker[s].pc = "serve" => \A k \in Kinds : ~thread[s][k].stopping
    /\ \A s, t \in Slots :
          worker[s].elected /\ worker[t].elected /\ worker[s].gen = worker[t].gen => s = t
    /\ \A g \in Gens : g > counter => election[g] = 0
    /\ election[counter] # 0 /\ counter \notin lost => \E t \in Slots : Watches(t, counter)

LEMMA ElectionInit == Init => ElectionInv
<1> SUFFICES ASSUME Init PROVE ElectionInv
  OBVIOUS
<1>1. Types  BY TypesInit
<1>2. 0 \in Gens /\ \A g \in Gens : g \in Nat  BY MonitorsOK DEF Gens
<1> QED  BY <1>1, <1>2 DEF Init, ElectionInv, Process, AfterElection

LEMMA SlotKeepsElections ==
  ASSUME ElectionInv, Types', NEW s \in Slots, SlotStep(s), ~Elect(s)
  PROVE  ElectionInv'
<1>1. /\ Types /\ counter \in Gens /\ counter \in Nat /\ election \in [Gens -> Nat]
      /\ \A u \in Slots : worker[u].gen \in Gens /\ worker[u].gen \in Nat
      /\ worker \in [Slots -> WorkerState]
      /\ thread \in [Slots -> [Kinds -> ThreadState]]
  <2>1. \A g \in Gens : g \in Nat  BY MonitorsOK DEF Gens
  <2>2. Types  BY DEF ElectionInv
  <2>3. \A u \in Slots : worker[u].gen \in Gens  BY <2>2 DEF Types, WorkerState
  <2> QED  BY <2>1, <2>2, <2>3 DEF ElectionInv, Types
<1>2. PICK w \in WorkerState, t \in [Kinds -> ThreadState] : Stepped(s, w, t)
  BY <1>1, SlotStepShape
<1>3. Counted(s)  BY <1>1, SlotStepShape
<1>4. /\ worker'[s] = w /\ thread'[s] = t /\ counter' = counter
      /\ \A u \in Slots \ {s} : worker'[u] = worker[u] /\ thread'[u] = thread[u]
  BY <1>1, <1>2 DEF Stepped
<1>5. \A g \in Gens : /\ election[g] # 0 => election'[g] # 0
                      /\ g # worker[s].gen => election'[g] = election[g]
                      /\ g \notin lost' /\ election'[g] # 0 => election[g] # 0
                      /\ g \notin lost' => g \notin lost
  BY <1>1, <1>3 DEF Counted
<1>6. \A u \in Slots : worker'[u].elected =>
         worker[u].elected /\ worker'[u].gen = worker[u].gen
  BY <1>2, <1>4 DEF Stepped
<1>7. ASSUME NEW u \in Slots
      PROVE  /\ worker'[u].gen <= counter'
             /\ worker'[u].pc \in AfterElection => election'[worker'[u].gen] # 0
             /\ worker'[u].pc = "serve" => \A k \in Kinds : ~thread'[u][k].stopping
  <2>1. CASE u = s
    <3>1. w.gen <= counter  BY <1>1, <1>2 DEF Stepped, ElectionInv
    <3>2. w.pc \in AfterElection => election'[w.gen] # 0
      BY <1>1, <1>2, <1>5 DEF Stepped, ElectionInv
    <3> QED  BY <1>2, <1>4, <2>1, <3>1, <3>2 DEF Stepped
  <2>2. CASE u # s
    BY <1>1, <1>4, <1>5, <2>2 DEF ElectionInv
  <2> QED  BY <2>1, <2>2
<1>8. \A u, v \in Slots :
         worker'[u].elected /\ worker'[v].elected /\ worker'[u].gen = worker'[v].gen => u = v
  BY <1>6 DEF ElectionInv
<1>9. \A g \in Gens : g > counter' => election'[g] = 0
  <2> SUFFICES ASSUME NEW g \in Gens, g > counter PROVE election'[g] = 0
    BY <1>4
  <2>1. election[g] = 0 /\ worker[s].gen <= counter  BY DEF ElectionInv
  <2>2. g # worker[s].gen  BY <1>1, <2>1 DEF Gens
  <2> QED  BY <1>5, <2>1, <2>2
<1>10. ASSUME election'[counter] # 0, counter \notin lost'
       PROVE  \E u \in Slots : Watches(u, counter)'
  <2>1. PICK u \in Slots : Watches(u, counter)
    BY <1>1, <1>5, <1>10 DEF ElectionInv
  <2>2. u # s
    <3>1. worker[u].pc = "serve" /\ worker[u].elected /\ worker[u].gen = counter
      BY <2>1 DEF Watches, Monitoring
    <3> QED  BY <1>1, <1>2, <1>10, <3>1 DEF Stepped
  <2>3. Watches(u, counter)'
    BY <1>4, <2>1, <2>2 DEF Watches, Monitoring, Runs
  <2> QED  BY <2>3
<1> QED  BY <1>4, <1>7, <1>8, <1>9, <1>10 DEF ElectionInv

LEMMA ElectKeepsElections ==
  ASSUME ElectionInv, Types', NEW s \in Slots, Elect(s)
  PROVE  ElectionInv'
<1> DEFINE g == worker[s].gen
<1>1. /\ Types /\ counter \in Gens /\ counter \in Nat /\ election \in [Gens -> Nat]
      /\ \A u \in Slots : worker[u].gen \in Gens /\ worker[u].gen \in Nat
      /\ worker \in [Slots -> WorkerState]
      /\ thread \in [Slots -> [Kinds -> ThreadState]]
      /\ g <= counter
  <2>1. \A h \in Gens : h \in Nat  BY MonitorsOK DEF Gens
  <2>2. Types  BY DEF ElectionInv
  <2>3. \A u \in Slots : worker[u].gen \in Gens  BY <2>2 DEF Types, WorkerState
  <2> QED  BY <2>1, <2>2, <2>3 DEF ElectionInv, Types
<1>2. PICK w \in WorkerState, t \in [Kinds -> ThreadState] :
               /\ worker' = [worker EXCEPT ![s] = w]
               /\ thread' = [thread EXCEPT ![s] = t]
               /\ w.pc = "serve" /\ w.gen = g
               /\ w.elected <=> election[g] = 0
               /\ \A k \in Kinds : ~t[k].stopping /\ ~t[k].published
               /\ w.elected => \A k \in Kinds \ {GPU} : t[k].at # "none"
  BY <1>1, ElectShape
<1>3. /\ election' = [election EXCEPT ![g] = election[g] + 1]
      /\ counter' = counter /\ lost' = lost
      /\ worker[s].pc = "elect"
  BY <1>1, ElectShape
<1>4. /\ worker'[s] = w /\ thread'[s] = t
      /\ \A u \in Slots \ {s} : worker'[u] = worker[u] /\ thread'[u] = thread[u]
  BY <1>1, <1>2
<1>5. /\ election'[g] # 0
      /\ \A h \in Gens : /\ h # g => election'[h] = election[h]
                         /\ election[h] # 0 => election'[h] # 0
  BY <1>1, <1>3
<1>6. ASSUME NEW u \in Slots
      PROVE  /\ worker'[u].gen <= counter'
             /\ worker'[u].pc \in AfterElection => election'[worker'[u].gen] # 0
             /\ worker'[u].pc = "serve" => \A k \in Kinds : ~thread'[u][k].stopping
  <2>1. CASE u = s  BY <1>1, <1>2, <1>3, <1>4, <1>5, <2>1
  <2>2. CASE u # s  BY <1>1, <1>3, <1>4, <1>5, <2>2 DEF ElectionInv
  <2> QED  BY <2>1, <2>2
<1>7. ASSUME NEW u \in Slots, worker[u].elected PROVE election[worker[u].gen] # 0
  BY <1>1, <1>7 DEF ElectionInv, Types
<1>8. \A u, v \in Slots :
         worker'[u].elected /\ worker'[v].elected /\ worker'[u].gen = worker'[v].gen => u = v
  <2>1. ASSUME NEW u \in Slots \ {s}, w.elected, worker[u].elected PROVE worker[u].gen # g
    BY <1>2, <1>7, <2>1
  <2> QED  BY <1>2, <1>4, <2>1 DEF ElectionInv
<1>9. \A h \in Gens : h > counter' => election'[h] = 0
  <2> SUFFICES ASSUME NEW h \in Gens, h > counter PROVE election'[h] = 0
    BY <1>3
  <2>1. h # g  BY <1>1 DEF Gens
  <2> QED  BY <1>5, <2>1 DEF ElectionInv
<1>10. ASSUME counter \notin lost, election'[counter] # 0
       PROVE  \E u \in Slots : Watches(u, counter)'
  <2>1. CASE g = counter /\ election[g] = 0
    BY <1>2, <1>3, <1>4, <2>1 DEF Watches, Monitoring, Runs
  <2>2. CASE ~(g = counter /\ election[g] = 0)
    <3>1. election[counter] # 0  BY <1>1, <1>5, <1>10, <2>2
    <3>2. PICK u \in Slots : Watches(u, counter)
      BY <1>10, <3>1 DEF ElectionInv
    <3>3. u # s  BY <1>3, <3>2 DEF Watches
    <3> QED  BY <1>3, <1>4, <3>2, <3>3 DEF Watches, Monitoring, Runs
  <2> QED  BY <2>1, <2>2
<1> QED  BY <1>3, <1>6, <1>8, <1>9, <1>10 DEF ElectionInv

LEMMA ElectionNext == ElectionInv /\ [Next]_vars => ElectionInv'
<1> SUFFICES ASSUME ElectionInv, [Next]_vars PROVE ElectionInv'
  OBVIOUS
<1>1. Types /\ Types'
  BY TypesNext DEF ElectionInv
<1>2. CASE RequestRestart
  <2>1. /\ counter \in Nat /\ counter' = counter + 1 /\ counter + 1 \in Gens
        /\ UNCHANGED <<election, info, series, worker, thread, lost>>
        /\ \A g \in Gens : g \in Nat
        /\ \A s \in Slots : worker[s].gen \in Nat
    BY <1>1, <1>2, MonitorsOK DEF RequestRestart, Types, Gens, WorkerState
  <2>2. election[counter + 1] = 0  BY <2>1 DEF ElectionInv
  <2> QED  BY <1>1, <2>1, <2>2 DEF ElectionInv
<1>3. ASSUME NEW s \in Slots, SlotStep(s), ~Elect(s) PROVE ElectionInv'
  BY <1>1, <1>3, SlotKeepsElections
<1>4. ASSUME NEW s \in Slots, Elect(s) PROVE ElectionInv'
  BY <1>1, <1>4, ElectKeepsElections
<1>5. ASSUME NEW s \in Slots, ThreadStep(s) PROVE ElectionInv'
  <2>1. PICK k \in Kinds, t \in ThreadState : Moved(s, k, t)
    BY <1>1, <1>5, ThreadStepShape
  <2>2. UNCHANGED <<counter, election, worker, lost>>
    BY <1>1, <1>5, ThreadStepShape
  <2>3. ASSUME NEW u \in Slots, worker[u].pc = "serve", NEW l \in Kinds
        PROVE  ~thread'[u][l].stopping /\ (Runs(u, l) => thread'[u][l].at # "none")
    <3>1. ~thread[u][l].stopping  BY <2>3 DEF ElectionInv
    <3>2. CASE u = s /\ l = k
      BY <1>1, <2>1, <3>1, <3>2 DEF Moved, Types
    <3>3. CASE ~(u = s /\ l = k)
      <4>1. thread'[u][l] = thread[u][l]  BY <1>1, <2>1, <3>3 DEF Moved, Types
      <4> QED  BY <3>1, <4>1 DEF Runs
    <3> QED  BY <3>2, <3>3
  <2>4. \A u \in Slots : Watches(u, counter) => Watches(u, counter)'
    BY <2>2, <2>3 DEF Watches, Monitoring, Runs
  <2> QED  BY <1>1, <2>2, <2>3, <2>4 DEF ElectionInv
<1>6. CASE UNCHANGED vars
  BY <1>1, <1>6 DEF vars, ElectionInv, Watches, Monitoring, Runs
<1> QED  BY <1>2, <1>3, <1>4, <1>5, <1>6, NextCases

(* A worker of the newest generation that serves has one elected peer on   *)
(* the node, or is it, and that one's monitors run; unless it is lost.     *)
THEOREM MonitoredUnlessLostAlways == Spec => []MonitoredUnlessLost
<1>1. ElectionInv => MonitoredUnlessLost
  <2> SUFFICES ASSUME ElectionInv, NEW s \in Slots, worker[s].pc = "serve",
                      worker[s].gen = counter, counter \notin lost
               PROVE  \E t \in Slots :
                         /\ Monitoring(t) /\ worker[t].gen = counter
                         /\ \A u \in Slots \ {t} :
                               worker[u].gen = counter => ~worker[u].elected
    BY DEF MonitoredUnlessLost
  <2>1. PICK t \in Slots : Watches(t, counter)
    BY DEF ElectionInv, AfterElection
  <2> QED  BY <2>1 DEF Watches, Monitoring, ElectionInv
<1> QED  BY <1>1, ElectionInit, ElectionNext, PTL DEF Spec

(* Only the elected worker has threads.                                    *)
ThreadsInv ==
    /\ ElectionInv
    /\ \A s \in Slots : worker[s].elected \/ thread[s] = NoThreads

LEMMA ThreadsNext == ThreadsInv /\ [Next]_vars => ThreadsInv'
<1> SUFFICES ASSUME ThreadsInv, [Next]_vars PROVE ThreadsInv'
  OBVIOUS
<1>1. Types /\ ElectionInv'
  BY ElectionNext DEF ThreadsInv, ElectionInv
<1>2. CASE RequestRestart
  BY <1>1, <1>2 DEF RequestRestart, ThreadsInv
<1>3. ASSUME NEW s \in Slots, SlotStep(s), ~Elect(s) PROVE ThreadsInv'
  <2>1. PICK w \in WorkerState, t \in [Kinds -> ThreadState] : Stepped(s, w, t)
    BY <1>1, <1>3, SlotStepShape
  <2>2. w.elected \/ t = NoThreads
    BY <2>1 DEF Stepped, ThreadsInv
  <2> QED  BY <1>1, <2>1, <2>2 DEF Stepped, ThreadsInv, Types
<1>4. ASSUME NEW s \in Slots, Elect(s) PROVE ThreadsInv'
  <2>1. PICK w \in WorkerState, t \in [Kinds -> ThreadState] :
               /\ worker' = [worker EXCEPT ![s] = w]
               /\ thread' = [thread EXCEPT ![s] = t]
               /\ w.elected \/ t = NoThreads
    BY <1>1, <1>4, ElectShape
  <2> QED  BY <1>1, <2>1 DEF ThreadsInv, Types
<1>5. ASSUME NEW s \in Slots, ThreadStep(s) PROVE ThreadsInv'
  <2>1. PICK k \in Kinds, t \in ThreadState : Moved(s, k, t)
    BY <1>1, <1>5, ThreadStepShape
  <2>2. worker' = worker  BY <1>1, <1>5, ThreadStepShape
  <2>3. worker[s].elected
    BY <2>1 DEF Moved, ThreadsInv, NoThreads, NoThread
  <2> QED  BY <1>1, <2>1, <2>2, <2>3 DEF Moved, ThreadsInv, Types
<1>6. CASE UNCHANGED vars
  BY <1>1, <1>6 DEF vars, ThreadsInv
<1> QED  BY <1>2, <1>3, <1>4, <1>5, <1>6, NextCases

(* No two workers of a generation sample the node, whatever failed, died   *)
(* or restarted in between: threads are those of an elected worker, and    *)
(* the counter elects one per generation.                                  *)
THEOREM OneMonitorAlways == Spec => []OneMonitorPerGeneration
<1>1. Init => ThreadsInv
  BY ElectionInit DEF Init, ThreadsInv
<1>2. ThreadsInv => OneMonitorPerGeneration
  <2> SUFFICES ASSUME ThreadsInv, NEW s \in Slots, NEW t \in Slots, s # t,
                      worker[s].gen = worker[t].gen,
                      NEW k \in Kinds, NEW l \in Kinds, Runs(s, k), Runs(t, l)
               PROVE  FALSE
    BY DEF OneMonitorPerGeneration
  <2>1. worker[s].elected /\ worker[t].elected
    BY DEF ThreadsInv, Runs, NoThreads, NoThread
  <2> QED  BY <2>1 DEF ThreadsInv, ElectionInv
<1> QED  BY <1>1, <1>2, ThreadsNext, PTL DEF Spec

-----------------------------------------------------------------------------
(* The count of an election.                                               *)

(* The worker w may still count in the election of generation g, the       *)
(* counter being c: one that has no generation yet, or that restarts, gets *)
(* a generation that is not older than the counter; and one at its         *)
(* election counts in its own.                                             *)
MayTake(w, c, g) ==
    \/ w.pc \in {"boot", "again"} /\ c <= g
    \/ w.pc = "elect" /\ (w.gen = g \/ (c <= g /\ w.gen < g))
    \/ w.pc \in AfterElection /\ c <= g /\ w.gen < g

(* Only a worker that met a newer generation restarts.                     *)
RestartsLate(w, c) == w.restarts => w.pc \in {"stop", "join", "close"} /\ w.gen < c

Takers(g) == {s \in Slots : MayTake(worker[s], counter, g)}

(* The workers that counted in an election, and those that still may, are  *)
(* no more than the slots.                                                 *)
CountInv ==
    /\ Types
    /\ \A s \in Slots : RestartsLate(worker[s], counter)
    /\ \A g \in Gens : election[g] + Cardinality(Takers(g)) <= Cardinality(Slots)

(* The steps of a slot give no worker another election, and count it once. *)
Turns(s, w) ==
    /\ worker' = [worker EXCEPT ![s] = w]
    /\ counter' = counter
    /\ RestartsLate(w, counter)
    /\ \A g \in Gens : MayTake(w, counter, g) => MayTake(worker[s], counter, g)
    /\ \/ election' = election
       \/ LET g == worker[s].gen IN
          /\ election' = [election EXCEPT ![g] = election[g] + 1]
          /\ MayTake(worker[s], counter, g) /\ ~MayTake(w, counter, g)

LEMMA TurnShape ==
  ASSUME CountInv, NEW s \in Slots, SlotStep(s)
  PROVE  \E w \in WorkerState : Turns(s, w)
<1>1. /\ worker[s] \in WorkerState /\ worker[s].gen \in Gens /\ counter \in Gens
      /\ worker[s].monitors \in Seq(Kinds)
      /\ worker \in [Slots -> WorkerState]
      /\ RestartsLate(worker[s], counter)
      /\ \A g \in Gens : g \in Nat
  BY MonitorsOK DEF CountInv, Types, WorkerState, Gens
<1>2. \A p \in Pc : /\ Goes(s, p) \in WorkerState /\ Goes(s, p).pc = p
                    /\ Goes(s, p).gen = worker[s].gen
                    /\ Goes(s, p).restarts = worker[s].restarts
                    /\ Goes(s, p).monitors = worker[s].monitors
  BY <1>1 DEF Goes, WorkerState
<1>3. \A p \in Pc : Process(p) \in WorkerState /\ Process(p).pc = p
                    /\ ~Process(p).restarts
  BY ProcessTypes DEF Process
<1>4. ASSUME NEW w \in WorkerState, worker' = [worker EXCEPT ![s] = w],
             UNCHANGED <<counter, election>>, RestartsLate(w, counter),
             \A g \in Gens : MayTake(w, counter, g) => MayTake(worker[s], counter, g)
      PROVE  Turns(s, w)
  BY <1>4 DEF Turns
<1>5. ASSUME NEW w \in WorkerState, worker' = [worker EXCEPT ![s] = w],
             UNCHANGED <<counter, election>>,
             worker[s].pc \in AfterElection, w.pc \in AfterElection,
             w.gen = worker[s].gen, RestartsLate(w, counter)
      PROVE  Turns(s, w)
  BY <1>4, <1>5 DEF MayTake, AfterElection
<1>6. CASE StartWorker(s)
  <2>1. /\ worker' = [worker EXCEPT ![s] = Process("boot")] /\ worker[s].pc = "again"
        /\ UNCHANGED <<counter, election>>
    BY <1>6 DEF StartWorker, Becomes
  <2>2. Process("boot") \in WorkerState /\ Process("boot").pc = "boot"
        /\ ~Process("boot").restarts
    BY <1>3 DEF Pc
  <2>3. Turns(s, Process("boot"))
    BY <1>4, <2>1, <2>2 DEF MayTake, RestartsLate, AfterElection
  <2> QED  BY <2>2, <2>3
<1>7. CASE ReadGeneration(s)
  <2> DEFINE w == [Goes(s, "elect") EXCEPT !.gen = counter]
  <2>1. /\ w \in WorkerState /\ w.pc = "elect" /\ w.gen = counter
        /\ w.restarts = worker[s].restarts
    BY <1>1, <1>2 DEF WorkerState, Pc
  <2>2. /\ worker' = [worker EXCEPT ![s] = w] /\ worker[s].pc = "boot"
        /\ UNCHANGED <<counter, election>>
    BY <1>7 DEF ReadGeneration, Becomes
  <2> HIDE DEF w
  <2>3. \A g \in Gens : MayTake(w, counter, g) => MayTake(worker[s], counter, g)
    BY <1>1, <2>1, <2>2 DEF MayTake, AfterElection
  <2>4. RestartsLate(w, counter)
    BY <1>1, <2>1, <2>2 DEF RestartsLate
  <2>5. Turns(s, w)
    BY <1>4, <2>1, <2>2, <2>3, <2>4
  <2> QED  BY <2>1, <2>5
<1>8. CASE Elect(s)
  <2> DEFINE g == worker[s].gen
  <2>1. /\ worker[s].pc = "elect" /\ counter' = counter
        /\ election' = [election EXCEPT ![g] = election[g] + 1]
    BY <1>8 DEF Elect, ElectFor, Becomes, CountInv, Types
  <2>2. PICK started \in IF election'[g] = 1 THEN StartedLists ELSE {<<>>} :
           worker' = [worker EXCEPT ![s] = [Goes(s, "serve") EXCEPT
                                    !.elected = (election'[g] = 1),
                                    !.monitors = started]]
    BY <1>8 DEF Elect, ElectFor, Becomes
  <2> DEFINE w == [Goes(s, "serve") EXCEPT !.elected = (election'[g] = 1),
                                           !.monitors = started]
  <2>3. started \in Seq(Kinds)
    BY <2>2, StartedTypes
  <2>4. w \in WorkerState /\ w.pc = "serve" /\ w.gen = g /\ w.restarts = worker[s].restarts
    BY <1>1, <2>3 DEF Goes, WorkerState, Pc
  <2>5. worker' = [worker EXCEPT ![s] = w]
    BY <2>2
  <2> HIDE DEF w
  <2>6. /\ \A h \in Gens : MayTake(w, counter, h) => MayTake(worker[s], counter, h)
        /\ MayTake(worker[s], counter, g) /\ ~MayTake(w, counter, g)
    BY <1>1, <2>1, <2>4 DEF MayTake, AfterElection
  <2>7. RestartsLate(w, counter)
    BY <1>1, <2>1, <2>4 DEF RestartsLate
  <2>8. Turns(s, w)
    BY <2>1, <2>5, <2>6, <2>7 DEF Turns
  <2> QED  BY <2>4, <2>8
<1>9. CASE ElectFails(s)
  <2>1. /\ worker' = [worker EXCEPT ![s] = Process("gone")] /\ worker[s].pc = "elect"
        /\ counter' = counter
        /\ \/ election' = election
           \/ election' = [election EXCEPT ![worker[s].gen] = election[worker[s].gen] + 1]
    BY <1>1, <1>9 DEF ElectFails, ElectFailsInto, Becomes, CountInv, Types
  <2>2. Process("gone") \in WorkerState /\ Process("gone").pc = "gone"
        /\ ~Process("gone").restarts
    BY <1>3 DEF Pc
  <2>3. \A g \in Gens : ~MayTake(Process("gone"), counter, g)
    BY <2>2 DEF MayTake, AfterElection
  <2>4. MayTake(worker[s], counter, worker[s].gen)
    BY <2>1 DEF MayTake
  <2>5. RestartsLate(Process("gone"), counter)
    BY <2>2 DEF RestartsLate
  <2>6. Turns(s, Process("gone"))
    BY <1>1, <2>1, <2>3, <2>4, <2>5 DEF Turns
  <2> QED  BY <2>2, <2>6
<1>10. CASE MeetRestart(s)
  <2> DEFINE w == [Goes(s, "stop") EXCEPT !.restarts = TRUE]
  <2>1. w \in WorkerState /\ w.pc = "stop" /\ w.gen = worker[s].gen
    BY <1>1, <1>2 DEF WorkerState, Pc
  <2>2. /\ worker' = [worker EXCEPT ![s] = w] /\ worker[s].pc = "serve"
        /\ UNCHANGED <<counter, election>> /\ worker[s].gen < counter
    BY <1>10 DEF MeetRestart, Becomes
  <2> HIDE DEF w
  <2>3. Turns(s, w)
    BY <1>5, <2>1, <2>2 DEF RestartsLate, AfterElection
  <2> QED  BY <2>1, <2>3
<1>11. CASE Raise(s) \/ SetStopping(s) \/ CloseClient(s)
  <2>1. PICK p \in {"stop", "join", "close"} :
           /\ worker' = [worker EXCEPT ![s] = Goes(s, p)]
           /\ worker[s].pc \in AfterElection
           /\ UNCHANGED <<counter, election>>
    BY <1>11 DEF Raise, SetStopping, CloseClient, Becomes, AfterElection
  <2>2. /\ Goes(s, p) \in WorkerState /\ Goes(s, p).pc = p
        /\ Goes(s, p).gen = worker[s].gen /\ Goes(s, p).restarts = worker[s].restarts
    BY <1>2 DEF Pc
  <2>3. Turns(s, Goes(s, p))
    BY <1>1, <1>5, <2>1, <2>2 DEF RestartsLate, AfterElection
  <2> QED  BY <2>2, <2>3
<1>12. CASE Die(s)
  <2>1. /\ worker' = [worker EXCEPT ![s] = Process("gone")]
        /\ UNCHANGED <<counter, election>>
    BY <1>12 DEF Die, Ends, Becomes
  <2>2. Process("gone") \in WorkerState /\ Process("gone").pc = "gone"
        /\ ~Process("gone").restarts
    BY <1>3 DEF Pc
  <2>3. Turns(s, Process("gone"))
    BY <1>4, <2>1, <2>2 DEF MayTake, RestartsLate, AfterElection
  <2> QED  BY <2>2, <2>3
<1>13. CASE Join(s)
  <2> DEFINE w == [Goes(s, "stop") EXCEPT !.monitors = Tail(worker[s].monitors)]
  <2>1. Tail(worker[s].monitors) \in Seq(Kinds)
    BY <1>1, <1>13 DEF Join, Becomes, CountInv, Types
  <2>2. w \in WorkerState /\ w.pc = "stop" /\ w.gen = worker[s].gen
        /\ w.restarts = worker[s].restarts
    BY <1>1, <1>2, <2>1 DEF WorkerState, Pc
  <2>3. /\ worker' = [worker EXCEPT ![s] = w] /\ worker[s].pc = "join"
        /\ UNCHANGED <<counter, election>>
    BY <1>2, <1>13 DEF Join, Becomes, Pc
  <2> HIDE DEF w
  <2>4. Turns(s, w)
    BY <1>1, <1>5, <2>2, <2>3 DEF RestartsLate, AfterElection
  <2> QED  BY <2>2, <2>4
<1>14. CASE Exit(s)
  <2>1. PICK q \in {"gone", "again"} :
           /\ worker' = [worker EXCEPT ![s] = Process(q)] /\ worker[s].pc = "close"
           /\ UNCHANGED <<counter, election>>
           /\ q = "again" => worker[s].restarts
    BY <1>14 DEF Exit, Ends, Becomes
  <2>2. Process(q) \in WorkerState /\ Process(q).pc = q /\ ~Process(q).restarts
    BY <1>3 DEF Pc
  <2>3. \A g \in Gens : MayTake(Process(q), counter, g) => MayTake(worker[s], counter, g)
    <3> SUFFICES ASSUME NEW g \in Gens, MayTake(Process(q), counter, g)
                 PROVE  MayTake(worker[s], counter, g)
      OBVIOUS
    <3>1. q = "again" /\ counter <= g
      BY <2>1, <2>2 DEF MayTake, AfterElection
    <3>2. worker[s].gen < counter
      BY <1>1, <2>1, <3>1 DEF RestartsLate
    <3>3. worker[s].gen < g
      BY <1>1, <3>1, <3>2
    <3> QED  BY <2>1, <3>1, <3>3 DEF MayTake, AfterElection
  <2>4. Turns(s, Process(q))
    BY <1>4, <2>1, <2>2, <2>3 DEF RestartsLate
  <2> QED  BY <2>2, <2>4
<1> QED
  BY <1>6, <1>7, <1>8, <1>9, <1>10, <1>11, <1>12, <1>13, <1>14 DEF SlotStep, Construct, Close

LEMMA TakersFinite ==
  /\ IsFiniteSet(Slots) /\ Cardinality(Slots) \in Nat
  /\ \A g \in Gens : IsFiniteSet(Takers(g)) /\ Cardinality(Takers(g)) \in Nat
                     /\ Cardinality(Takers(g)) <= Cardinality(Slots)
<1>1. IsFiniteSet(Slots) /\ Cardinality(Slots) \in Nat
  BY MonitorsOK, FS_CardinalityType
<1>2. ASSUME NEW g \in Gens
      PROVE  IsFiniteSet(Takers(g)) /\ Cardinality(Takers(g)) \in Nat
             /\ Cardinality(Takers(g)) <= Cardinality(Slots)
  <2>1. Takers(g) \subseteq Slots
    BY DEF Takers
  <2> QED  BY <1>1, <2>1, FS_Subset, FS_CardinalityType
<1> QED  BY <1>1, <1>2

LEMMA CountInit == Init => CountInv
<1> SUFFICES ASSUME Init PROVE CountInv
  OBVIOUS
<1>1. Types
  BY TypesInit
<1>2. \A s \in Slots : RestartsLate(worker[s], counter)
  BY DEF Init, Process, RestartsLate
<1>3. ASSUME NEW g \in Gens PROVE election[g] + Cardinality(Takers(g)) <= Cardinality(Slots)
  <2>1. election[g] = 0
    BY DEF Init
  <2> QED  BY <2>1, TakersFinite
<1> QED  BY <1>1, <1>2, <1>3 DEF CountInv

(* Fewer that may count, and the same that did.                            *)
LEMMA FewerTakers ==
  ASSUME CountInv, NEW g \in Gens, Takers(g)' \subseteq Takers(g), election'[g] = election[g]
  PROVE  election'[g] + Cardinality(Takers(g)') <= Cardinality(Slots)
<1>1. /\ Cardinality(Takers(g)') \in Nat /\ Cardinality(Takers(g)') <= Cardinality(Takers(g))
  BY TakersFinite, FS_Subset, FS_CardinalityType
<1>2. /\ election[g] \in Nat /\ Cardinality(Takers(g)) \in Nat /\ Cardinality(Slots) \in Nat
      /\ election[g] + Cardinality(Takers(g)) <= Cardinality(Slots)
  BY TakersFinite DEF CountInv, Types
<1> QED  BY <1>1, <1>2

LEMMA CountNext == CountInv /\ [Next]_vars => CountInv'
<1> SUFFICES ASSUME CountInv, [Next]_vars PROVE CountInv'
  OBVIOUS
<1>1. Types /\ Types'
  BY TypesNext DEF CountInv
<1>2. /\ counter \in Nat /\ \A g \in Gens : g \in Nat
      /\ \A s \in Slots : worker[s].gen \in Nat /\ RestartsLate(worker[s], counter)
  BY <1>1, MonitorsOK DEF CountInv, Types, WorkerState, Gens
<1>3. ASSUME UNCHANGED <<counter, election, worker>> PROVE CountInv'
  BY <1>1, <1>3 DEF CountInv, Takers
<1>4. CASE RequestRestart
  <2>1. counter' = counter + 1 /\ UNCHANGED <<election, worker>>
    BY <1>4 DEF RequestRestart
  <2>2. \A s \in Slots : RestartsLate(worker'[s], counter')
    BY <1>2, <2>1 DEF RestartsLate
  <2>3. ASSUME NEW g \in Gens PROVE Takers(g)' \subseteq Takers(g)
    <3>1. counter' <= g => counter <= g
      BY <1>2, <2>1
    <3> QED  BY <2>1, <3>1 DEF Takers, MayTake
  <2> QED  BY <1>1, <2>1, <2>2, <2>3, FewerTakers DEF CountInv
<1>5. ASSUME NEW s \in Slots, SlotStep(s) PROVE CountInv'
  <2>1. PICK w \in WorkerState : Turns(s, w)
    BY <1>5, TurnShape
  <2>2. /\ worker'[s] = w /\ counter' = counter
        /\ \A u \in Slots \ {s} : worker'[u] = worker[u]
    BY <1>1, <2>1 DEF Turns, Types
  <2>3. \A u \in Slots : RestartsLate(worker'[u], counter')
    BY <1>2, <2>1, <2>2 DEF Turns
  <2>4. ASSUME NEW g \in Gens PROVE Takers(g)' \subseteq Takers(g)
    <3>1. MayTake(w, counter, g) => MayTake(worker[s], counter, g)
      BY <2>1 DEF Turns
    <3>2. ASSUME NEW u \in Slots, MayTake(worker'[u], counter', g)
          PROVE  MayTake(worker[u], counter, g)
      BY <2>2, <3>1, <3>2
    <3> QED  BY <3>2 DEF Takers
  <2>5. ASSUME NEW g \in Gens
        PROVE  election'[g] + Cardinality(Takers(g)') <= Cardinality(Slots)
    <3>1. CASE election'[g] = election[g]
      BY <2>4, <3>1, FewerTakers
    <3>2. CASE election'[g] # election[g]
      <4>1. /\ g = worker[s].gen /\ election'[g] = election[g] + 1
            /\ MayTake(worker[s], counter, g) /\ ~MayTake(w, counter, g)
        BY <1>1, <2>1, <3>2 DEF Turns, Types
      <4>2. s \in Takers(g) /\ s \notin Takers(g)'
        BY <2>2, <4>1 DEF Takers
      <4>3. Takers(g)' \subseteq Takers(g) \ {s}
        BY <2>4, <4>2
      <4>4. /\ IsFiniteSet(Takers(g) \ {s})
            /\ Cardinality(Takers(g) \ {s}) = Cardinality(Takers(g)) - 1
        BY <4>2, TakersFinite, FS_RemoveElement
      <4>5. Cardinality(Takers(g)') \in Nat
            /\ Cardinality(Takers(g)') <= Cardinality(Takers(g) \ {s})
        BY <4>3, <4>4, FS_Subset, FS_CardinalityType
      <4>6. /\ election[g] \in Nat /\ Cardinality(Takers(g)) \in Nat
            /\ Cardinality(Slots) \in Nat
            /\ election[g] + Cardinality(Takers(g)) <= Cardinality(Slots)
        BY <1>1, TakersFinite DEF CountInv, Types
      <4> QED  BY <4>1, <4>4, <4>5, <4>6
    <3> QED  BY <3>1, <3>2
  <2> QED  BY <1>1, <2>3, <2>5 DEF CountInv
<1>6. ASSUME NEW s \in Slots, ThreadStep(s) PROVE CountInv'
  BY <1>1, <1>3, <1>6, ThreadStepShape
<1>7. CASE UNCHANGED vars
  BY <1>3, <1>7 DEF vars
<1> QED  BY <1>4, <1>5, <1>6, <1>7, NextCases

(* The types; and each run of the worker script takes part once at most in *)
(* the election of a generation, however its workers restart and fail.     *)
THEOREM TypeCorrect == Spec => []TypeOK
<1>1. CountInv => TypeOK
  <2> SUFFICES ASSUME CountInv PROVE TypeOK
    OBVIOUS
  <2>1. ASSUME NEW g \in Gens PROVE election[g] \in 0..Cardinality(Slots)
    <3>1. /\ election[g] \in Nat /\ Cardinality(Takers(g)) \in Nat
          /\ Cardinality(Slots) \in Nat
          /\ election[g] + Cardinality(Takers(g)) <= Cardinality(Slots)
      BY TakersFinite DEF CountInv, Types
    <3> QED  BY <3>1
  <2>2. election \in [Gens -> 0..Cardinality(Slots)]
    BY <2>1 DEF CountInv, Types
  <2> QED  BY <2>2 DEF CountInv, Types, TypeOK
<1> QED  BY <1>1, CountInit, CountNext, PTL DEF Spec

=============================================================================
