---------------------------- MODULE PilotJobsProofs ----------------------------
(* Proofs about PilotJobs, for every value of its constants. *)
EXTENDS PilotJobs, TLAPS

-----------------------------------------------------------------------------
(* Types.                                                                  *)

Index == 0..MaxJobs-1

Types ==
    /\ TypeOK
    /\ jobs \in [Groups -> Seq(Index)]
    /\ phase = "publish" => jobs[group] # <<>>

Queued(j) == slurm[j] = "queued"

(* What the driver still adds fits the bound on the names; it shrinks a    *)
(* group that is too large.                                                *)
Room ==
    /\ phase \in {"add", "publish"} =>
          \/ count <= Len(jobs[group])
          \/ nextIndex[group] + count - Len(jobs[group]) <= MaxJobs
    /\ phase = "shrink" => count <= Len(jobs[group])

(* A name that was not given out is nobody's.                              *)
NamesLeft ==
    \A g \in Groups, i \in Index : i >= nextIndex[g] => slurm[<<g, i>>] = "none"

(* A batch script runs workers while it waits for srun, and reports its    *)
(* exit last.                                                              *)
ScriptInv ==
    /\ \A j \in Job : script[j] # "work" => workers[j] = 0
    /\ \A j \in exit : script[j] = "over"

(* While the commands work, each queued job is tracked or about to be      *)
(* canceled; and between squeue and scancel, stop() cancels all of them.   *)
TrackedInv ==
    ~faulted =>
        /\ \A j \in Job : Queued(j) => j \in AllTracked \cup doomed
        /\ phase = "stopcancel" => \A j \in Job : Queued(j) => j \in doomed
        /\ phase \notin {"scancel", "stopcancel"} => doomed = {}

LEMMA Indexes ==
  /\ Job = Groups \X Index
  /\ \A i \in Index : i \in Nat /\ i < MaxJobs
  /\ \A i \in Nat : i < MaxJobs => i \in Index
BY ConstantsOK DEF Job, Index

LEMMA SeqRange ==
  ASSUME NEW S, NEW s \in Seq(S)
  PROVE  /\ Range(s) = {s[k] : k \in 1..Len(s)}
         /\ Range(s) \subseteq S
BY DEF Range

LEMMA AppendRange ==
  ASSUME NEW S, NEW s \in Seq(S), NEW x \in S
  PROVE  /\ Append(s, x) \in Seq(S)
         /\ Append(s, x) # <<>>
         /\ Len(Append(s, x)) = Len(s) + 1
         /\ Range(s) \subseteq Range(Append(s, x))
         /\ x \in Range(Append(s, x))
<1> DEFINE a == Append(s, x)
<1>1. /\ a \in Seq(S) /\ Len(a) = Len(s) + 1 /\ Len(s) \in Nat
      /\ \A k \in 1..Len(s) : a[k] = s[k]
      /\ a[Len(s) + 1] = x
  OBVIOUS
<1> HIDE DEF a
<1>2. a # <<>>  BY <1>1
<1>3. Range(a) = {a[k] : k \in 1..Len(s) + 1}  BY <1>1, SeqRange
<1>4. ASSUME NEW y \in Range(s) PROVE y \in Range(a)
  <2>1. PICK k \in 1..Len(s) : y = s[k]  BY SeqRange
  <2>2. k \in 1..Len(s) + 1 /\ y = a[k]  BY <1>1, <2>1
  <2> QED  BY <1>3, <2>2
<1>5. x \in Range(a)
  <2>1. Len(s) + 1 \in 1..Len(s) + 1  BY <1>1
  <2> QED  BY <1>1, <1>3, <2>1
<1> QED  BY <1>1, <1>2, <1>4, <1>5 DEF a

(* A group that pops its newest jobs keeps the others.                     *)
LEMMA SplitRange ==
  ASSUME NEW S, NEW s \in Seq(S), NEW n \in Nat, n <= Len(s)
  PROVE  /\ SubSeq(s, 1, n) \in Seq(S)
         /\ Range(s) \subseteq Range(SubSeq(s, 1, n)) \cup Range(SubSeq(s, n + 1, Len(s)))
         /\ Range(SubSeq(s, n + 1, Len(s))) \subseteq S
<1> DEFINE a == SubSeq(s, 1, n)
           b == SubSeq(s, n + 1, Len(s))
<1>1. /\ Len(s) \in Nat
      /\ a \in Seq(S) /\ Len(a) = n /\ \A k \in 1..n : a[k] = s[k]
  OBVIOUS
<1>2. /\ b \in Seq(S) /\ Len(b) = Len(s) - n
      /\ \A k \in 1..Len(s) - n : b[k] = s[n + k]
  BY <1>1
<1> HIDE DEF a, b
<1>3. ASSUME NEW k \in 1..Len(s) PROVE s[k] \in Range(a) \cup Range(b)
  <2>1. CASE k <= n
    <3>1. k \in 1..Len(a) /\ a[k] = s[k]  BY <1>1, <2>1
    <3> QED  BY <1>1, <3>1, SeqRange
  <2>2. CASE k > n
    <3>1. k - n \in 1..Len(b) /\ b[k - n] = s[k]  BY <1>1, <1>2, <2>2
    <3> QED  BY <1>2, <3>1, SeqRange
  <2> QED  BY <1>1, <2>1, <2>2
<1>4. Range(s) \subseteq Range(a) \cup Range(b)  BY <1>3, SeqRange
<1>5. Range(b) \subseteq S  BY <1>2, SeqRange
<1> QED  BY <1>1, <1>4, <1>5 DEF a, b

LEMMA TrackedShape ==
  \A j \in Job : j \in AllTracked <=> \E g \in Groups : \E i \in Range(jobs[g]) : j = <<g, i>>
BY DEF AllTracked, Tracked

LEMMA Lengths ==
  ASSUME Types
  PROVE  /\ \A g \in Groups : Len(jobs[g]) \in Nat /\ nextIndex[g] \in Nat /\ jobs[g] \in Seq(Index)
         /\ group \in Groups /\ count \in Nat /\ MaxJobs \in Nat
BY ConstantsOK DEF Types, TypeOK

LEMMA TypesInit == Init => Types /\ Room
<1> SUFFICES ASSUME Init PROVE Types /\ Room
  OBVIOUS
<1>1. Range(<<>>) = {}  BY DEF Range
<1>2. \A g \in Groups : jobs[g] = <<>>  BY DEF Init
<1>3. /\ nextIndex \in [Groups -> 0..MaxJobs] /\ count \in 0..MaxJobs
      /\ workers \in [Job -> 0..Workers]
  BY ConstantsOK DEF Init
<1>4. jobs \in [Groups -> Seq(Index)]  BY DEF Init
<1>5. \A g \in Groups : Range(jobs[g]) \subseteq 0..MaxJobs-1  BY <1>1, <1>2
<1>6. TypeOK  BY <1>3, <1>5 DEF Init, TypeOK
<1> QED  BY <1>4, <1>6 DEF Init, Types, Room

(* The outcome of an sbatch for the next index.                            *)
LEMMA AddShape ==
  ASSUME Types, Room, AddJob
  PROVE  /\ nextIndex[group] \in Index
         /\ nextIndex' = [nextIndex EXCEPT ![group] = nextIndex[group] + 1]
         /\ nextIndex' \in [Groups -> 0..MaxJobs]
         /\ \/ slurm' = slurm
            \/ slurm' = [slurm EXCEPT ![<<group, nextIndex[group]>>] = "queued"]
         /\ \/ /\ jobs' = jobs /\ phase' = "idle" /\ faulted' = TRUE
            \/ /\ jobs' = [jobs EXCEPT ![group] = Append(jobs[group], nextIndex[group])]
               /\ phase' = "publish" /\ faulted' = faulted
               /\ slurm' = [slurm EXCEPT ![<<group, nextIndex[group]>>] = "queued"]
         /\ UNCHANGED <<group, count, doomed, closing, script, workers, keyVars>>
<1>1. /\ phase = "add" /\ Len(jobs[group]) < count
      /\ nextIndex' = [nextIndex EXCEPT ![group] = nextIndex[group] + 1]
      /\ Sbatch(nextIndex[group])
      /\ UNCHANGED <<group, count, doomed, closing, script, workers, keyVars>>
  BY DEF AddJob
<1>2. nextIndex[group] < MaxJobs  BY <1>1, Lengths DEF Room
<1>3. nextIndex[group] \in Index  BY <1>2, Lengths, Indexes
<1>4. nextIndex' \in [Groups -> 0..MaxJobs]
  BY <1>1, <1>2, Lengths DEF Types, TypeOK
<1> QED  BY <1>1, <1>3, <1>4 DEF Sbatch, Raise

LEMMA TypesStep ==
  ASSUME Types, Room, [Next]_vars
  PROVE  Types' /\ Room'
<1> USE Lengths DEF Types, TypeOK, Room, executorVars, slurmVars, keyVars, JobStep, Index
<1>1. ASSUME NEW g \in Groups, NEW n \in 0..MaxJobs, Scale(g, n) PROVE Types' /\ Room'
  <2>1. n \in Nat  BY ConstantsOK
  <2> QED  BY <1>1, <2>1 DEF Scale
<1>2. CASE AddJob
  <2>1. Types'
    <3>0. nextIndex[group] \in Index /\ jobs[group] \in Seq(Index)
      BY <1>2, AddShape
    <3>a. Append(jobs[group], nextIndex[group]) \in Seq(Index)
      BY ONLY <3>0
    <3>1. jobs' \in [Groups -> Seq(Index)]
      BY <1>2, <3>a, AddShape
    <3>2. \A g \in Groups : Range(jobs'[g]) \subseteq Index  BY <3>1, SeqRange
    <3>3. slurm' \in [Job -> {"none", "queued", "ending", "ended"}]
      BY <1>2, AddShape
    <3>4. phase' = "publish" => jobs'[group] # <<>>
      BY <1>2, AddShape, AppendRange
    <3> QED  BY <1>2, AddShape, <3>1, <3>2, <3>3, <3>4
  <2>2. Room'
    <3>1. CASE phase' = "idle"  BY <3>1
    <3>2. CASE phase' # "idle"
      <4>1. /\ jobs'[group] = Append(jobs[group], nextIndex[group])
            /\ phase' = "publish" /\ group' = group /\ count' = count
            /\ nextIndex'[group] = nextIndex[group] + 1
        BY <1>2, <3>2, AddShape
      <4>2. Len(jobs'[group]) = Len(jobs[group]) + 1
        BY <1>2, <4>1, AddShape, AppendRange
      <4>3. phase = "add" /\ Len(jobs[group]) < count  BY <1>2 DEF AddJob
      <4> QED  BY <4>1, <4>2, <4>3, SMTT(20)
    <3> QED  BY <3>1, <3>2
  <2> QED  BY <2>1, <2>2
<1>3. CASE PublishJob
  <2>1. Last(jobs[group]) \in Index  BY <1>3 DEF PublishJob, Last
  <2>2. <<group, Last(jobs[group])>> \in Job  BY <2>1, Indexes
  <2> QED  BY <1>3, <2>2 DEF PublishJob
<1>4. CASE EndAdding  BY <1>4 DEF EndAdding, Return
<1>5. CASE PopNewest
  <2>1. count <= Len(jobs[group])  BY <1>5 DEF PopNewest
  <2>a. SubSeq(jobs[group], 1, count) \in Seq(Index)
    BY <2>1, SplitRange
  <2>b. \/ jobs' = jobs
        \/ jobs' = [jobs EXCEPT ![group] = SubSeq(jobs[group], 1, count)]
    BY <1>5 DEF PopNewest, Pop
  <2>c. jobs' \in [Groups -> Seq(Index)]  BY <2>a, <2>b
  <2>d. doomed' \subseteq Listed \/ doomed' = doomed
    BY <1>5 DEF PopNewest, Pop
  <2>e. phase' \in {"idle", "scancel"} /\ faulted' \in BOOLEAN
    BY <1>5 DEF PopNewest, Pop, Return, Raise
  <2>2. /\ jobs' \in [Groups -> Seq(Index)] /\ doomed' \subseteq Job
        /\ phase' \in {"idle", "scancel"} /\ faulted' \in BOOLEAN
    BY <2>c, <2>d, <2>e DEF Listed
  <2>3. \A g \in Groups : Range(jobs'[g]) \subseteq Index  BY <2>2, SeqRange
  <2> QED
    BY <1>5, <2>2, <2>3 DEF PopNewest
<1>6. Signaled \in [Job -> {"none", "queued", "ending", "ended"}]
  BY DEF Signaled
<1>7. CASE CancelJobs  BY <1>6, <1>7 DEF CancelJobs, Return, Raise
<1>8. CASE Stop  BY <1>8 DEF Stop
<1>9. ASSUME Forget PROVE /\ jobs' \in [Groups -> Seq(Index)]
                          /\ \A g \in Groups : Range(jobs'[g]) \subseteq Index
                          /\ doomed' \subseteq Job /\ phase' \in {"idle", "closed"}
  <2>1. jobs' \in [Groups -> Seq(Index)]  BY <1>9 DEF Forget
  <2> QED  BY <1>9, <2>1, SeqRange DEF Forget
<1>10. CASE ListJobs
  <2>1. CASE Forget
    BY <1>9, <1>10, <2>1 DEF ListJobs, CancelThese
  <2>2. CASE ~Forget
    BY <1>10, <2>2 DEF ListJobs, CancelThese, Listed
  <2> QED  BY <2>1, <2>2
<1>11. CASE CancelAll
  BY <1>6, <1>9, <1>11 DEF CancelAll
<1>12. ASSUME NEW j \in Job, JobSteps(j) PROVE Types' /\ Room'
  <2>0. UNCHANGED <<nextIndex, jobs, phase, group, count, doomed, closing, info, faulted>>
    BY <1>12
    DEF JobSteps, StartScript, ReportStart, EndWorker, EndSrun, ReportExit, LimitJob, EndJob
  <2>1. /\ slurm' \in [Job -> {"none", "queued", "ending", "ended"}]
        /\ script' \in [Job -> {"none", "start", "work", "exit", "over"}]
        /\ start' \subseteq Job /\ exit' \subseteq Job
    BY <1>12
    DEF JobSteps, StartScript, ReportStart, EndWorker, EndSrun, ReportExit, LimitJob, EndJob
  <2>2. workers' \in [Job -> 0..Workers]
    BY <1>12, ConstantsOK
    DEF JobSteps, StartScript, ReportStart, EndWorker, EndSrun, ReportExit, LimitJob, EndJob
  <2> QED  BY <2>0, <2>1, <2>2
<1>13. CASE UNCHANGED vars  BY <1>13 DEF vars
<1> QED
  BY <1>1, <1>2, <1>3, <1>4, <1>5, <1>7, <1>8, <1>10, <1>11, <1>12, <1>13
  DEF Next, Executor

(* Every variable of PilotJobs keeps its type; with it, scale_jobs never   *)
(* gives out more names than the bound on them allows.                     *)
THEOREM TypeCorrect == Spec => []TypeOK
<1>1. Types /\ Room /\ [Next]_vars => (Types /\ Room)'
  BY TypesStep
<1>2. Types => TypeOK  BY DEF Types
<1> QED  BY <1>1, <1>2, TypesInit, PTL DEF Spec

-----------------------------------------------------------------------------
(* Names.                                                                  *)

(* Only AddJob takes a name, and only its job comes to Slurm.              *)
LEMMA SlurmShape ==
  ASSUME Types, [Next]_vars
  PROVE  \/ AddJob
         \/ /\ nextIndex' = nextIndex
            /\ \A j \in Job : slurm[j] = "none" => slurm'[j] = "none"
<1> USE DEF Types, TypeOK, executorVars, slurmVars, JobStep
<1>1. CASE UNCHANGED vars  BY <1>1 DEF vars
<1>2. CASE Executor /\ ~AddJob
  <2>1. nextIndex' = nextIndex /\ (slurm' = slurm \/ slurm' = Signaled)
    BY <1>2
    DEF Executor, Scale, PublishJob, EndAdding, PopNewest, CancelJobs, Stop, ListJobs,
        CancelThese, CancelAll
  <2> QED  BY <2>1 DEF Signaled
<1>3. ASSUME NEW j \in Job, JobSteps(j)
      PROVE  /\ nextIndex' = nextIndex
             /\ \A k \in Job : slurm[k] = "none" => slurm'[k] = "none"
  BY <1>3
  DEF JobSteps, StartScript, ReportStart, EndWorker, EndSrun, ReportExit, LimitJob, EndJob
<1> QED  BY <1>1, <1>2, <1>3 DEF Next

LEMMA NamesInit == Init => NamesLeft
BY Indexes DEF Init, NamesLeft

LEMMA NamesStep ==
  ASSUME Types, Room, NamesLeft, [Next]_vars
  PROVE  NamesLeft'
<1>1. CASE AddJob
  <2> SUFFICES ASSUME NEW g \in Groups, NEW i \in Index, i >= nextIndex'[g]
               PROVE  slurm'[<<g, i>>] = "none"
    BY DEF NamesLeft
  <2>1. i >= nextIndex[g] /\ (g = group => i # nextIndex[group])
    BY <1>1, AddShape, Lengths, Indexes
  <2>2. slurm[<<g, i>>] = "none"  BY <2>1 DEF NamesLeft
  <2>3. <<g, i>> \in Job /\ <<g, i>> # <<group, nextIndex[group]>>
    BY <2>1, Indexes
  <2>4. slurm \in [Job -> {"none", "queued", "ending", "ended"}]
    BY DEF Types, TypeOK
  <2> QED  BY <1>1, <2>2, <2>3, <2>4, AddShape
<1>2. CASE ~AddJob
  BY <1>2, SlurmShape, Indexes DEF NamesLeft
<1> QED  BY <1>1, <1>2

(* The names of pilot jobs are never given out again: not after a failed   *)
(* or an unanswered sbatch, and not after stop().                          *)
THEOREM NamesAlwaysFresh == Spec => NamesAreFresh
<1> DEFINE Inv == Types /\ Room /\ NamesLeft
<1>1. Init => Inv  BY TypesInit, NamesInit
<1>2. Inv /\ [Next]_vars => Inv'  BY TypesStep, NamesStep
<1>3. Inv /\ [Next]_vars
        => [\A g \in Groups :
              nextIndex'[g] # nextIndex[g] => slurm[<<g, nextIndex[g]>>] = "none"]_vars
  <2> SUFFICES ASSUME Inv, [Next]_vars, NEW g \in Groups, nextIndex'[g] # nextIndex[g]
               PROVE  slurm[<<g, nextIndex[g]>>] = "none"
    OBVIOUS
  <2>1. AddJob  BY SlurmShape
  <2>2. g = group /\ nextIndex[g] \in Index
    BY <2>1, AddShape, Lengths DEF Types, TypeOK
  <2> QED  BY <2>2, Indexes DEF NamesLeft
<1> QED  BY <1>1, <1>2, <1>3, PTL DEF Spec, NamesAreFresh

-----------------------------------------------------------------------------
(* Exits.                                                                  *)

LEMMA ScriptInit == Init => ScriptInv
BY DEF Init, ScriptInv

LEMMA ScriptStep ==
  ASSUME Types, ScriptInv, [Next]_vars
  PROVE  ScriptInv'
<1> USE DEF Types, TypeOK, ScriptInv, JobStep
<1>1. CASE Executor \/ UNCHANGED vars
  <2>1. UNCHANGED <<script, workers, exit>>
    BY <1>1
    DEF Executor, Scale, AddJob, PublishJob, EndAdding, PopNewest, CancelJobs, Stop, ListJobs,
        CancelThese, CancelAll, vars, slurmVars, keyVars
  <2> QED  BY <2>1
<1>2. ASSUME NEW j \in Job, JobSteps(j) PROVE ScriptInv'
  <2>1. CASE StartScript(j)  BY <2>1 DEF StartScript
  <2>2. CASE ReportStart(j)  BY <2>2 DEF ReportStart
  <2>3. CASE EndWorker(j)  BY <2>3 DEF EndWorker
  <2>4. CASE EndSrun(j)  BY <2>4 DEF EndSrun
  <2>5. CASE ReportExit(j)  BY <2>5 DEF ReportExit
  <2>6. CASE LimitJob(j)  BY <2>6 DEF LimitJob
  <2>7. CASE EndJob(j)  BY <2>7 DEF EndJob
  <2> QED  BY <1>2, <2>1, <2>2, <2>3, <2>4, <2>5, <2>6, <2>7 DEF JobSteps
<1> QED  BY <1>1, <1>2 DEF Next

(* "The pilot job's exit comes after theirs": a job whose exit key is      *)
(* there runs no worker, however it was ended.                             *)
THEOREM ExitAlwaysAfterWorkers == Spec => []ExitAfterWorkers
<1>1. Types /\ Room /\ ScriptInv /\ [Next]_vars => (Types /\ Room /\ ScriptInv)'
  BY TypesStep, ScriptStep
<1>2. Types /\ ScriptInv => ExitAfterWorkers
  BY DEF Types, TypeOK, ScriptInv, ExitAfterWorkers
<1> QED  BY <1>1, <1>2, TypesInit, ScriptInit, PTL DEF Spec

-----------------------------------------------------------------------------
(* No leaks.                                                               *)

LEMMA TrackedInit == Init => TrackedInv
BY DEF Init, TrackedInv, Queued

(* A step that tracks what it tracked and queues nothing.                  *)
LEMMA TrackedStay ==
  ASSUME TrackedInv,
         UNCHANGED <<jobs, faulted>>,
         doomed' = doomed,
         \A j \in Job : Queued(j)' => Queued(j),
         \/ phase' = phase
         \/ phase \notin {"scancel", "stopcancel"} /\ phase' \notin {"scancel", "stopcancel"}
  PROVE  TrackedInv'
<1>1. AllTracked' = AllTracked  BY DEF AllTracked, Tracked
<1> QED  BY <1>1 DEF TrackedInv, Queued

LEMMA TrackedStep ==
  ASSUME Types, Room, TrackedInv, [Next]_vars
  PROVE  TrackedInv'
<1> USE DEF executorVars, slurmVars, JobStep
<1>0. slurm \in [Job -> {"none", "queued", "ending", "ended"}]  BY DEF Types, TypeOK
<1>a. SUFFICES ASSUME ~faulted, ~faulted' PROVE TrackedInv'
  <2>1. faulted => faulted'
    BY DEF Next, Executor, Scale, AddJob, Sbatch, PublishJob, EndAdding, Return, Raise,
           PopNewest, Pop, CancelJobs, Stop, ListJobs, CancelThese, CancelAll, Forget,
           JobSteps, StartScript, ReportStart, EndWorker, EndSrun, ReportExit, LimitJob,
           EndJob, vars
  <2> QED  BY <1>a, <2>1 DEF TrackedInv
<1>1. CASE \/ \E g \in Groups, n \in 0..MaxJobs : Scale(g, n)
           \/ PublishJob \/ EndAdding \/ Stop
  <2>1. /\ UNCHANGED <<jobs, faulted, slurm>> /\ doomed' = doomed
        /\ phase \notin {"scancel", "stopcancel"} /\ phase' \notin {"scancel", "stopcancel"}
    BY <1>1 DEF Scale, PublishJob, EndAdding, Return, Stop
  <2> QED  BY <2>1, TrackedStay DEF Queued
<1>2. CASE AddJob
  <2> DEFINE i == nextIndex[group]
  <2>1. /\ i \in Index /\ jobs' = [jobs EXCEPT ![group] = Append(jobs[group], i)]
        /\ slurm' = [slurm EXCEPT ![<<group, i>>] = "queued"]
        /\ phase' = "publish" /\ doomed' = doomed /\ phase = "add"
    BY <1>2, <1>a, AddShape DEF AddJob
  <2>2. /\ Range(jobs[group]) \subseteq Range(Append(jobs[group], i))
        /\ i \in Range(Append(jobs[group], i))
    BY <2>1, Lengths, AppendRange
  <2>3. \A g \in Groups : Range(jobs[g]) \subseteq Range(jobs'[g])
    BY <2>1, <2>2, Lengths DEF Types
  <2>4. AllTracked \subseteq AllTracked'
    BY <2>3 DEF AllTracked, Tracked
  <2>5. i \in Range(jobs'[group])  BY <2>1, <2>2, Lengths DEF Types
  <2>6. <<group, i>> \in AllTracked'
    BY <2>5, Lengths DEF AllTracked, Tracked
  <2>7. \A j \in Job : Queued(j)' => Queued(j) \/ j = <<group, i>>
    BY <1>0, <2>1 DEF Queued
  <2> QED  BY <1>a, <2>1, <2>4, <2>6, <2>7 DEF TrackedInv
<1>3. CASE PopNewest
  <2> DEFINE s    == jobs[group]
             kept == SubSeq(s, 1, count)
             gone == SubSeq(s, count + 1, Len(s))
  <2>1. CASE ~Raise
    <3>1. /\ phase = "shrink" /\ Pop(kept, gone) /\ UNCHANGED slurm
      BY <1>3, <2>1 DEF PopNewest
    <3>2. /\ jobs' = [jobs EXCEPT ![group] = kept]
          /\ doomed' = {<<group, i>> : i \in Range(gone)} \cap Listed
          /\ phase' # "stopcancel" /\ (phase' # "scancel" => doomed' = {})
      BY <3>1 DEF Pop, Return
    <3>3. count <= Len(s) /\ s \in Seq(Index)  BY <3>1, Lengths DEF Room
    <3>4. Range(s) \subseteq Range(kept) \cup Range(gone)
      BY <3>3, Lengths, SplitRange
    <3> HIDE DEF kept, gone
    <3>5. ASSUME NEW j \in Job, Queued(j)' PROVE j \in AllTracked' \cup doomed'
      <4>1. Queued(j) /\ j \in Listed  BY <3>1, <3>5 DEF Queued, Listed
      <4>2. j \in AllTracked  BY <1>a, <3>1, <4>1 DEF TrackedInv
      <4>3. PICK g \in Groups : \E i \in Range(jobs[g]) : j = <<g, i>>
        BY <4>2, TrackedShape
      <4>4. PICK i \in Range(jobs[g]) : j = <<g, i>>  BY <4>3
      <4>5. CASE g = group /\ i \in Range(gone)
        BY <3>2, <4>1, <4>4, <4>5
      <4>6. CASE g # group \/ i \in Range(kept)
        <5>1. i \in Range(jobs'[g])
          BY <3>2, <4>4, <4>6, Lengths DEF Types
        <5> QED  BY <4>4, <5>1 DEF AllTracked, Tracked
      <4> QED  BY <3>4, <4>4, <4>5, <4>6
    <3> QED  BY <3>2, <3>5 DEF TrackedInv
  <2>2. CASE Raise  BY <1>a, <2>2 DEF Raise
  <2> QED  BY <2>1, <2>2
<1>4. CASE CancelJobs
  <2>1. /\ slurm' = Signaled /\ phase' = "idle" /\ doomed' = {} /\ jobs' = jobs
        /\ phase = "scancel"
    BY <1>4, <1>a DEF CancelJobs, Return, Raise
  <2>2. \A j \in Job : Queued(j)' => Queued(j) /\ j \notin doomed
    BY <2>1 DEF Signaled, Queued
  <2>3. AllTracked' = AllTracked  BY <2>1 DEF AllTracked, Tracked
  <2> QED  BY <1>a, <2>1, <2>2, <2>3 DEF TrackedInv
<1>5. CASE ListJobs
  <2>1. phase = "stop" /\ slurm' = slurm  BY <1>5 DEF ListJobs, CancelThese
  <2>2. \A j \in Job : Queued(j) => j \in AllTracked \cap Listed
    BY <1>a, <2>1 DEF TrackedInv, Queued, Listed
  <2>3. CASE AllTracked \cap Listed = {} /\ Forget
    <3>1. \A j \in Job : ~Queued(j)'  BY <2>1, <2>2, <2>3 DEF Queued
    <3> QED  BY <2>3, <3>1 DEF TrackedInv, Forget
  <2>4. CASE doomed' = AllTracked \cap Listed /\ phase' = "stopcancel" /\ UNCHANGED jobs
    <3>1. \A j \in Job : Queued(j)' => j \in doomed'  BY <2>1, <2>2, <2>4 DEF Queued
    <3> QED  BY <2>4, <3>1 DEF TrackedInv
  <2> QED  BY <1>5, <1>a, <2>3, <2>4 DEF ListJobs, CancelThese
<1>6. CASE CancelAll
  <2>1. slurm' = Signaled /\ Forget /\ phase = "stopcancel"
    BY <1>6, <1>a DEF CancelAll
  <2>2. \A j \in Job : ~Queued(j)'
    BY <1>a, <2>1 DEF TrackedInv, Queued, Signaled
  <2> QED  BY <2>1, <2>2 DEF TrackedInv, Forget
<1>7. ASSUME NEW j \in Job, JobSteps(j) PROVE TrackedInv'
  <2>1. UNCHANGED <<jobs, faulted, phase, doomed>>
    BY <1>7
    DEF JobSteps, StartScript, ReportStart, EndWorker, EndSrun, ReportExit, LimitJob, EndJob
  <2>2. \A k \in Job : Queued(k)' => Queued(k)
    BY <1>0, <1>7
    DEF JobSteps, StartScript, ReportStart, EndWorker, EndSrun, ReportExit, LimitJob,
        EndJob, Queued
  <2> QED  BY <2>1, <2>2, TrackedStay
<1>8. CASE UNCHANGED vars
  <2>1. UNCHANGED <<jobs, faulted, phase, doomed, slurm>>  BY <1>8 DEF vars
  <2> QED  BY <2>1, TrackedStay DEF Queued
<1> QED
  BY <1>1, <1>2, <1>3, <1>4, <1>5, <1>6, <1>7, <1>8 DEF Next, Executor

(* While every Slurm command works, the executor tracks every job that     *)
(* Slurm runs and nobody canceled, through scale_jobs, stop and close.     *)
THEOREM NeverLeaksWithoutFault == Spec => []NoLeakWithoutFault
<1>1. Types /\ Room /\ TrackedInv /\ [Next]_vars => (Types /\ Room /\ TrackedInv)'
  BY TypesStep, TrackedStep
<1>2. TrackedInv => NoLeakWithoutFault
  BY DEF TrackedInv, NoLeakWithoutFault, Queued
<1> QED  BY <1>1, <1>2, TypesInit, TrackedInit, PTL DEF Spec

=============================================================================
