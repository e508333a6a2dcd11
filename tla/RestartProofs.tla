--------------------------- MODULE RestartProofs ---------------------------
(***************************************************************************)
(* Proofs about Restart, for every value of its constants: first what the  *)
(* wait promises of the workers, then what code a worker runs, how often a *)
(* request restarts it, and how many tasks it claims before.               *)
(***************************************************************************)
EXTENDS Restart, TLAPS

-----------------------------------------------------------------------------
(* Types.                                                                  *)

LEMMA FieldTypes ==
  ASSUME NEW r \in WorkerState
  PROVE  /\ \A p \in Pc : [r EXCEPT !.pc = p] \in WorkerState
         /\ \A g \in Gens : [r EXCEPT !.gen = g] \in WorkerState
         /\ \A b \in BOOLEAN : [r EXCEPT !.read = b] \in WorkerState
         /\ \A b \in BOOLEAN : [r EXCEPT !.skip = b] \in WorkerState
         /\ \A l \in 0..2 : [r EXCEPT !.late = l] \in WorkerState
  BY DEF WorkerState

LEMMA LoadedTypes ==
  ASSUME NEW r \in WorkerState, NEW v \in 0..MaxVersion
  PROVE  /\ [r EXCEPT !.loaded.code = v] \in WorkerState
         /\ [r EXCEPT !.loaded.args = v] \in WorkerState
         /\ [r EXCEPT !.loaded.kwargs = v] \in WorkerState
  BY DEF WorkerState, Version

LEMMA ProcessType == \A p \in Pc : Process(p) \in WorkerState
  BY ConstantsOK DEF Process, WorkerState, Zero, Version, Gens

LEMMA TypeInit == Init => TypeOK
  BY ConstantsOK, ProcessType DEF Init, TypeOK, Zero, Unknown, Gens, Incs, Version,
     Answer, JobState, Phase, Pc

(* A step of one worker keeps the types if it leaves the worker, its       *)
(* incarnation and the server in theirs.                                   *)
LEMMA BecomesType ==
  ASSUME TypeOK, NEW s \in Slots, NEW p, NEW w \in WorkerState, Becomes(s, p, w),
         inc' \in [Slots -> Incs],
         counter' \in Gens, info' \subseteq Info, exited' \subseteq WorkerId
  PROVE  TypeOK'
  BY DEF TypeOK, Becomes, driverVars, promiseVars

LEMMA WorkerStepType ==
  ASSUME TypeOK, NEW s \in Slots, WorkerStep(s) PROVE TypeOK'
<1> DEFINE w == worker[s]
<1>1. w \in WorkerState /\ w.gen \in Gens /\ w.late \in 0..2 /\ w.read \in BOOLEAN
  BY DEF TypeOK, WorkerState
<1>2. \A p \in Pc : At(s, p) \in WorkerState
  BY <1>1, FieldTypes DEF At
<1> USE <1>1, <1>2, BecomesType, FieldTypes, ProcessType
    DEF TypeOK, Pc, serverVars
<1>3. CASE StartWorker(s)
  <2>1. inc' \in [Slots -> Incs]
    <3>1. CASE UNCHANGED inc  BY <3>1
    <3>2. CASE inc[s] < MaxInc /\ inc' = [inc EXCEPT ![s] = inc[s] + 1]
      <4>1. inc[s] + 1 \in Incs
        BY ONLY TypeOK, s \in Slots, <3>2, ConstantsOK DEF TypeOK, Incs
      <4> QED  BY <3>2, <4>1
    <3> QED  BY <1>3, <3>1, <3>2 DEF StartWorker
  <2>2. \E p \in {"off", "again"} : Becomes(s, p, Process("boot"))
    BY <1>3 DEF StartWorker
  <2>3. Process("boot") \in WorkerState  OBVIOUS
  <2> QED  BY ONLY TypeOK, <1>3, <2>1, <2>2, <2>3, BecomesType, s \in Slots
           DEF StartWorker, TypeOK, serverVars
<1>4. CASE ReadGeneration(s)  BY <1>4 DEF ReadGeneration
<1>5. CASE PublishIdentity(s)
  <2>1. [id |-> Id(s), gen |-> w.gen] \in Info
    BY DEF Info, WorkerId, Id
  <2>2. info' \subseteq Info  BY <1>5, <2>1 DEF PublishIdentity
  <2>3. Becomes(s, "identify", At(s, "build")) /\ At(s, "build") \in WorkerState
    BY <1>5 DEF PublishIdentity
  <2> QED  BY <1>5, <2>2, <2>3 DEF PublishIdentity
<1>6. CASE BuildActor(s)
  <2>1. disk.code \in 0..MaxVersion /\ disk.args \in 0..MaxVersion
        /\ disk.kwargs \in 0..MaxVersion
    BY DEF Version
  <2> QED  BY <1>6, <2>1, LoadedTypes DEF BuildActor
<1>7. CASE SkipRead(s)  BY <1>7 DEF SkipRead
<1>8. CASE ReadCounter(s)
  <2>1. CASE counter > w.gen  BY <1>8, <2>1 DEF ReadCounter
  <2>2. CASE ~(counter > w.gen)
    <3> DEFINE r == At(s, "claim")
    <3>1. [[r EXCEPT !.read = TRUE] EXCEPT !.skip = TRUE] \in WorkerState
      BY FieldTypes
    <3> QED  BY <1>8, <2>2, <3>1 DEF ReadCounter
  <2> QED  BY <2>1, <2>2
<1>9. CASE Claim(s)
  <2>1. (IF w.gen < counter /\ w.late < 2 THEN w.late + 1 ELSE w.late) \in 0..2
    BY ONLY w.late \in 0..2
  <2>2. At(s, "execute").late = w.late
    BY ONLY w \in WorkerState DEF At, WorkerState
  <2> QED  BY <1>9, <2>1, <2>2 DEF Claim
<1>10. CASE NoTask(s)  BY <1>10 DEF NoTask
<1>11. CASE Report(s)  BY <1>11 DEF Report
<1>12. CASE PublishExit(s)
  <2>1. /\ exited' \subseteq WorkerId /\ inc' \in [Slots -> Incs]
        /\ counter' \in Gens /\ info' \subseteq Info
    BY ONLY TypeOK, <1>12, s \in Slots DEF TypeOK, PublishExit, WorkerId, Id
  <2>2. CASE Becomes(s, "restart", At(s, "restarting"))  BY <2>1, <2>2
  <2>3. CASE Becomes(s, "stop", At(s, "stopping"))  BY <2>1, <2>3
  <2> QED  BY ONLY <1>12, <2>2, <2>3 DEF PublishExit
<1>13. CASE Close(s)  BY <1>13 DEF Close
<1> QED
  BY <1>3, <1>4, <1>5, <1>6, <1>7, <1>8, <1>9, <1>10, <1>11, <1>12, <1>13 DEF WorkerStep

LEMMA WorkerFaultType ==
  ASSUME TypeOK, NEW s \in Slots, WorkerFault(s) PROVE TypeOK'
<1>1. worker[s] \in WorkerState /\ worker[s].read \in BOOLEAN
  BY DEF TypeOK, WorkerState
<1>2. \A p \in Pc : At(s, p) \in WorkerState
  BY <1>1, FieldTypes DEF At
<1> USE <1>1, <1>2, BecomesType, FieldTypes, ProcessType
    DEF TypeOK, Pc, serverVars
<1>3. CASE KillWorker(s)  BY <1>3 DEF KillWorker
<1>4. CASE TermWorker(s)  BY <1>4 DEF TermWorker
<1>5. CASE ConstructorFails(s)  BY <1>5 DEF ConstructorFails
<1>6. CASE ReadFails(s)
  <2> DEFINE r == At(s, IF worker[s].read THEN "claim" ELSE "check")
  <2>1. [r EXCEPT !.skip = worker[s].read] \in WorkerState
    BY FieldTypes
  <2>2. [[r EXCEPT !.skip = worker[s].read] EXCEPT !.late = 0] \in WorkerState
    BY <2>1, FieldTypes, 0 \in 0..2
  <2> QED  BY <1>6, <2>2 DEF ReadFails
<1>7. CASE ReportFails(s)
  <2>1. At(s, "check").skip \in BOOLEAN
    BY DEF WorkerState
  <2> QED  BY <1>7, <2>1 DEF ReportFails, ReportOutlastsCheckInterval
<1>8. CASE HandlerFails(s)
  <2>1. [At(s, "check") EXCEPT !.late = 0] \in WorkerState
    BY FieldTypes, 0 \in 0..2
  <2> QED  BY <1>8, <2>1 DEF HandlerFails
<1>9. CASE TaskExits(s)  BY <1>9 DEF TaskExits
<1> QED  BY <1>3, <1>4, <1>5, <1>6, <1>7, <1>8, <1>9 DEF WorkerFault

LEMMA TypeNext == TypeOK /\ [Next]_vars => TypeOK'
<1> SUFFICES ASSUME TypeOK, [Next]_vars PROVE TypeOK'
  OBVIOUS
<1> USE ConstantsOK DEF TypeOK, serverVars, driverVars, promiseVars
<1>1. ASSUME NEW j \in Jobs, SlurmStep(j) PROVE TypeOK'
  <2>1. CASE StartJob(j)  BY <2>1 DEF StartJob, JobState
  <2>2. CASE SignalJob(j)  BY <2>2 DEF SignalJob, JobState
  <2>3. CASE EndJob(j)  BY <2>3, ProcessType DEF EndJob, JobState, Pc
  <2> QED  BY <1>1, <2>1, <2>2, <2>3 DEF SlurmStep
<1>2. ASSUME NEW s \in Slots, WorkerStep(s) \/ WorkerFault(s) PROVE TypeOK'
  BY <1>2, WorkerStepType, WorkerFaultType
<1>4. ASSUME DriverCall PROVE TypeOK'
  <2>1. CASE EditCode  BY <2>1 DEF EditCode, Version
  <2>2. CASE DefineArgs  BY <2>2 DEF DefineArgs, Phase, Version
  <2>3. CASE DefineKwargs  BY <2>3 DEF DefineKwargs, Phase, Version
  <2>4. CASE RestartNoWait  BY <2>4 DEF RestartNoWait, AdvanceCounter, Gens
  <2>5. CASE RestartAndWait  BY <2>5 DEF RestartAndWait, AdvanceCounter, Phase, Gens
  <2>6. ASSUME NEW j \in Jobs, SubmitJob(j) PROVE TypeOK'
    BY <2>6 DEF SubmitJob, JobState
  <2>7. ASSUME NEW j \in Jobs, ForgetJob(j) PROVE TypeOK'
    BY <2>7 DEF ForgetJob, JobState
  <2> QED  BY <1>4, <2>1, <2>2, <2>3, <2>4, <2>5, <2>6, <2>7 DEF DriverCall
<1>5. ASSUME WaitStep PROVE TypeOK'
  <2>1. CASE ScanWorkers  BY <2>1 DEF ScanWorkers, Older, Phase
  <2>2. CASE CheckJobs
    <3>1. [answered |-> TRUE, ids |-> Queued] \in Answer  BY DEF Queued, Answer
    <3>2. live' \in Answer /\ due' \in BOOLEAN  BY <2>2, <3>1 DEF CheckJobs
    <3> QED  BY <2>2, <3>2 DEF CheckJobs, Phase
  <2>3. CASE WaitReturns
    BY <2>3 DEF WaitReturns, LeaveWait, Phase, Unknown, Answer, Gens
  <2>4. CASE WaitSleeps  BY <2>4 DEF WaitSleeps, Phase
  <2>5. ASSUME NEW i \in todo, LookUpExit(i) PROVE TypeOK'
    BY <2>5 DEF LookUpExit
  <2> QED  BY <1>5, <2>1, <2>2, <2>3, <2>4, <2>5 DEF WaitStep
<1>6. CASE WaitRaises
  BY <1>6 DEF WaitRaises, LeaveWait, Phase, Unknown, Answer, Gens
<1>7. CASE UNCHANGED vars
  BY <1>7 DEF vars
<1> QED  BY <1>1, <1>2, <1>4, <1>5, <1>6, <1>7 DEF Next

(* Every variable stays in its type. *)
THEOREM TypeCorrect == Spec => []TypeOK
  BY TypeInit, TypeNext, PTL DEF Spec

-----------------------------------------------------------------------------
(* The invariant behind the wait.                                          *)

(* The worker read the counter since it started, and may claim before it   *)
(* reads it again.                                                         *)
PastCheck(s) == Serving(s) \/ (worker[s].pc = "check" /\ worker[s].read)

(* What the worker published, or is about to. *)
Key(s) == [id |-> Id(s), gen |-> worker[s].gen]

(* The counter never goes back, so nothing recorded is ahead of it. *)
Bounds ==
    /\ \A j \in Jobs : promised[j] <= counter
    /\ target <= counter

(* A worker reads the counter in main(), before it serves or is rate       *)
(* limited.                                                                *)
ReadFirst(s) ==
    /\ worker[s].skip \/ Serving(s) => worker[s].read
    /\ worker[s].pc \in {"boot", "identify", "build", "args", "kwargs"} =>
          ~worker[s].read

(* A worker past its identity published its key. *)
Published(s) ==
    worker[s].pc \in {"build", "args", "kwargs", "check", "claim", "execute",
                      "restart", "stop"} => Key(s) \in info

(* Only an earlier incarnation, or one that left main(), published an exit. *)
ExitsOver(s) ==
    \A n \in Incs : <<s, n>> \in exited =>
        /\ n <= inc[s]
        /\ n = inc[s] => worker[s].pc \in {"restarting", "stopping", "again", "gone"}

(* Slurm runs nothing outside a running or ending job. *)
RunsInJob(s) == Alive(s) => job[SlotJob[s]] \in {"running", "ending"}

SlotInv(s) ==
    /\ worker[s].gen <= counter
    /\ ReadFirst(s)
    /\ Published(s)
    /\ ExitsOver(s)
    /\ RunsInJob(s)

(* The driver has no locals outside a wait, and squeue told it the truth. *)
WaitLocals ==
    /\ \A j \in tracked : job[j] # "unsubmitted"
    /\ phase \in {"idle", "define"} => seen = {} /\ old = {} /\ ~live.answered
    /\ live.answered => \A j \in tracked \ live.ids : job[j] = "ended"

(* An old worker that may still claim is in old, once the scan met it; and *)
(* every scan meets it.                                                    *)
WaitSeesOld ==
    phase \in {"scan", "exits", "decide"} =>
        \A s \in Slots :
            PastCheck(s) /\ SlotJob[s] \in tracked /\ worker[s].gen < target =>
                /\ Key(s) \in seen => Key(s) \in old
                /\ phase # "scan" => Key(s) \in seen

NoOldWorkerPastCheck ==
    \A s \in Slots : PastCheck(s) => worker[s].gen >= promised[SlotJob[s]]

WaitInv ==
    /\ TypeOK
    /\ Bounds
    /\ \A s \in Slots : SlotInv(s)
    /\ WaitLocals
    /\ WaitSeesOld
    /\ NoOldWorkerPastCheck

LEMMA WaitInit == Init => WaitInv
<1> SUFFICES ASSUME Init PROVE WaitInv
  OBVIOUS
<1>1. TypeOK  BY TypeInit
<1>2. \A s \in Slots : worker[s].pc = "off" /\ worker[s].gen = 0 /\ ~worker[s].skip
  BY DEF Init, Process
<1> QED
  BY <1>1, <1>2, ConstantsOK DEF Init, WaitInv, Bounds, SlotInv, ReadFirst, Published,
     ExitsOver, RunsInJob, WaitLocals, WaitSeesOld, NoOldWorkerPastCheck, PastCheck, Serving, Alive,
     Unknown

-----------------------------------------------------------------------------
(* What a step of a worker does to the workers.                            *)

LEMMA Elsewhere ==
  ASSUME TypeOK, NEW s \in Slots, WorkerStep(s) \/ WorkerFault(s)
  PROVE  /\ \A t \in Slots \ {s} : worker'[t] = worker[t] /\ inc'[t] = inc[t]
         /\ UNCHANGED <<counter, disk, job, driverVars, promiseVars>>
<1> USE DEF TypeOK, serverVars, Becomes
<1>1. CASE WorkerStep(s)
  BY <1>1 DEF WorkerStep, StartWorker, ReadGeneration, PublishIdentity, BuildActor,
     SkipRead, ReadCounter, Claim, NoTask, Report, PublishExit, Close
<1>2. CASE WorkerFault(s)
  BY <1>2 DEF WorkerFault, KillWorker, TermWorker, ConstructorFails, ReadFails,
     ReportFails, HandlerFails, TaskExits
<1> QED  BY <1>1, <1>2

(* A worker comes past its check by reading a counter that is not ahead of *)
(* its generation; any other step leaves it past its check as it was.      *)
LEMMA PastCheckStep ==
  ASSUME TypeOK, NEW s \in Slots, ReadFirst(s), WorkerStep(s) \/ WorkerFault(s),
         PastCheck(s)'
  PROVE  \/ PastCheck(s) /\ worker'[s].gen = worker[s].gen /\ inc'[s] = inc[s]
         \/ worker'[s].gen >= counter
<1> USE DEF TypeOK, PastCheck, Serving, Becomes, At, Process, WorkerState
<1>1. worker[s] \in WorkerState
  OBVIOUS
<1>2. CASE StartWorker(s)  BY <1>2 DEF StartWorker
<1>3. CASE ReadGeneration(s)  BY <1>3 DEF ReadGeneration
<1>4. CASE PublishIdentity(s)  BY <1>4 DEF PublishIdentity
<1>5. CASE BuildActor(s)
  <2>1. CASE Becomes(s, "build", [At(s, "args") EXCEPT !.loaded.code = disk.code])
    BY <2>1
  <2>2. CASE Becomes(s, "args", [At(s, "kwargs") EXCEPT !.loaded.args = disk.args])
    BY <2>2
  <2>3. CASE Becomes(s, "kwargs", [At(s, "check") EXCEPT !.loaded.kwargs = disk.kwargs])
    BY <2>3 DEF ReadFirst
  <2> QED  BY ONLY <1>5, <2>1, <2>2, <2>3 DEF BuildActor
<1>6. CASE SkipRead(s)  BY <1>6 DEF SkipRead, ReadFirst
<1>7. CASE ReadCounter(s)
  <2>1. CASE counter > worker[s].gen
    BY <1>7, <2>1 DEF ReadCounter
  <2>2. CASE ~(counter > worker[s].gen)
    <3>1. worker'[s].gen = worker[s].gen
      BY <1>7, <2>2, ZenonT(20) DEF ReadCounter
    <3>2. worker[s].gen \in Nat /\ counter \in Nat
      BY DEF Gens
    <3> QED  BY ONLY <2>2, <3>1, <3>2
  <2> QED  BY <2>1, <2>2
<1>8. CASE Claim(s)  BY <1>8 DEF Claim
<1>9. CASE NoTask(s)  BY <1>9 DEF NoTask
<1>10. CASE Report(s)  BY <1>10 DEF Report
<1>11. CASE PublishExit(s) \/ Close(s)  BY <1>11 DEF PublishExit, Close
<1>12. CASE KillWorker(s)  BY <1>12 DEF KillWorker
<1>13. CASE TermWorker(s)  BY <1>13 DEF TermWorker
<1>14. CASE ConstructorFails(s)  BY <1>14 DEF ConstructorFails
<1>15. CASE ReadFails(s)  BY <1>15 DEF ReadFails
<1>16. CASE ReportFails(s)  BY <1>16 DEF ReportFails
<1>17. CASE HandlerFails(s)  BY <1>17 DEF HandlerFails
<1>18. CASE TaskExits(s)  BY <1>18 DEF TaskExits
<1> QED
  BY <1>2, <1>3, <1>4, <1>5, <1>6, <1>7, <1>8, <1>9, <1>10, <1>11, <1>12, <1>13, <1>14,
     <1>15, <1>16, <1>17, <1>18 DEF WorkerStep, WorkerFault

LEMMA SlotStep ==
  ASSUME TypeOK, NEW s \in Slots, SlotInv(s), WorkerStep(s) \/ WorkerFault(s)
  PROVE  SlotInv(s)'
<1> USE DEF TypeOK, Becomes, At, Process, WorkerState, Serving, Alive, Id, Key,
      SlotInv, ReadFirst, Published, ExitsOver, RunsInJob
<1>1. worker[s] \in WorkerState /\ counter \in Nat /\ inc[s] \in Nat
  BY DEF Gens, Incs
<1>2. CASE StartWorker(s)  BY <1>1, <1>2, SMTT(20) DEF StartWorker, serverVars, Incs
<1>3. CASE ReadGeneration(s)  BY <1>1, <1>3, SMTT(20) DEF ReadGeneration, serverVars
<1>4. CASE PublishIdentity(s)  BY <1>1, <1>4 DEF PublishIdentity
<1>5. CASE BuildActor(s)
  <2>1. CASE Becomes(s, "build", [At(s, "args") EXCEPT !.loaded.code = disk.code])
    BY <1>1, <1>5, <2>1 DEF BuildActor, serverVars
  <2>2. CASE Becomes(s, "args", [At(s, "kwargs") EXCEPT !.loaded.args = disk.args])
    BY <1>1, <1>5, <2>2 DEF BuildActor, serverVars
  <2>3. CASE Becomes(s, "kwargs", [At(s, "check") EXCEPT !.loaded.kwargs = disk.kwargs])
    BY <1>1, <1>5, <2>3 DEF BuildActor, serverVars
  <2> QED  BY ONLY <1>5, <2>1, <2>2, <2>3 DEF BuildActor
<1>6. CASE SkipRead(s)  BY <1>1, <1>6 DEF SkipRead, serverVars
<1>7. CASE ReadCounter(s)
  <2>1. CASE counter > worker[s].gen
    BY <1>1, <1>7, <2>1 DEF ReadCounter, serverVars
  <2>2. CASE ~(counter > worker[s].gen)
    <3>1. /\ worker' = [worker EXCEPT ![s] = [At(s, "claim") EXCEPT !.read = TRUE,
                                                                  !.skip = TRUE]]
          /\ worker[s].pc = "check"
          /\ UNCHANGED <<counter, info, exited, inc, job>>
      BY ONLY <1>7, <2>2 DEF ReadCounter, Becomes, serverVars
    <3>2. /\ worker'[s].pc = "claim" /\ worker'[s].read
          /\ worker'[s].gen = worker[s].gen
      BY <1>1, <3>1
    <3> QED  BY ONLY <1>1, <2>2, <3>1, <3>2, SlotInv(s)
             DEF SlotInv, ReadFirst, Published, ExitsOver, RunsInJob, Serving, Alive,
                 Id, Key
  <2> QED  BY <2>1, <2>2
<1>8. CASE Claim(s)  BY <1>1, <1>8 DEF Claim, serverVars
<1>9. CASE NoTask(s)  BY <1>1, <1>9 DEF NoTask, serverVars
<1>10. CASE Report(s)  BY <1>1, <1>10 DEF Report, serverVars
<1>11. CASE PublishExit(s) \/ Close(s)
  <2>1. CASE PublishExit(s)  BY <1>1, <2>1 DEF PublishExit
  <2>2. CASE Close(s)  BY <1>1, <2>2 DEF Close, serverVars
  <2> QED  BY <1>11, <2>1, <2>2
<1>12. CASE KillWorker(s)  BY <1>1, <1>12 DEF KillWorker, serverVars
<1>13. CASE TermWorker(s)  BY <1>1, <1>13 DEF TermWorker, serverVars
<1>14. CASE ConstructorFails(s)  BY <1>1, <1>14 DEF ConstructorFails, serverVars
<1>15. CASE ReadFails(s)  BY <1>1, <1>15 DEF ReadFails, serverVars
<1>16. CASE ReportFails(s)  BY <1>1, <1>16 DEF ReportFails, serverVars
<1>17. CASE HandlerFails(s)  BY <1>1, <1>17 DEF HandlerFails, serverVars
<1>18. CASE TaskExits(s)  BY <1>1, <1>18 DEF TaskExits, serverVars
<1> QED
  BY <1>2, <1>3, <1>4, <1>5, <1>6, <1>7, <1>8, <1>9, <1>10, <1>11, <1>12, <1>13, <1>14,
     <1>15, <1>16, <1>17, <1>18 DEF WorkerStep, WorkerFault

-----------------------------------------------------------------------------
(* Every step keeps the invariant of the wait.                             *)

LEMMA WorkerKeepsWaitInv ==
  ASSUME WaitInv, NEW s \in Slots, WorkerStep(s) \/ WorkerFault(s)
  PROVE  WaitInv'
<1>1. TypeOK /\ TypeOK' /\ counter \in Nat
  BY WorkerStepType, WorkerFaultType DEF WaitInv, TypeOK, Gens
<1>2. /\ \A t \in Slots \ {s} : worker'[t] = worker[t] /\ inc'[t] = inc[t]
      /\ UNCHANGED <<counter, disk, job, driverVars, promiseVars>>
      /\ info \subseteq info'
      /\ exited' \subseteq exited \cup {Id(s)}
  <2>1. info \subseteq info' /\ exited' \subseteq exited \cup {Id(s)}
    BY DEF WorkerStep, StartWorker, ReadGeneration, PublishIdentity, BuildActor,
       SkipRead, ReadCounter, Claim, NoTask, Report, PublishExit, Close,
       WorkerFault, KillWorker, TermWorker, ConstructorFails, ReadFails,
       ReportFails, HandlerFails, TaskExits, serverVars
  <2> QED  BY <1>1, <2>1, Elsewhere
<1>3. \A t \in Slots : SlotInv(t)'
  <2>1. SlotInv(s)'
    BY <1>1, SlotStep DEF WaitInv
  <2>2. ASSUME NEW t \in Slots \ {s} PROVE SlotInv(t)'
    BY <1>2, <2>2 DEF WaitInv, SlotInv, ReadFirst, Published, ExitsOver, RunsInJob,
       Serving, Alive, Key, Id
  <2> QED  BY <2>1, <2>2
<1>4. \A t \in Slots : PastCheck(t)' =>
         \/ PastCheck(t) /\ worker'[t].gen = worker[t].gen /\ inc'[t] = inc[t]
         \/ worker'[t].gen >= counter
  <2>1. PastCheck(s)' =>
         \/ PastCheck(s) /\ worker'[s].gen = worker[s].gen /\ inc'[s] = inc[s]
         \/ worker'[s].gen >= counter
    BY <1>1, PastCheckStep DEF WaitInv, SlotInv
  <2> QED  BY <1>2, <2>1 DEF PastCheck, Serving
<1>5. Bounds' /\ WaitLocals'
  BY <1>2 DEF WaitInv, Bounds, WaitLocals, driverVars, promiseVars
<1>6. \A t \in Slots : worker[t].gen \in Nat /\ worker'[t].gen \in Nat
  BY <1>1 DEF TypeOK, WorkerState, Gens
<1>7. target \in Nat /\ \A j \in Jobs : promised[j] \in Nat
  BY <1>1 DEF TypeOK, Gens
<1>8. WaitSeesOld'
  BY <1>1, <1>2, <1>4, <1>6, <1>7
     DEF WaitInv, Bounds, WaitSeesOld, driverVars, Key, Id
<1>9. NoOldWorkerPastCheck'
  BY <1>1, <1>2, <1>4, <1>6, <1>7, ConstantsOK
     DEF WaitInv, Bounds, NoOldWorkerPastCheck, promiseVars
<1> QED  BY <1>1, <1>3, <1>5, <1>8, <1>9 DEF WaitInv

LEMMA SlurmKeepsWaitInv ==
  ASSUME WaitInv, NEW j \in Jobs, SlurmStep(j)
  PROVE  WaitInv'
<1>1. [Next]_vars  BY DEF Next
<1>2. TypeOK'  BY <1>1, TypeNext DEF WaitInv
<1> USE <1>2, ConstantsOK
    DEF WaitInv, TypeOK, Bounds, SlotInv, ReadFirst, Published, ExitsOver, RunsInJob,
        Serving, Alive, Key, Id, WaitLocals, WaitSeesOld, NoOldWorkerPastCheck,
        PastCheck, serverVars, driverVars, promiseVars
<1>3. CASE StartJob(j)  BY <1>3 DEF StartJob
<1>4. CASE SignalJob(j)  BY <1>4 DEF SignalJob
<1>5. CASE EndJob(j)
  <2>1. \A s \in Slots : worker'[s] = worker[s] \/ worker'[s] = Process("gone")
    BY <1>5 DEF EndJob
  <2>2. \A s \in Slots : SlotJob[s] = j => worker'[s] = Process("gone")
    BY <1>5 DEF EndJob
  <2>3. /\ Process("gone").pc = "gone" /\ Process("gone").gen = 0
        /\ ~Process("gone").skip
    BY DEF Process
  <2>4. /\ counter \in Nat /\ inc' = inc /\ UNCHANGED <<serverVars, driverVars, promiseVars>>
        /\ \A k \in Jobs \ {j} : job'[k] = job[k]
        /\ job'[j] = "ended"
    BY <1>5 DEF EndJob, Gens
  <2>5. ASSUME NEW s \in Slots PROVE SlotInv(s)'
    <3>1. CASE SlotJob[s] = j
      BY ONLY <2>2, <2>3, <2>4, <3>1, SlotInv(s), s \in Slots
         DEF SlotInv, ReadFirst, Published, ExitsOver, RunsInJob, Serving, Alive,
             serverVars
    <3>2. CASE SlotJob[s] # j
      <4>1. worker'[s] = worker[s] /\ job'[SlotJob[s]] = job[SlotJob[s]]
        BY <1>5, <2>4, <3>2 DEF EndJob
      <4> QED
        BY ONLY <2>4, <4>1, SlotInv(s)
           DEF SlotInv, ReadFirst, Published, ExitsOver, RunsInJob, Serving, Alive,
               Key, Id, serverVars
    <3> QED  BY <3>1, <3>2
  <2>6. WaitLocals'
    <3>1. /\ tracked' = tracked /\ phase' = phase /\ seen' = seen /\ old' = old
          /\ live' = live
      BY ONLY <2>4 DEF driverVars
    <3>2. \A k \in tracked : job'[k] = job[k] \/ job'[k] = "ended"
      BY ONLY <2>4, TypeOK DEF TypeOK
    <3> QED  BY ONLY <3>1, <3>2, WaitLocals DEF WaitLocals
  <2>7. Bounds' /\ WaitSeesOld' /\ NoOldWorkerPastCheck'  BY <2>1, <2>3, <2>4
  <2> QED  BY <2>5, <2>6, <2>7
<1> QED  BY <1>3, <1>4, <1>5 DEF SlurmStep

LEMMA DriverKeepsWaitInv ==
  ASSUME WaitInv, DriverCall
  PROVE  WaitInv'
<1>1. [Next]_vars  BY DEF Next
<1>2. TypeOK'  BY <1>1, TypeNext DEF WaitInv
<1> USE <1>2, ConstantsOK
    DEF WaitInv, TypeOK, Bounds, SlotInv, ReadFirst, Published, ExitsOver, RunsInJob,
        Serving, Alive, Key, Id, WaitLocals, WaitSeesOld, NoOldWorkerPastCheck,
        PastCheck, serverVars, driverVars, promiseVars
<1>3. CASE EditCode  BY <1>3 DEF EditCode
<1>4. CASE DefineArgs  BY <1>4 DEF DefineArgs
<1>5. CASE DefineKwargs  BY <1>5 DEF DefineKwargs
<1>6. ASSUME AdvanceCounter, target' \in {target, counter + 1},
             (phase' = phase /\ target' = target) \/ phase' = "scan"
      PROVE  WaitInv'
  <2>1. /\ counter \in Nat /\ counter' = counter + 1
        /\ \A s \in Slots : worker[s].gen \in Nat
        /\ target \in Nat /\ \A j \in Jobs : promised[j] \in Nat
    BY <1>6 DEF AdvanceCounter, Gens, WorkerState
  <2>2. \A s \in Slots : SlotInv(s)'  BY <1>6, <2>1 DEF AdvanceCounter
  <2>3. Bounds'
    <3>1. promised' = promised  BY <1>6 DEF AdvanceCounter
    <3> QED  BY ONLY <1>6, <2>1, <3>1, Bounds DEF Bounds
  <2>4. WaitLocals' /\ WaitSeesOld' /\ NoOldWorkerPastCheck'
    BY <1>6 DEF AdvanceCounter
  <2> QED  BY <2>2, <2>3, <2>4
<1>7. CASE RestartNoWait  BY <1>6, <1>7 DEF RestartNoWait
<1>8. CASE RestartAndWait  BY <1>6, <1>8 DEF RestartAndWait
<1>9. ASSUME NEW j \in Jobs, SubmitJob(j) PROVE WaitInv'
  BY <1>9 DEF SubmitJob
<1>10. ASSUME NEW j \in Jobs, ForgetJob(j) PROVE WaitInv'
  BY <1>10 DEF ForgetJob
<1> QED  BY <1>3, <1>4, <1>5, <1>7, <1>8, <1>9, <1>10 DEF DriverCall

LEMMA WaitKeepsWaitInv ==
  ASSUME WaitInv, WaitStep \/ WaitRaises
  PROVE  WaitInv'
<1>1. [Next]_vars  BY DEF Next
<1>2. TypeOK'  BY <1>1, TypeNext DEF WaitInv
<1>3. UNCHANGED <<counter, info, exited, job, inc, worker, tracked>>
  BY DEF WaitStep, ScanWorkers, LookUpExit, CheckJobs, WaitReturns, LeaveWait,
     WaitSleeps, WaitRaises, serverVars
<1>4. \A s \in Slots : SlotInv(s)' /\ (PastCheck(s)' <=> PastCheck(s)) /\ Key(s)' = Key(s)
  BY <1>3 DEF WaitInv, SlotInv, ReadFirst, Published, ExitsOver, RunsInJob, Serving,
     Alive, Key, Id, PastCheck
<1>5. /\ counter \in Nat /\ target \in Nat /\ (\A j \in Jobs : promised[j] \in Nat)
      /\ \A s \in Slots : worker[s].gen \in Nat /\ SlotJob[s] \in Jobs
  BY ConstantsOK DEF WaitInv, TypeOK, WorkerState, Gens
<1>6. \A s \in Slots : PastCheck(s) =>
         Alive(s) /\ Key(s) \in info /\ Key(s).id[1] = s /\ Key(s).gen = worker[s].gen
  BY DEF WaitInv, SlotInv, Published, PastCheck, Serving, Alive, Key, Id
<1> USE <1>2, <1>3, <1>4
<1>7. CASE ScanWorkers
  <2>1. Bounds' /\ WaitLocals' /\ NoOldWorkerPastCheck'
    BY <1>7 DEF ScanWorkers, WaitInv, Bounds, WaitLocals, NoOldWorkerPastCheck,
       promiseVars
  <2>2. ASSUME NEW s \in Slots, PastCheck(s), SlotJob[s] \in tracked,
               worker[s].gen < target
        PROVE  Key(s) \in seen' /\ Key(s) \in old'
    <3>1. Key(s) \in info  BY <1>6, <2>2
    <3>2. Key(s) \in seen => Key(s) \in old
      BY <1>7, <2>2 DEF ScanWorkers, WaitInv, WaitSeesOld
    <3>3. Key(s) \in info \ seen => Key(s) \in Older(info \ seen)
      BY <1>6, <2>2 DEF Older
    <3> QED  BY <1>7, <3>1, <3>2, <3>3 DEF ScanWorkers
  <2>3. WaitSeesOld'  BY <1>7, <2>2 DEF ScanWorkers, WaitSeesOld
  <2> QED  BY <2>1, <2>3 DEF WaitInv
<1>8. ASSUME NEW i \in todo, LookUpExit(i) PROVE WaitInv'
  <2>1. Bounds' /\ WaitLocals' /\ NoOldWorkerPastCheck'
    BY <1>8 DEF LookUpExit, WaitInv, Bounds, WaitLocals, NoOldWorkerPastCheck,
       promiseVars
  <2>2. ASSUME NEW s \in Slots, PastCheck(s), Key(s) = i PROVE i.id \notin exited
    <3>1. i.id = <<s, inc[s]>> /\ inc[s] \in Incs
      BY <2>2 DEF Key, Id, WaitInv, TypeOK
    <3> QED
      BY <2>2, <3>1 DEF WaitInv, SlotInv, ExitsOver, PastCheck, Serving
  <2>3. WaitSeesOld'
    BY <1>8, <2>2 DEF LookUpExit, WaitInv, WaitSeesOld
  <2> QED  BY <2>1, <2>3 DEF WaitInv
<1>9. CASE CheckJobs
  <2>1. live'.answered => \A j \in tracked \ live'.ids : job[j] = "ended"
    <3>1. CASE live' = live  BY <1>9, <3>1 DEF WaitInv, WaitLocals
    <3>2. CASE live' = [answered |-> TRUE, ids |-> Queued]
      BY <3>2 DEF Queued, WaitInv, WaitLocals, TypeOK, JobState
    <3> QED  BY <1>9, <3>1, <3>2 DEF CheckJobs
  <2>2. Bounds' /\ WaitLocals' /\ NoOldWorkerPastCheck'
    BY <1>9, <2>1 DEF CheckJobs, WaitInv, Bounds, WaitLocals, NoOldWorkerPastCheck,
       promiseVars
  <2>3. ASSUME NEW s \in Slots, PastCheck(s), SlotJob[s] \in tracked, Key(s) \in old
        PROVE  Key(s) \in old'
    <3>1. job[SlotJob[s]] # "ended"
      BY <1>6, <2>3 DEF WaitInv, SlotInv, RunsInJob
    <3>2. live'.answered => SlotJob[Key(s).id[1]] \in live'.ids
      BY <1>6, <2>1, <2>3, <3>1
    <3> QED  BY <1>9, <2>3, <3>2 DEF CheckJobs
  <2>4. WaitSeesOld'
    BY <1>9, <2>3 DEF CheckJobs, WaitInv, WaitSeesOld
  <2> QED  BY <2>2, <2>4 DEF WaitInv
<1>10. CASE WaitReturns
  <2>1. Bounds'
    BY <1>5, <1>10 DEF WaitReturns, LeaveWait, WaitInv, Bounds
  <2>2. WaitLocals' /\ WaitSeesOld'
    BY <1>10 DEF WaitReturns, LeaveWait, WaitInv, WaitLocals, WaitSeesOld, Unknown
  <2>3. ASSUME NEW s \in Slots, PastCheck(s), SlotJob[s] \notin Forgotten
        PROVE  worker[s].gen >= target
    <3>1. SlotJob[s] \in tracked
      BY <1>5, <1>6, <2>3 DEF Forgotten, WaitInv, SlotInv, RunsInJob
    <3> QED
      BY <1>5, <1>10, <2>3, <3>1 DEF WaitReturns, WaitInv, WaitSeesOld
  <2>4. NoOldWorkerPastCheck'
    BY <1>5, <1>10, <2>3 DEF WaitReturns, WaitInv, NoOldWorkerPastCheck
  <2> QED  BY <2>1, <2>2, <2>4 DEF WaitInv
<1>11. CASE WaitSleeps
  BY <1>11 DEF WaitSleeps, WaitInv, Bounds, WaitLocals, WaitSeesOld,
     NoOldWorkerPastCheck, promiseVars
<1>12. CASE WaitRaises
  BY <1>5, <1>12 DEF WaitRaises, LeaveWait, WaitInv, Bounds, WaitLocals, WaitSeesOld,
     NoOldWorkerPastCheck, Unknown
<1> QED  BY <1>7, <1>8, <1>9, <1>10, <1>11, <1>12 DEF WaitStep

LEMMA WaitNext == WaitInv /\ [Next]_vars => WaitInv'
<1> SUFFICES ASSUME WaitInv, [Next]_vars PROVE WaitInv'
  OBVIOUS
<1>1. ASSUME NEW j \in Jobs, SlurmStep(j) PROVE WaitInv'
  BY <1>1, SlurmKeepsWaitInv
<1>2. ASSUME NEW s \in Slots, WorkerStep(s) \/ WorkerFault(s) PROVE WaitInv'
  BY <1>2, WorkerKeepsWaitInv
<1>3. CASE DriverCall  BY <1>3, DriverKeepsWaitInv
<1>4. CASE WaitStep \/ WaitRaises  BY <1>4, WaitKeepsWaitInv
<1>5. CASE UNCHANGED vars
  BY <1>5 DEF vars, serverVars, driverVars, promiseVars, WaitInv, TypeOK, Bounds,
     SlotInv, ReadFirst, Published, ExitsOver, RunsInJob, WaitLocals, WaitSeesOld,
     NoOldWorkerPastCheck, PastCheck, Serving, Alive, Key, Id
<1> QED  BY <1>1, <1>2, <1>3, <1>4, <1>5 DEF Next

THEOREM WaitInvariant == Spec => []WaitInv
  BY WaitInit, WaitNext, PTL DEF Spec

(* Once a wait returned, no worker of a job it covered claims or runs a    *)
(* task with an older generation.                                          *)
THEOREM NoOldWorkerServesAlways == Spec => []NoOldWorkerServes
<1>1. WaitInv => NoOldWorkerServes
  BY DEF WaitInv, NoOldWorkerPastCheck, PastCheck, NoOldWorkerServes
<1> QED  BY <1>1, WaitInvariant, PTL

-----------------------------------------------------------------------------
(* The code and the actor arguments.                                       *)

(* The disk is as new as at any request before.                            *)
WrittenInOrder ==
    /\ disk.kwargs <= disk.args
    /\ \A g \in 0..counter : NotOlder(disk, written[g])
    /\ \A g, h \in 0..counter : g <= h => NotOlder(written[h], written[g])

(* What a constructor loaded so far is as new as its generation.           *)
LoadedSoFar(s) ==
    LET loaded == worker[s].loaded
        asked  == written[worker[s].gen]
    IN
    /\ worker[s].pc \in {"args", "kwargs", "check", "claim", "execute"} =>
          loaded.code >= asked.code
    /\ worker[s].pc \in {"kwargs", "check", "claim", "execute"} =>
          loaded.args >= asked.args
    /\ worker[s].pc \in {"check", "claim", "execute"} =>
          loaded.kwargs >= asked.kwargs

CodeInv ==
    /\ WaitInv
    /\ WrittenInOrder
    /\ \A s \in Slots : LoadedSoFar(s)

LEMMA VersionParts ==
  ASSUME NEW v \in Version
  PROVE  v.code \in Nat /\ v.args \in Nat /\ v.kwargs \in Nat
  BY ConstantsOK DEF Version

LEMMA NotOlderTransitive ==
  ASSUME NEW u \in Version, NEW v \in Version, NEW w \in Version,
         NotOlder(u, v), NotOlder(v, w)
  PROVE  NotOlder(u, w)
  BY VersionParts DEF NotOlder

LEMMA CodeInit == Init => CodeInv
<1> SUFFICES ASSUME Init PROVE CodeInv
  OBVIOUS
<1>1. WaitInv  BY WaitInit
<1>2. WrittenInOrder
  BY ConstantsOK DEF Init, WrittenInOrder, NotOlder, Zero, Gens
<1>3. \A s \in Slots : LoadedSoFar(s)
  BY DEF Init, LoadedSoFar, Process
<1> QED  BY <1>1, <1>2, <1>3 DEF CodeInv

LEMMA WorkerLoads ==
  ASSUME CodeInv, NEW s \in Slots, WorkerStep(s) \/ WorkerFault(s)
  PROVE  LoadedSoFar(s)'
<1> DEFINE w == worker[s]
<1>1. /\ TypeOK /\ w \in WorkerState /\ w.gen \in 0..counter /\ counter \in Gens
      /\ w.loaded \in Version /\ disk \in Version /\ written \in [Gens -> Version]
  BY DEF CodeInv, WaitInv, SlotInv, TypeOK, WorkerState, Gens
<1>2. written[w.gen] \in Version /\ NotOlder(disk, written[w.gen])
  BY <1>1, ConstantsOK DEF CodeInv, WrittenInOrder, Gens
<1>3. /\ w.loaded.code \in Nat /\ w.loaded.args \in Nat /\ w.loaded.kwargs \in Nat
      /\ disk.code >= written[w.gen].code /\ disk.args >= written[w.gen].args
      /\ disk.kwargs >= written[w.gen].kwargs
  BY <1>1, <1>2, VersionParts DEF NotOlder
<1>4. UNCHANGED written /\ LoadedSoFar(s) /\ worker \in [Slots -> WorkerState]
  BY <1>1, Elsewhere DEF CodeInv, promiseVars, TypeOK
<1> USE <1>1, <1>3, <1>4 DEF LoadedSoFar, Becomes, At, Process, WorkerState
<1>5. CASE BuildActor(s)
  <2>1. CASE Becomes(s, "build", [At(s, "args") EXCEPT !.loaded.code = disk.code])
    BY <2>1 DEF Version
  <2>2. CASE Becomes(s, "args", [At(s, "kwargs") EXCEPT !.loaded.args = disk.args])
    BY <2>2 DEF Version
  <2>3. CASE Becomes(s, "kwargs", [At(s, "check") EXCEPT !.loaded.kwargs = disk.kwargs])
    BY <2>3 DEF Version
  <2> QED  BY ONLY <1>5, <2>1, <2>2, <2>3 DEF BuildActor
<1>6. CASE ReadCounter(s)
  <2>1. CASE counter > w.gen  BY <1>6, <2>1 DEF ReadCounter
  <2>2. CASE ~(counter > w.gen)
    <3> DEFINE v == [w EXCEPT !.pc = "claim", !.read = TRUE, !.skip = TRUE]
    <3>1. w.pc = "check" /\ worker'[s] = v
      BY <1>6, <2>2 DEF ReadCounter
    <3>2. v.gen = w.gen /\ v.loaded = w.loaded /\ v.pc = "claim"
      BY <1>1
    <3> HIDE DEF v, w
    <3> QED  BY <3>1, <3>2 DEF w
  <2> QED  BY <2>1, <2>2
<1>7. CASE WorkerStep(s) /\ ~BuildActor(s) /\ ~ReadCounter(s)
  <2>1. CASE StartWorker(s)  BY <2>1 DEF StartWorker
  <2>2. CASE ReadGeneration(s)  BY <2>2 DEF ReadGeneration
  <2>3. CASE PublishIdentity(s)  BY <2>3 DEF PublishIdentity
  <2>4. CASE SkipRead(s)  BY <2>4 DEF SkipRead
  <2>5. CASE Claim(s)  BY <2>5 DEF Claim
  <2>6. CASE NoTask(s)  BY <2>6 DEF NoTask
  <2>7. CASE Report(s)  BY <2>7 DEF Report
  <2>8. CASE PublishExit(s) \/ Close(s)  BY <2>8 DEF PublishExit, Close
  <2> QED  BY <1>7, <2>1, <2>2, <2>3, <2>4, <2>5, <2>6, <2>7, <2>8 DEF WorkerStep
<1>8. CASE WorkerFault(s)
  <2>1. CASE KillWorker(s)  BY <2>1 DEF KillWorker
  <2>2. CASE TermWorker(s)  BY <2>2 DEF TermWorker
  <2>3. CASE ConstructorFails(s)  BY <2>3 DEF ConstructorFails
  <2>4. CASE ReadFails(s)  BY <2>4 DEF ReadFails
  <2>5. CASE ReportFails(s)  BY <2>5 DEF ReportFails
  <2>6. CASE HandlerFails(s)  BY <2>6 DEF HandlerFails
  <2>7. CASE TaskExits(s)  BY <2>7 DEF TaskExits
  <2> QED  BY <1>8, <2>1, <2>2, <2>3, <2>4, <2>5, <2>6, <2>7 DEF WorkerFault
<1> QED  BY <1>5, <1>6, <1>7, <1>8

LEMMA RequestWritesDown ==
  ASSUME CodeInv, AdvanceCounter
  PROVE  WrittenInOrder' /\ \A s \in Slots : LoadedSoFar(s)'
<1>1. /\ TypeOK /\ counter \in Nat /\ counter' = counter + 1 /\ counter + 1 \in Gens
      /\ disk' = disk /\ worker' = worker
      /\ disk \in Version /\ written \in [Gens -> Version]
      /\ \A g \in 0..counter : g \in Gens /\ g # counter + 1
  BY ConstantsOK DEF CodeInv, WaitInv, TypeOK, AdvanceCounter, Gens
<1>2. /\ written'[counter + 1] = disk
      /\ \A g \in 0..counter : written'[g] = written[g]
  BY <1>1 DEF AdvanceCounter
<1>3. NotOlder(disk, disk)
  BY <1>1, VersionParts DEF NotOlder
<1>4. \A g \in 0..counter' : g \in 0..counter \/ g = counter + 1
  BY <1>1
<1>5. WrittenInOrder'
  <2>1. disk'.kwargs <= disk'.args
    BY <1>1 DEF CodeInv, WrittenInOrder
  <2>2. \A g \in 0..counter' : NotOlder(disk, written'[g])
    BY <1>2, <1>3, <1>4 DEF CodeInv, WrittenInOrder
  <2>3. ASSUME NEW g \in 0..counter', NEW h \in 0..counter', g <= h
        PROVE  NotOlder(written'[h], written'[g])
    <3>1. CASE h \in 0..counter
      <4>1. g \in 0..counter  BY <1>1, <2>3, <3>1
      <4> QED  BY <1>2, <2>3, <3>1, <4>1 DEF CodeInv, WrittenInOrder
    <3>2. CASE h = counter + 1  BY <1>2, <2>2, <3>2
    <3> QED  BY <1>4, <3>1, <3>2
  <2> QED  BY <1>1, <2>1, <2>2, <2>3 DEF WrittenInOrder, NotOlder
<1>6. ASSUME NEW s \in Slots PROVE LoadedSoFar(s)'
  <2>1. worker[s].gen \in 0..counter
    BY DEF CodeInv, WaitInv, SlotInv, TypeOK, WorkerState, Gens
  <2> QED  BY <1>1, <1>2, <2>1 DEF CodeInv, LoadedSoFar
<1> QED  BY <1>5, <1>6

LEMMA CodeNext == CodeInv /\ [Next]_vars => CodeInv'
<1> SUFFICES ASSUME CodeInv, [Next]_vars PROVE CodeInv'
  OBVIOUS
<1>1. WaitInv'  BY WaitNext DEF CodeInv
<1>2. /\ TypeOK /\ disk \in Version /\ written \in [Gens -> Version] /\ counter \in Nat
      /\ \A g \in 0..counter : g \in Gens
  BY ConstantsOK DEF CodeInv, WaitInv, TypeOK, Gens
<1> SUFFICES WrittenInOrder' /\ \A s \in Slots : LoadedSoFar(s)'
  BY <1>1 DEF CodeInv
<1>3. ASSUME UNCHANGED <<counter, written, disk>>
      PROVE  WrittenInOrder'
  BY <1>3 DEF CodeInv, WrittenInOrder, NotOlder
<1>4. ASSUME UNCHANGED <<worker, written>>
      PROVE  \A s \in Slots : LoadedSoFar(s)'
  BY <1>4 DEF CodeInv, LoadedSoFar
<1>5. ASSUME NEW j \in Jobs, SlurmStep(j)
      PROVE  WrittenInOrder' /\ \A s \in Slots : LoadedSoFar(s)'
  <2>1. UNCHANGED <<counter, written, disk>>
    BY <1>5 DEF SlurmStep, StartJob, SignalJob, EndJob, serverVars, promiseVars
  <2>2. \A s \in Slots : worker'[s] = worker[s] \/ worker'[s] = Process("gone")
    BY <1>2, <1>5 DEF SlurmStep, StartJob, SignalJob, EndJob, TypeOK
  <2>3. \A s \in Slots : LoadedSoFar(s)'
    BY <2>1, <2>2 DEF CodeInv, LoadedSoFar, Process
  <2> QED  BY <1>3, <2>1, <2>3
<1>6. ASSUME NEW s \in Slots, WorkerStep(s) \/ WorkerFault(s)
      PROVE  WrittenInOrder' /\ \A t \in Slots : LoadedSoFar(t)'
  <2>1. /\ \A t \in Slots \ {s} : worker'[t] = worker[t]
        /\ UNCHANGED <<counter, written, disk>>
    BY <1>2, <1>6, Elsewhere DEF promiseVars
  <2>2. LoadedSoFar(s)'  BY <1>6, WorkerLoads
  <2>3. \A t \in Slots \ {s} : LoadedSoFar(t)'
    BY <2>1 DEF CodeInv, LoadedSoFar
  <2> QED  BY <1>3, <2>1, <2>2, <2>3
<1>7. CASE EditCode \/ DefineArgs \/ DefineKwargs
  <2>1. /\ UNCHANGED <<counter, written, worker>>
        /\ NotOlder(disk', disk) /\ disk'.kwargs <= disk'.args /\ disk' \in Version
    <3>1. CASE EditCode
      BY <1>2, <3>1, VersionParts, ConstantsOK
         DEF EditCode, CodeInv, WrittenInOrder, serverVars, promiseVars, NotOlder, Version
    <3>2. CASE DefineArgs
      BY <1>2, <3>2, VersionParts, ConstantsOK
         DEF DefineArgs, CodeInv, WrittenInOrder, serverVars, promiseVars, NotOlder, Version
    <3>3. CASE DefineKwargs
      BY <1>2, <3>3, VersionParts, ConstantsOK
         DEF DefineKwargs, CodeInv, WrittenInOrder, serverVars, promiseVars, NotOlder, Version
    <3> QED  BY <1>7, <3>1, <3>2, <3>3
  <2>2. \A g \in 0..counter : NotOlder(disk', written[g])
    BY <1>2, <2>1, NotOlderTransitive DEF CodeInv, WrittenInOrder
  <2>3. WrittenInOrder'
    BY <2>1, <2>2 DEF CodeInv, WrittenInOrder, NotOlder
  <2> QED  BY <1>4, <2>1, <2>3
<1>8. CASE RestartNoWait \/ RestartAndWait
  BY <1>8, RequestWritesDown DEF RestartNoWait, RestartAndWait
<1>9. ASSUME NEW j \in Jobs, SubmitJob(j) \/ ForgetJob(j)
      PROVE  WrittenInOrder' /\ \A s \in Slots : LoadedSoFar(s)'
  BY <1>3, <1>4, <1>9 DEF SubmitJob, ForgetJob, serverVars, promiseVars
<1>10. CASE WaitStep \/ WaitRaises
  BY <1>3, <1>4, <1>10 DEF WaitStep, ScanWorkers, LookUpExit, CheckJobs, WaitReturns,
     LeaveWait, WaitSleeps, WaitRaises, serverVars, promiseVars
<1>11. CASE UNCHANGED vars
  BY <1>3, <1>4, <1>11 DEF vars, serverVars, promiseVars
<1> QED
  BY <1>5, <1>6, <1>7, <1>8, <1>9, <1>10, <1>11 DEF Next, DriverCall

(* A worker that serves runs code and actor arguments that are as new as   *)
(* those on disk when the request was made that its recorded generation    *)
(* stands for, although it reads each by a request of its own.             *)
THEOREM GenerationNeverNewerThanCode == Spec => []GenerationNotNewerThanCode
<1>1. CodeInv => GenerationNotNewerThanCode
  BY DEF CodeInv, LoadedSoFar, GenerationNotNewerThanCode, Serving, NotOlder
<1> QED  BY <1>1, CodeInit, CodeNext, PTL DEF Spec

(* Once a wait returned, every worker of a job it covered that serves runs *)
(* what was on disk when restart_jobs was called, or newer.                *)
THEOREM ServesPromisedCodeAlways == Spec => []ServesPromisedCode
<1>1. CodeInv => ServesPromisedCode
  <2> SUFFICES ASSUME CodeInv, NEW s \in Slots, Serving(s)
               PROVE  NotOlder(worker[s].loaded, written[promised[SlotJob[s]]])
    BY DEF ServesPromisedCode
  <2> DEFINE g == worker[s].gen
             p == promised[SlotJob[s]]
  <2>1. /\ worker[s].loaded \in Version /\ written \in [Gens -> Version]
        /\ counter \in Nat /\ g \in Gens /\ p \in Gens
    BY ConstantsOK DEF CodeInv, WaitInv, TypeOK, WorkerState, Gens
  <2>2. g \in 0..counter /\ p \in 0..counter /\ p <= g
    BY <2>1, ConstantsOK
       DEF CodeInv, WaitInv, SlotInv, Bounds, NoOldWorkerPastCheck, PastCheck, Gens
  <2>3. NotOlder(written[g], written[p])
    BY <2>2 DEF CodeInv, WrittenInOrder
  <2>4. NotOlder(worker[s].loaded, written[g])
    BY DEF CodeInv, LoadedSoFar, Serving, NotOlder
  <2> QED  BY <2>1, <2>3, <2>4, NotOlderTransitive
<1> QED  BY <1>1, CodeInit, CodeNext, PTL DEF Spec

-----------------------------------------------------------------------------
(* One restart for one request.                                            *)

(* What the earlier processes of a slot published is behind what this one  *)
(* recorded, or will record: a worker restarts for a request alone.        *)
KeysInOrder(s) ==
    \A i \in info : i.id[1] = s =>
        /\ i.id[2] <= inc[s]
        /\ worker[s].pc # "off"
        /\ worker[s].pc \in {"boot", "identify"} => i.id[2] < inc[s]
        /\ worker[s].pc \in {"boot", "again"} => i.gen < counter
        /\ worker[s].pc \notin {"boot", "again", "gone"} =>
              IF i.id[2] = inc[s] THEN i.gen = worker[s].gen ELSE i.gen < worker[s].gen

(* main() returns for a request the worker does not have.                  *)
ReturnsBehind(s) ==
    worker[s].pc \in {"restart", "restarting"} => worker[s].gen < counter

KeysInv ==
    /\ WaitInv
    /\ OneRestartPerRequest
    /\ \A s \in Slots : KeysInOrder(s) /\ ReturnsBehind(s)

LEMMA KeysInit == Init => KeysInv
<1> SUFFICES ASSUME Init PROVE KeysInv
  OBVIOUS
<1>1. WaitInv  BY WaitInit
<1> QED  BY <1>1 DEF Init, Process, KeysInv, KeysInOrder, ReturnsBehind,
            OneRestartPerRequest

(* A worker that reads no newer counter goes on to claim.                  *)
LEMMA NoRestartRead ==
  ASSUME TypeOK, NEW s \in Slots, ReadCounter(s), ~(counter > worker[s].gen)
  PROVE  /\ worker'[s].pc = "claim" /\ worker'[s].gen = worker[s].gen
         /\ worker'[s].late = worker[s].late
<1>1. /\ worker' = [worker EXCEPT ![s] = [At(s, "claim") EXCEPT !.read = TRUE,
                                                                !.skip = TRUE]]
      /\ worker \in [Slots -> WorkerState]
  BY ONLY TypeOK, ReadCounter(s), ~(counter > worker[s].gen)
     DEF TypeOK, ReadCounter, Becomes
<1> QED  BY <1>1 DEF At, WorkerState

LEMMA InfoType ==
  ASSUME TypeOK, NEW i \in info
  PROVE  i.id[1] \in Slots /\ i.id[2] \in Nat /\ i.gen \in Nat
  BY DEF TypeOK, Info, WorkerId, Incs, Gens

LEMMA WorkerKeepsKeys ==
  ASSUME KeysInv, NEW s \in Slots, WorkerStep(s) \/ WorkerFault(s)
  PROVE  /\ OneRestartPerRequest'
         /\ KeysInOrder(s)'
         /\ ReturnsBehind(s)'
<1>1. /\ TypeOK /\ counter \in Nat /\ inc[s] \in Nat /\ worker[s] \in WorkerState
      /\ worker[s].gen \in Nat /\ worker[s].gen <= counter
      /\ \A i \in info : i.id[1] \in Slots /\ i.id[2] \in Nat /\ i.gen \in Nat
  BY InfoType DEF KeysInv, WaitInv, SlotInv, TypeOK, WorkerState, Gens, Incs
<1>2. counter' = counter /\ inc \in [Slots -> Incs] /\ worker \in [Slots -> WorkerState]
  BY <1>1, Elsewhere DEF TypeOK
<1>3. /\ OneRestartPerRequest /\ KeysInOrder(s)
      /\ ReturnsBehind(s)
  BY DEF KeysInv
<1>4. CASE PublishIdentity(s)
  <2> DEFINE key == [id |-> <<s, inc[s]>>, gen |-> worker[s].gen]
  <2>1. /\ info' = info \cup {key} /\ inc' = inc
        /\ worker[s].pc = "identify"
        /\ worker'[s].pc = "build" /\ worker'[s].gen = worker[s].gen
    BY <1>1, <1>2, <1>4 DEF PublishIdentity, Becomes, At, Id, WorkerState
  <2>2. \A i \in info : i.id[1] = s => i.id[2] < inc[s] /\ i.gen < worker[s].gen
    BY <1>1, <1>3, <2>1 DEF KeysInOrder
  <2>3. key.id[1] = s /\ key.id[2] = inc[s] /\ key.gen = worker[s].gen
    OBVIOUS
  <2>4. OneRestartPerRequest'
    BY ONLY <1>1, <1>3, <2>1, <2>2, <2>3 DEF OneRestartPerRequest
  <2>5. KeysInOrder(s)'
    BY ONLY <1>1, <2>1, <2>2, <2>3 DEF KeysInOrder
  <2> QED  BY <2>1, <2>4, <2>5 DEF ReturnsBehind
<1>5. ASSUME UNCHANGED info, UNCHANGED inc,
             \/ /\ worker'[s].gen = worker[s].gen
                /\ worker[s].pc \notin {"off", "boot", "identify", "again", "gone"}
                /\ worker'[s].pc \notin {"off", "boot", "identify", "again", "gone",
                                         "restart", "restarting"}
             \/ worker'[s].pc = "gone"
      PROVE  /\ OneRestartPerRequest'
             /\ KeysInOrder(s)'
             /\ ReturnsBehind(s)'
  BY <1>1, <1>3, <1>5 DEF OneRestartPerRequest, KeysInOrder, ReturnsBehind
<1> USE DEF Becomes, At, Process, WorkerState, serverVars
<1>6. CASE StartWorker(s)
  BY <1>1, <1>2, <1>3, <1>6
     DEF StartWorker, OneRestartPerRequest, KeysInOrder, ReturnsBehind
<1>7. CASE ReadGeneration(s)
  BY <1>1, <1>2, <1>3, <1>7
     DEF ReadGeneration, OneRestartPerRequest, KeysInOrder, ReturnsBehind
<1>8. CASE ReadCounter(s)
  <2>1. CASE counter > worker[s].gen
    BY <1>1, <1>2, <1>3, <1>8, <2>1
       DEF ReadCounter, OneRestartPerRequest, KeysInOrder, ReturnsBehind
  <2>2. CASE ~(counter > worker[s].gen)
    <3>1. worker'[s].gen = worker[s].gen /\ worker'[s].pc = "claim"
      BY <1>1, <1>8, <2>2, NoRestartRead
    <3> QED  BY <1>5, <1>8, <2>2, <3>1 DEF ReadCounter
  <2> QED  BY <2>1, <2>2
<1>9. CASE PublishExit(s) \/ Close(s)
  <2>1. CASE PublishExit(s)
    <3>1. /\ UNCHANGED <<info, inc>> /\ worker'[s].gen = worker[s].gen
          /\ worker[s].pc \in {"restart", "stop"}
          /\ worker'[s].pc = IF worker[s].pc = "restart" THEN "restarting" ELSE "stopping"
      BY <1>1, <1>2, <2>1 DEF PublishExit
    <3> QED  BY ONLY <1>1, <1>2, <1>3, <3>1
             DEF OneRestartPerRequest, KeysInOrder, ReturnsBehind
  <2>2. CASE Close(s)
    BY <1>1, <1>2, <1>3, <2>2
       DEF Close, OneRestartPerRequest, KeysInOrder, ReturnsBehind
  <2> QED  BY <1>9, <2>1, <2>2
<1>10. CASE BuildActor(s)
  <2>1. CASE Becomes(s, "build", [At(s, "args") EXCEPT !.loaded.code = disk.code])
    BY <1>1, <1>2, <1>5, <1>10, <2>1 DEF BuildActor
  <2>2. CASE Becomes(s, "args", [At(s, "kwargs") EXCEPT !.loaded.args = disk.args])
    BY <1>1, <1>2, <1>5, <1>10, <2>2 DEF BuildActor
  <2>3. CASE Becomes(s, "kwargs", [At(s, "check") EXCEPT !.loaded.kwargs = disk.kwargs])
    BY <1>1, <1>2, <1>5, <1>10, <2>3 DEF BuildActor
  <2> QED  BY ONLY <1>10, <2>1, <2>2, <2>3 DEF BuildActor
<1>11. CASE SkipRead(s) \/ Claim(s) \/ NoTask(s) \/ Report(s)
  <2>1. CASE SkipRead(s)  BY <1>1, <1>2, <1>5, <2>1 DEF SkipRead
  <2>2. CASE Claim(s)  BY <1>1, <1>2, <1>5, <2>2 DEF Claim
  <2>3. CASE NoTask(s)  BY <1>1, <1>2, <1>5, <2>3 DEF NoTask
  <2>4. CASE Report(s)  BY <1>1, <1>2, <1>5, <2>4 DEF Report
  <2> QED  BY <1>11, <2>1, <2>2, <2>3, <2>4
<1>12. CASE WorkerFault(s)
  <2>1. CASE KillWorker(s)  BY <1>1, <1>2, <1>5, <2>1 DEF KillWorker
  <2>2. CASE TermWorker(s)  BY <1>1, <1>2, <1>5, <2>2 DEF TermWorker
  <2>3. CASE ConstructorFails(s)
    BY <1>1, <1>2, <1>3, <1>5, <2>3
       DEF ConstructorFails, OneRestartPerRequest, KeysInOrder, ReturnsBehind
  <2>4. CASE ReadFails(s)  BY <1>1, <1>2, <1>5, <2>4 DEF ReadFails
  <2>5. CASE ReportFails(s)  BY <1>1, <1>2, <1>5, <2>5 DEF ReportFails
  <2>6. CASE HandlerFails(s)  BY <1>1, <1>2, <1>5, <2>6 DEF HandlerFails
  <2>7. CASE TaskExits(s)  BY <1>1, <1>2, <1>5, <2>7 DEF TaskExits
  <2> QED  BY <1>12, <2>1, <2>2, <2>3, <2>4, <2>5, <2>6, <2>7 DEF WorkerFault
<1> QED  BY <1>4, <1>6, <1>7, <1>8, <1>9, <1>10, <1>11, <1>12 DEF WorkerStep

LEMMA KeysNext == KeysInv /\ [Next]_vars => KeysInv'
<1> SUFFICES ASSUME KeysInv, [Next]_vars PROVE KeysInv'
  OBVIOUS
<1>1. WaitInv' /\ TypeOK
  BY WaitNext DEF KeysInv, WaitInv
<1>2. /\ counter \in Nat
      /\ \A s \in Slots : worker[s].gen \in Nat
      /\ \A i \in info : i.gen \in Nat
  BY <1>1, InfoType DEF TypeOK, WorkerState, Gens
<1>3. ASSUME NEW s \in Slots, WorkerStep(s) \/ WorkerFault(s) PROVE KeysInv'
  <2>1. /\ \A t \in Slots \ {s} : worker'[t] = worker[t] /\ inc'[t] = inc[t]
        /\ counter' = counter
    BY <1>1, <1>3, Elsewhere
  <2>2. \A i \in info' : i \in info \/ i.id[1] = s
    BY <1>3 DEF WorkerStep, StartWorker, ReadGeneration, PublishIdentity, Id, BuildActor,
       SkipRead, ReadCounter, Claim, NoTask, Report, PublishExit, Close,
       WorkerFault, KillWorker, TermWorker, ConstructorFails, ReadFails,
       ReportFails, HandlerFails, TaskExits, serverVars
  <2>3. \A t \in Slots \ {s} :
           /\ KeysInOrder(t)'
           /\ ReturnsBehind(t)'
    BY <2>1, <2>2 DEF KeysInv, KeysInOrder, ReturnsBehind
  <2> QED  BY <1>1, <1>3, <2>3, WorkerKeepsKeys DEF KeysInv
<1>4. ASSUME UNCHANGED <<info, inc>>, counter' \in {counter, counter + 1},
             \A s \in Slots : worker'[s] = worker[s] \/ worker'[s].pc = "gone"
      PROVE  KeysInv'
  BY <1>1, <1>2, <1>4 DEF KeysInv, KeysInOrder, ReturnsBehind, OneRestartPerRequest
<1>5. ASSUME NEW j \in Jobs, SlurmStep(j) PROVE KeysInv'
  BY <1>1, <1>4, <1>5
     DEF SlurmStep, StartJob, SignalJob, EndJob, Process, serverVars, TypeOK
<1>6. CASE DriverCall
  BY <1>4, <1>6 DEF DriverCall, EditCode, DefineArgs, DefineKwargs, RestartNoWait,
     RestartAndWait, AdvanceCounter, SubmitJob, ForgetJob, serverVars
<1>7. CASE WaitStep \/ WaitRaises
  BY <1>4, <1>7 DEF WaitStep, ScanWorkers, LookUpExit, CheckJobs, WaitReturns,
     LeaveWait, WaitSleeps, WaitRaises, serverVars
<1>8. CASE UNCHANGED vars
  BY <1>4, <1>8 DEF vars, serverVars
<1> QED  BY <1>3, <1>5, <1>6, <1>7, <1>8 DEF Next

(* No worker restarts in a loop: of two processes of one worker script     *)
(* that published a generation, the later one published a higher one.      *)
THEOREM OneRestartPerRequestAlways == Spec => []OneRestartPerRequest
<1>1. KeysInv => OneRestartPerRequest
  BY DEF KeysInv
<1> QED  BY <1>1, KeysInit, KeysNext, PTL DEF Spec

-----------------------------------------------------------------------------
(* At most one late claim.                                                 *)

(* A worker that claimed a task since a request must read the counter      *)
(* before it claims another.                                               *)
LateInv(s) ==
    /\ worker[s].late <= 1
    /\ worker[s].late > 0 => worker[s].gen < counter
    /\ worker[s].pc \in {"boot", "claim"} => worker[s].late = 0
    /\ worker[s].skip /\ worker[s].pc = "check" => worker[s].late = 0

LateClaimInv == WaitInv /\ \A s \in Slots : LateInv(s)

LEMMA LateInit == Init => LateClaimInv
  BY WaitInit DEF Init, LateClaimInv, LateInv, Process

LEMMA WorkerKeepsLate ==
  ASSUME ReportOutlastsCheckInterval,
         LateClaimInv, NEW s \in Slots, WorkerStep(s) \/ WorkerFault(s)
  PROVE  LateInv(s)'
<1>1. /\ TypeOK /\ counter \in Nat /\ worker[s] \in WorkerState /\ worker[s].gen \in Nat
      /\ worker[s].late \in Nat
      /\ worker \in [Slots -> WorkerState] /\ LateInv(s) /\ ReadFirst(s)
  BY DEF LateClaimInv, WaitInv, SlotInv, TypeOK, WorkerState, Gens
<1>2. counter' = counter
  BY <1>1, Elsewhere
<1> USE <1>1, <1>2 DEF LateInv, Becomes, At, Process, WorkerState
<1>3. CASE StartWorker(s)  BY <1>3 DEF StartWorker
<1>4. CASE ReadGeneration(s)  BY <1>4 DEF ReadGeneration, ReadFirst
<1>5. CASE PublishIdentity(s)  BY <1>5 DEF PublishIdentity
<1>6. CASE BuildActor(s)
  <2>1. CASE Becomes(s, "build", [At(s, "args") EXCEPT !.loaded.code = disk.code])
    BY <2>1
  <2>2. CASE Becomes(s, "args", [At(s, "kwargs") EXCEPT !.loaded.args = disk.args])
    BY <2>2
  <2>3. CASE Becomes(s, "kwargs", [At(s, "check") EXCEPT !.loaded.kwargs = disk.kwargs])
    BY <2>3 DEF ReadFirst
  <2> QED  BY ONLY <1>6, <2>1, <2>2, <2>3 DEF BuildActor
<1>7. CASE SkipRead(s)  BY <1>7 DEF SkipRead
<1>8. CASE ReadCounter(s)
  <2>1. CASE counter > worker[s].gen  BY <1>8, <2>1 DEF ReadCounter
  <2>2. CASE ~(counter > worker[s].gen)
    <3>1. /\ worker'[s].gen = worker[s].gen /\ worker'[s].pc = "claim"
          /\ worker'[s].late = worker[s].late
      BY <1>8, <2>2, NoRestartRead
    <3>2. worker[s].late = 0  BY ONLY <1>1, <2>2 DEF LateInv
    <3> QED  BY ONLY <1>1, <3>1, <3>2 DEF LateInv
  <2> QED  BY <2>1, <2>2
<1>9. CASE Claim(s)  BY <1>9 DEF Claim
<1>10. CASE NoTask(s)  BY <1>10 DEF NoTask
<1>11. CASE Report(s)  BY <1>11 DEF Report
<1>12. CASE PublishExit(s) \/ Close(s)  BY <1>12 DEF PublishExit, Close
<1>13. CASE KillWorker(s)  BY <1>13 DEF KillWorker
<1>14. CASE TermWorker(s)  BY <1>14 DEF TermWorker
<1>15. CASE ConstructorFails(s)  BY <1>15 DEF ConstructorFails
<1>16. CASE ReadFails(s)  BY <1>16 DEF ReadFails
<1>17. CASE ReportFails(s)  BY <1>17 DEF ReportFails
<1>18. CASE HandlerFails(s)  BY <1>18 DEF HandlerFails
<1>19. CASE TaskExits(s)  BY <1>19 DEF TaskExits
<1> QED
  BY <1>3, <1>4, <1>5, <1>6, <1>7, <1>8, <1>9, <1>10, <1>11, <1>12, <1>13, <1>14,
     <1>15, <1>16, <1>17, <1>18, <1>19 DEF WorkerStep, WorkerFault

LEMMA LateNext ==
  ASSUME ReportOutlastsCheckInterval
  PROVE  LateClaimInv /\ [Next]_vars => LateClaimInv'
<1> SUFFICES ASSUME LateClaimInv, [Next]_vars PROVE LateClaimInv'
  OBVIOUS
<1>1. WaitInv' /\ TypeOK
  BY WaitNext DEF LateClaimInv, WaitInv
<1>2. counter \in Nat /\ \A s \in Slots : worker[s].gen \in Nat
  BY <1>1 DEF TypeOK, WorkerState, Gens
<1>3. ASSUME NEW s \in Slots, WorkerStep(s) \/ WorkerFault(s) PROVE LateClaimInv'
  <2>1. /\ \A t \in Slots \ {s} : worker'[t] = worker[t]
        /\ counter' = counter
    BY <1>1, <1>3, Elsewhere
  <2>2. \A t \in Slots \ {s} : LateInv(t)'
    BY <2>1 DEF LateClaimInv, LateInv
  <2> QED  BY <1>1, <1>3, <2>2, WorkerKeepsLate DEF LateClaimInv
<1>4. ASSUME counter' \in {counter, counter + 1},
             \A s \in Slots : worker'[s] = worker[s] \/ worker'[s] = Process("gone")
      PROVE  LateClaimInv'
  BY <1>1, <1>2, <1>4 DEF LateClaimInv, LateInv, Process
<1>5. ASSUME NEW j \in Jobs, SlurmStep(j) PROVE LateClaimInv'
  BY <1>1, <1>4, <1>5 DEF SlurmStep, StartJob, SignalJob, EndJob, serverVars, TypeOK
<1>6. CASE DriverCall
  BY <1>4, <1>6 DEF DriverCall, EditCode, DefineArgs, DefineKwargs, RestartNoWait,
     RestartAndWait, AdvanceCounter, SubmitJob, ForgetJob, serverVars
<1>7. CASE WaitStep \/ WaitRaises
  BY <1>4, <1>7 DEF WaitStep, ScanWorkers, LookUpExit, CheckJobs, WaitReturns,
     LeaveWait, WaitSleeps, WaitRaises, serverVars
<1>8. CASE UNCHANGED vars
  BY <1>4, <1>8 DEF vars, serverVars
<1> QED  BY <1>3, <1>5, <1>6, <1>7, <1>8 DEF Next

(* Without a wait, a worker claims at most one task after a request that   *)
(* it does not know of, and one more for each read of the counter that     *)
(* fails and each task whose exception it cannot report; since the tries   *)
(* of a report take as long as the rate limit.                             *)
THEOREM AtMostOneLateClaimAlways ==
  ASSUME ReportOutlastsCheckInterval
  PROVE  Spec => []AtMostOneLateClaim
<1>1. LateClaimInv => AtMostOneLateClaim
  BY DEF LateClaimInv, LateInv, AtMostOneLateClaim
<1> QED  BY <1>1, LateInit, LateNext, PTL DEF Spec

=============================================================================
