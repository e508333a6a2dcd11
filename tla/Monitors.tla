------------------------------ MODULE Monitors ------------------------------
(***************************************************************************)
(* The monitors of one pilot job on one node: the election in the          *)
(* constructor of PilotWorker, the threads of the elected worker, and the  *)
(* close() that stops them, under restarts of the job group.               *)
(*                                                                         *)
(* The key of the election holds the job and the host, so other jobs and   *)
(* nodes have elections of their own.  A worker restarts as in Restart,    *)
(* of which only the generation and the order of the steps are kept.       *)
(***************************************************************************)
EXTENDS Naturals, Sequences, FiniteSets

CONSTANTS
    Slots,          \* runs of the worker script on this node
    AlwaysStarted,  \* the host and the job monitor, in the order they start
    MaxGen          \* bound on restart requests

GPU == "gpu"        \* the monitor that starts only where NVML lists a GPU

ASSUME MonitorsOK ==
    /\ AlwaysStarted \in Seq({"host", "job"}) /\ AlwaysStarted # <<>>
    /\ MaxGen \in Nat /\ IsFiniteSet(Slots)

VARIABLES
    counter,    \* restart_generation:<group>
    election,   \* host_monitor:<hostname>:<job-id>:<generation>
    info,       \* the server has the slurm_job_gpu_info key
    series,     \* the server has time series of a GPU
    worker,     \* the worker process of each slot
    thread,     \* the monitor threads of that process
    lost        \* generations whose elected worker ended, but not to restart

vars == <<counter, election, info, series, worker, thread, lost>>

-----------------------------------------------------------------------------
Gens  == 0..MaxGen
Kinds == {AlwaysStarted[i] : i \in DOMAIN AlwaysStarted} \cup {GPU}

(* boot, elect: the constructor up to the monitors.  serve: it builds the  *)
(* actor, then main() runs.  stop, join, close: close(), or the handler    *)
(* around the actor.  again: the process ended with RESTART_EXIT_CODE.     *)
(* gone: the script ended too.                                             *)
Pc == {"boot", "elect", "serve", "stop", "join", "close", "again", "gone"}

WorkerState == [pc       : Pc,
                gen      : Gens,        \* self.restart_generation
                monitors : Seq(Kinds),  \* self.monitors, without the stopped ones
                elected  : BOOLEAN,     \* the counter said 1
                restarts : BOOLEAN]     \* main() returned

(* none: no thread runs.  reading: inside append_sample.  waiting: for the *)
(* next reading, or to be stopped.                                         *)
ThreadState == [at        : {"none", "reading", "waiting"},
                stopping  : BOOLEAN,
                published : BOOLEAN]    \* GpuMonitor._published holds the GPU

Process(p) == [pc |-> p, gen |-> 0, monitors |-> <<>>,
               elected |-> FALSE, restarts |-> FALSE]
NoThread   == [at |-> "none", stopping |-> FALSE, published |-> FALSE]
NewThread  == [NoThread EXCEPT !.at = "reading"]
NoThreads  == [k \in Kinds |-> NoThread]

Over(s)    == worker[s].pc \in {"again", "gone"}
Runs(s, k) == thread[s][k].at # "none"

(* The types; and each slot takes part once in the election of a generation. *)
TypeOK ==
    /\ counter \in Gens
    /\ election \in [Gens -> 0..Cardinality(Slots)]
    /\ info \in BOOLEAN
    /\ series \in BOOLEAN
    /\ worker \in [Slots -> WorkerState]
    /\ thread \in [Slots -> [Kinds -> ThreadState]]
    /\ lost \subseteq Gens

Init ==
    /\ counter = 0
    /\ election = [g \in Gens |-> 0]
    /\ info = FALSE
    /\ series = FALSE
    /\ worker = [s \in Slots |-> Process("boot")]
    /\ thread = [s \in Slots |-> NoThreads]
    /\ lost = {}

-----------------------------------------------------------------------------
(* The worker.                                                             *)

(* The worker of slot s is at p, and becomes w; its threads go on.         *)
Becomes(s, p, w) ==
    /\ worker[s].pc = p
    /\ worker' = [worker EXCEPT ![s] = w]
    /\ UNCHANGED counter

Goes(s, p) == [worker[s] EXCEPT !.pc = p]

(* A generation whose elected worker leaves for good has no monitor.       *)
Loses(s) == lost' = IF worker[s].elected THEN lost \cup {worker[s].gen} ELSE lost

(* The process ends, with its daemon threads.                              *)
Ends(s, p, q) ==
    /\ Becomes(s, p, Process(q))
    /\ thread' = [thread EXCEPT ![s] = NoThreads]
    /\ UNCHANGED <<election, info, series>>

(* restart_jobs *)
RequestRestart ==
    /\ counter < MaxGen
    /\ counter' = counter + 1
    /\ UNCHANGED <<election, info, series, worker, thread, lost>>

(* The worker script starts another worker after RESTART_EXIT_CODE.        *)
StartWorker(s) ==
    /\ Becomes(s, "again", Process("boot"))
    /\ UNCHANGED <<election, info, series, thread, lost>>

(* The constructor reads the generation, and publishes it with the identity. *)
ReadGeneration(s) ==
    /\ Becomes(s, "boot", [Goes(s, "elect") EXCEPT !.gen = counter])
    /\ UNCHANGED <<election, info, series, thread, lost>>

(* The threads of the host and the job start, and that of the GPUs last,   *)
(* where NVML lists a GPU and opens a session.                             *)
StartedLists == {AlwaysStarted, Append(AlwaysStarted, GPU)}

(* One request to the election counter of generation g, and what follows:  *)
(* the worker that sees 1 starts the monitors.                             *)
ElectFor(s, g) ==
    /\ election' = [election EXCEPT ![g] = @ + 1]
    /\ \E started \in IF election'[g] = 1 THEN StartedLists ELSE {<<>>} :
          /\ Becomes(s, "elect", [Goes(s, "serve") EXCEPT
                                    !.elected = (election'[g] = 1),
                                    !.monitors = started])
          /\ thread' = [thread EXCEPT ![s] =
                [k \in Kinds |-> IF \E i \in DOMAIN started : started[i] = k
                                 THEN NewThread ELSE NoThread]]
    /\ UNCHANGED <<info, series, lost>>

(* Mutant: the key of the election has no generation. *)
ElectByHost(s) == ElectFor(s, 0)

(* _start_monitors *)
Elect(s) == ElectFor(s, worker[s].gen)

(* The constructor raises outside of its try: the request failed before    *)
(* the server counted it or after, or SIGTERM came between the threads.    *)
ElectFailsInto(s, q) ==
    LET g == worker[s].gen IN
    /\ Becomes(s, "elect", Process(q))
    /\ \/ UNCHANGED <<election, lost>>
       \/ /\ election' = [election EXCEPT ![g] = @ + 1]
          /\ lost' = IF election'[g] = 1 THEN lost \cup {g} ELSE lost
    /\ UNCHANGED <<info, series, thread>>

(* Mutant: the worker script starts another worker after any failure. *)
ElectFailsAndRetries(s) == ElectFailsInto(s, "again")

(* Mutant: a worker whose request fails monitors the node to be safe. *)
ElectFailsOpen(s) ==
    /\ Becomes(s, "elect", [Goes(s, "serve") EXCEPT !.monitors = AlwaysStarted])
    /\ thread' = [thread EXCEPT ![s] =
          [k \in Kinds |-> IF k = GPU THEN NoThread ELSE NewThread]]
    /\ UNCHANGED <<election, info, series, lost>>

(* The process ends with a status that ends the worker script. *)
ElectFails(s) == ElectFailsInto(s, "gone")

(* main() meets the new generation and returns.                            *)
MeetRestart(s) ==
    /\ worker[s].gen < counter
    /\ Becomes(s, "serve", [Goes(s, "stop") EXCEPT !.restarts = TRUE])
    /\ UNCHANGED <<election, info, series, thread, lost>>

(* The actor's constructor raises, a task exits, or SIGTERM raises: the    *)
(* monitors stop before the exception goes on.                             *)
Raise(s) ==
    /\ Becomes(s, "serve", Goes(s, "stop"))
    /\ Loses(s)
    /\ UNCHANGED <<election, info, series, thread>>

(* A crash or SIGKILL, at any moment.                                      *)
Die(s) ==
    /\ ~Over(s)
    /\ Ends(s, worker[s].pc, "gone")
    /\ Loses(s)

-----------------------------------------------------------------------------
(* close(), and the handler of the constructor, which does the same.       *)

(* stop() of the first monitor left sets its event.                        *)
SetStopping(s) ==
    LET k == Head(worker[s].monitors) IN
    /\ worker[s].monitors # <<>>
    /\ Becomes(s, "stop", Goes(s, "join"))
    /\ thread' = [thread EXCEPT ![s][k].stopping = Runs(s, k)]
    /\ UNCHANGED <<election, info, series, lost>>

(* Mutant: join() waits for the thread, however long that takes. *)
JoinWithoutTimeout(s) ==
    /\ Becomes(s, "join", [Goes(s, "stop") EXCEPT !.monitors = Tail(@)])
    /\ ~Runs(s, Head(worker[s].monitors))
    /\ UNCHANGED <<election, info, series, thread, lost>>

(* join() returns when the thread ended, or after 10 seconds.              *)
Join(s) ==
    /\ Becomes(s, "join", [Goes(s, "stop") EXCEPT !.monitors = Tail(@)])
    /\ UNCHANGED <<election, info, series, thread, lost>>

(* All monitors are stopped: publish the exit, then close the client.      *)
CloseClient(s) ==
    /\ worker[s].monitors = <<>>
    /\ Becomes(s, "stop", Goes(s, "close"))
    /\ UNCHANGED <<election, info, series, thread, lost>>

(* The actor's own close() ends, or raises; the process ends.              *)
Exit(s) ==
    /\ \E q \in {"gone"} \cup (IF worker[s].restarts THEN {"again"} ELSE {}) :
          Ends(s, "close", q)
    /\ UNCHANGED lost

-----------------------------------------------------------------------------
(* The threads.  Both the sampler and a request may hang or raise.         *)

ThreadBecomes(s, k, p, t) ==
    /\ thread[s][k].at = p
    /\ thread' = [thread EXCEPT ![s][k] = t]
    /\ UNCHANGED <<counter, election, worker, lost>>

Moves(s, k, q) == [thread[s][k] EXCEPT !.at = q]

(* The sampler or a request raises, one on a closed client always: a gap,  *)
(* and not a stop.                                                         *)
Fail(s, k) ==
    /\ ThreadBecomes(s, k, "reading", Moves(s, k, "waiting"))
    /\ UNCHANGED <<info, series>>

(* Mutant: the GPU counts as published before the request, which may fail. *)
SetInfoUnsure(s) ==
    /\ ~thread[s][GPU].published
    /\ worker[s].pc # "close"
    /\ \E q \in {"reading", "waiting"} :
          /\ ThreadBecomes(s, GPU, "reading", [Moves(s, GPU, q) EXCEPT !.published = TRUE])
          /\ info' = (info \/ q = "reading")
    /\ UNCHANGED series

(* map_set of slurm_job_gpu_info, when this monitor first sees the GPU.    *)
SetInfo(s) ==
    /\ ~thread[s][GPU].published
    /\ worker[s].pc # "close"
    /\ ThreadBecomes(s, GPU, "reading", [thread[s][GPU] EXCEPT !.published = TRUE])
    /\ info' = TRUE
    /\ UNCHANGED series

(* time_series_append, through a client that is still open.                *)
AppendPoint(s, k) ==
    /\ k = GPU => thread[s][k].published
    /\ worker[s].pc # "close"
    /\ ThreadBecomes(s, k, "reading", Moves(s, k, "waiting"))
    /\ series' = (series \/ k = GPU)
    /\ UNCHANGED info

(* _stopping.wait returns: TRUE once the event is set, which ends run().   *)
Wake(s, k) ==
    /\ ThreadBecomes(s, k, "waiting",
                     IF thread[s][k].stopping THEN NoThread ELSE Moves(s, k, "reading"))
    /\ UNCHANGED <<info, series>>

-----------------------------------------------------------------------------
(* The steps a worker that is neither killed nor signalled takes.          *)
Construct(s) == ReadGeneration(s) \/ Elect(s)
Close(s)     == SetStopping(s) \/ Join(s) \/ CloseClient(s) \/ Exit(s)
Sample(s, k) == AppendPoint(s, k) \/ Wake(s, k)

Next ==
    \/ RequestRestart
    \/ \E s \in Slots :
          \/ StartWorker(s) \/ Construct(s) \/ ElectFails(s)
          \/ MeetRestart(s) \/ Raise(s) \/ Die(s) \/ Close(s)
          \/ SetInfo(s)
          \/ \E k \in Kinds : Sample(s, k) \/ Fail(s, k)

Spec == Init /\ [][Next]_vars

-----------------------------------------------------------------------------
(* Safety.                                                                 *)

(* "Exactly one worker per job, node and restart generation sees 1, and    *)
(* takes the node": a worker of the newest generation that is past the     *)
(* election has one elected peer, or is it, whose host and job monitors    *)
(* all run; unless that one died or left for good.                         *)
Monitoring(s) ==
    worker[s].elected /\ \A k \in Kinds \ {GPU} : Runs(s, k)

MonitoredUnlessLost ==
    \A s \in Slots :
        worker[s].pc = "serve" /\ worker[s].gen = counter /\ counter \notin lost =>
            \E t \in Slots :
                /\ Monitoring(t) /\ worker[t].gen = counter
                /\ \A u \in Slots \ {t} :
                      worker[u].gen = counter => ~worker[u].elected

(* The workers of one generation never sample the node twice over: one of  *)
(* them at most has monitor threads, whichever requests to the counter     *)
(* failed half-way, whoever died or restarted, and although a thread goes  *)
(* on after the join() of its stop() gave up on it.                        *)
OneMonitorPerGeneration ==
    \A s, t \in Slots :
        s # t /\ worker[s].gen = worker[t].gen =>
            ~\E k, l \in Kinds : Runs(s, k) /\ Runs(t, l)

(* A reader that finds a GPU's time series finds what the GPU is: the map  *)
(* key is there first, whichever requests failed and whoever samples.      *)
InfoBeforeSeries == series => info

-----------------------------------------------------------------------------
(* Liveness.                                                               *)

(* Worker processes run and restart.  Threads and NVML may hang.           *)
WorkerStep(s) == StartWorker(s) \/ Construct(s) \/ MeetRestart(s) \/ Close(s)

FairSpec == Spec /\ \A s \in Slots : WF_vars(WorkerStep(s))

(* "The node comes back when restart_jobs restarts the workers of a job on *)
(* it, since the new workers hold a new election": after the last restart  *)
(* a worker of the new generation monitors again, unless it died or left   *)
(* for good, or no worker came back.  So an old worker whose monitor hangs  *)
(* must not stop for ever to close it.                                     *)
MonitoredAfterRestart ==
    counter = MaxGen ~>
        \/ \E s \in Slots : Monitoring(s) /\ worker[s].gen = MaxGen
        \/ MaxGen \in lost
        \/ \A s \in Slots : worker[s].pc = "gone"

=============================================================================
