------------------------------- MODULE JobCpu -------------------------------
(***************************************************************************)
(* CgroupSampler: the CPU reading of one job on one node, as a rate from   *)
(* two cumulative counts.  The job's processes come and go between two     *)
(* readings, and each reading takes the first of three sources it can      *)
(* read: the cgroup's counter, the processes of cgroup.procs, or the       *)
(* sampling worker and its descendants.                                    *)
(***************************************************************************)
EXTENDS Naturals, FiniteSets, FiniteSetsExt

CONSTANTS
    Processes,  \* the processes the job may run
    Sampler,    \* the worker that samples
    OwnTree,    \* that worker and its descendants
    Sources,    \* what a reading may come from on this node
    MaxTime     \* bound on the clock

VARIABLES
    now,        \* the clock, in seconds
    alive,      \* the processes that run
    spent,      \* CPU seconds of each process
    charged,    \* CPU seconds the kernel charged the job's cgroup
    last,       \* self._last: when, and how many CPU seconds
    shown,      \* the last reading: CPU seconds (cores * seconds), and seconds
    used        \* what the job used since the last reading; no step reads it

vars == <<now, alive, spent, charged, last, shown, used>>

-----------------------------------------------------------------------------
Count == [when : Nat, cpu : Nat]
Never == [when |-> 0, cpu |-> 0]

TypeOK ==
    /\ now \in 0..MaxTime
    /\ alive \subseteq Processes
    /\ spent \in [Processes -> Nat]
    /\ charged \in Nat
    /\ last \in [known : BOOLEAN, count : Count]
    /\ shown \in [seconds : Nat, cpu : Nat, used : Nat]
    /\ used \in Nat

Init ==
    /\ now = 0
    /\ alive = Processes
    /\ spent = [p \in Processes |-> 0]
    /\ charged = 0
    /\ last = [known |-> FALSE, count |-> Never]
    /\ shown = [seconds |-> 0, cpu |-> 0, used |-> 0]
    /\ used = 0

(* A second passes, in which some processes of the job use a core each.    *)
Tick ==
    /\ now < MaxTime
    /\ now' = now + 1
    /\ \E busy \in SUBSET alive :
          /\ spent' = [p \in Processes |-> spent[p] + IF p \in busy THEN 1 ELSE 0]
          /\ charged' = charged + Cardinality(busy)
          /\ used' = used + Cardinality(busy)
    /\ UNCHANGED <<alive, last, shown>>

(* A process other than the sampler ends, and psutil no longer finds it.   *)
EndProcess(p) ==
    /\ p \in alive \ {Sampler}
    /\ alive' = alive \ {p}
    /\ UNCHANGED <<now, spent, charged, last, shown, used>>

(* _read_cgroup, or one of the two sums of _read_processes.                *)
Reading(source) ==
    CASE source = "cgroup"    -> charged
      [] source = "processes" -> MapThenSumSet(LAMBDA p : spent[p], alive)
      [] source = "tree"      -> MapThenSumSet(LAMBDA p : spent[p], alive \cap OwnTree)

(* The CPU seconds of a rate, clamped at 0.                                *)
Gained(cpu) == IF cpu > last.count.cpu THEN cpu - last.count.cpu ELSE 0

(* sample(): a rate from the last reading, where time has passed.          *)
Sample ==
    \E source \in Sources :
        LET cpu     == Reading(source)
            seconds == IF last.known THEN now - last.count.when ELSE 0
        IN
        /\ last' = [known |-> TRUE, count |-> [when |-> now, cpu |-> cpu]]
        /\ shown' = [seconds |-> seconds,
                     cpu     |-> IF seconds > 0 THEN Gained(cpu) ELSE 0,
                     used    |-> used]
        /\ used' = 0
        /\ UNCHANGED <<now, alive, spent, charged>>

Next == Tick \/ Sample \/ \E p \in Processes : EndProcess(p)

Spec == Init /\ [][Next]_vars

-----------------------------------------------------------------------------
(* "Cores the job used on that node, averaged since the previous sample":  *)
(* every reading after the first shows the CPU seconds the job used.       *)
CpuIsWhatTheJobUsed == shown.seconds > 0 => shown.cpu = shown.used

=============================================================================
