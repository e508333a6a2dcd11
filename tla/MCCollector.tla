----------------------------- MODULE MCCollector -----------------------------
(***************************************************************************)
(* Model checking of Collector.                                            *)
(***************************************************************************)
EXTENDS Collector

(* Three runs, each with the keys that one part of a snapshot depends on.  *)
PilotJob == {"job_info", "job_start", "job_exit", "worker_info", "job_series"}
TaskOf   == {"worker_info", "worker_exit", "job_info", "job_exit", "task_name"}
Waiting  == {"display"}

OnePartEach == {PilotJob, TaskOf, Waiting}
JustTasks   == {{"task_name"}}

=============================================================================
