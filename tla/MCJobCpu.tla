------------------------------ MODULE MCJobCpu ------------------------------
(* An instance of JobCpu for TLC: a worker and a process it started, on a  *)
(* node without the files of cgroup v2.                                    *)
EXTENDS JobCpu

CONSTANTS w, p

=============================================================================
