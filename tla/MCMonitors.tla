----------------------------- MODULE MCMonitors -----------------------------
(* An instance of Monitors for TLC: two workers, the job and GPU monitors. *)
EXTENDS Monitors

CONSTANTS s1, s2

JobOnly == <<"job">>

=============================================================================
