---------------------------- MODULE MCPilotJobs ----------------------------
(* Instances of PilotJobs for TLC. *)
EXTENDS PilotJobs

CONSTANTS g1

=============================================================================
