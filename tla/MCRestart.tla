----------------------------- MODULE MCRestart -----------------------------
(* Instances of Restart for TLC. *)
EXTENDS Restart, TLC

CONSTANTS s1, s2, j1, j2

OneSlot == s1 :> j1
TwoJobs == s1 :> j1 @@ s2 :> j2

=============================================================================
