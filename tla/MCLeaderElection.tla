------------------------- MODULE MCLeaderElection -------------------------
(* The lease with the durations of the .cfg, in units of the retry period. *)
EXTENDS LeaderElection

ASSUME DurationAssumption == DurationsType
=============================================================================
