-------------------------- MODULE MCScheduledJobs --------------------------
(* Instances of ScheduledJobs for TLC. *)
EXTENDS ScheduledJobs, TLC

CONSTANTS d1, d2, w1, w2

=============================================================================
