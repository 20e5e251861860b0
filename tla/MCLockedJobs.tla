---------------------------- MODULE MCLockedJobs ----------------------------
(* Two replicas that start together, two overlapping runs of the job in each *)
(* and any two faults: a crash, a failed call, a lock that runs out early.   *)
EXTENDS LockedJobs
=============================================================================
