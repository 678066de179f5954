------------------------------- MODULE MCJobQueue -------------------------------
(* The job queue with the threads a cfg file names. *)
EXTENDS JobQueue, TLC

ThreadSymmetry == Permutations(Thread)
=============================================================================
