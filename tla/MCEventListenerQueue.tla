-------------------------- MODULE MCEventListenerQueue --------------------------
(* The queue with the paths a cfg file names. *)
EXTENDS EventListenerQueue, TLC

=============================================================================
