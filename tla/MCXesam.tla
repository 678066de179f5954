-------------------------------- MODULE MCXesam --------------------------------
(* Sessions, searches, calls and jobs that a cfg file names. *)
EXTENDS Xesam
=============================================================================
