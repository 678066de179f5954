-------------------------------- MODULE MCDaemon --------------------------------
(* The threads of a daemon with a listener, with and without D-Bus. *)
EXTENDS Daemon

AllThreads == <<"queue", "scheduler", "listener", "dbus">>
NoDBus == <<"queue", "scheduler", "listener">>
=============================================================================
