------------------------------ MODULE MCDaemon ------------------------------
(* Small instances of Daemon.                                              *)
EXTENDS Daemon

=============================================================================
