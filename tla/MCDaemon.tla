------------------------------ MODULE MCDaemon ------------------------------
(* Small instances of the daemon for TLC. *)
EXTENDS Daemon
=============================================================================
