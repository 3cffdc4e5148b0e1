----------------------------- MODULE MCManager ------------------------------
(* Small instances of the connection manager for TLC. *)
EXTENDS Manager
=============================================================================
