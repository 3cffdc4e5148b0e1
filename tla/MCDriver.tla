------------------------------ MODULE MCDriver ------------------------------
(* Small instances of the serial driver for TLC. *)
EXTENDS Driver
=============================================================================
