---------------------------- MODULE MCActionStream ----------------------------
(* Small instances of ActionStream for TLC. *)
EXTENDS ActionStream

CONSTANTS reader, other
=============================================================================
