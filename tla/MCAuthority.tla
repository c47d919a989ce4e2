----------------------------- MODULE MCAuthority ------------------------------
(* Small instances of Authority for TLC. *)
EXTENDS Authority

CONSTANTS read, edit, star, blank

\* Nothing, a selection that repeats a grant, and one that adds the system's.
Passed == {<<>>, <<read, edit, read>>, <<Star>>}
=============================================================================
