---------------------------- MODULE MCOwnership ----------------------------
(* Small instances of Ownership for TLC. *)
EXTENDS Ownership

CONSTANTS h1, h2  \* hub processes
=============================================================================
