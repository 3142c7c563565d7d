-------------------------- MODULE MCGcCoordinator --------------------------
(* A small instance of GcCoordinator for TLC. *)
EXTENDS GcCoordinator

CONSTANTS s1, s2  \* sessions
=============================================================================
