--------------------------- MODULE MCResumeHandle ---------------------------
(* A small instance of ResumeHandle for TLC. *)
EXTENDS ResumeHandle

CONSTANTS l1, l2  \* locators
=============================================================================
