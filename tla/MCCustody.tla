----------------------------- MODULE MCCustody -----------------------------
(* Small instances of Custody for TLC. *)
EXTENDS CustodyProps, TLC

CONSTANTS p1, p2, t0, t1  \* two processes, two contents of the worktree

Symmetry == Permutations(Procs)
=============================================================================
