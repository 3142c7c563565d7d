------------------------------ MODULE MCKernel ------------------------------
(* Small instances of Kernel for TLC. *)
EXTENDS Kernel, TLC

CONSTANTS c1, c2, c3  \* commands

Symmetry == Permutations(Commands)
=============================================================================
