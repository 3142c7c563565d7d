----------------------------- MODULE MCRepoLock -----------------------------
(* Small instances of RepoLock for TLC. *)
EXTENDS RepoLock, TLC

CONSTANTS c1, c2, c3, c4  \* four claims: one dies, three contend

Symmetry == Permutations(Claims)
=============================================================================
