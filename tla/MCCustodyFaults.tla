--------------------------- MODULE MCCustodyFaults ---------------------------
(* A small instance of Custody with crashes, in which something else than  *)
(* the hub may write the custody ref, or may not: liveness is asked only   *)
(* of the runs in which it does not.                                       *)
EXTENDS CustodyProps, TLC

CONSTANTS p1, p2, t0, t1

VARIABLE foreign  \* something else writes the ref in this run

FaultsInit == Init /\ foreign \in BOOLEAN

FaultsNext == (Next \/ (foreign /\ MoveRefOutside)) /\ UNCHANGED foreign

FaultsSpec == FaultsInit /\ [][FaultsNext]_<<vars, foreign>> /\ Fairness

\* A deletion of a session whose head advanced is always finished once the
\* worktree is gone, wherever processes die in it, unless something else writes
\* the custody ref (gcOne, completeDeletion).
DeletionCompletes == ~foreign => AdvancedDeletionCompletes
=============================================================================
