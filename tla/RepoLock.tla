------------------------------ MODULE RepoLock ------------------------------
(***************************************************************************)
(* The repository lock of src/locks.ts: a directory created exclusively,   *)
(* an owner file written into it afterwards, owner-only release, and the   *)
(* reclaim of a lock whose owner is dead by renaming it aside.             *)
(*                                                                         *)
(* A claim is one call of acquireRepositoryLock and what its process does  *)
(* until the lock is released; each has its own token and makes at most    *)
(* one directory, so both are named by the claim.  Each step is one call   *)
(* on the file system, which resolves the lock's path anew.                *)
(***************************************************************************)
EXTENDS Naturals, FiniteSets

CONSTANTS
  Claims,     \* calls of acquireRepositoryLock, each with a token of its own
  None,       \* nothing at a path, no owner file
  MaxCrashes  \* bound: processes that die

ASSUME RepoLockAssumption == None \notin Claims /\ MaxCrashes \in Nat

VARIABLES
  lockDir,   \* the directory at <name>.lock
  aside,     \* the directory at the reclaim path of each claim
  owner,     \* the token in each directory's owner.json
  temps,     \* the claims whose temporary owner file lies in each directory
  at,        \* where each claim is
  observed,  \* the dead owner each claim judged last
  dead,      \* claims whose process died
  judges     \* history: the claims that judged each owner dead

dirs == <<lockDir, aside, owner, temps>>
vars == <<dirs, at, observed, dead, judges>>

Places == {"mkdir", "classify", "rename", "inspect", "discard", "restore", "made", "written",
           "undo", "undoing", "held", "releasing", "unlinking", "released", "failed"}

MaybeClaim == Claims \cup {None}

TypeOK ==
  /\ lockDir \in MaybeClaim
  /\ aside \in [Claims -> MaybeClaim]
  /\ owner \in [Claims -> MaybeClaim]
  /\ temps \in [Claims -> SUBSET Claims]
  /\ at \in [Claims -> Places]
  /\ observed \in [Claims -> MaybeClaim]
  /\ dead \subseteq Claims
  /\ judges \in [Claims -> SUBSET Claims]

Init ==
  /\ lockDir = None
  /\ aside = [c \in Claims |-> None]
  /\ owner = [d \in Claims |-> None]
  /\ temps = [d \in Claims |-> {}]
  /\ at = [c \in Claims |-> "mkdir"]
  /\ observed = [c \in Claims |-> None]
  /\ dead = {}
  /\ judges = [d \in Claims |-> {}]

Step(c, from, to) ==
  /\ c \notin dead /\ at[c] = from
  /\ at' = [at EXCEPT ![c] = to]
  /\ UNCHANGED dead

\* What is found through the lock's path (readOwner): no owner where there is
\* no directory, or no owner file in it.
LockOwner == IF lockDir = None THEN None ELSE owner[lockDir]
LockTemps == IF lockDir = None THEN {} ELSE temps[lockDir]
LockEmpty == LockOwner = None /\ LockTemps = {}

-----------------------------------------------------------------------------
(* Acquisition.                                                            *)

Mkdir(c) ==
  /\ lockDir = None
  /\ Step(c, "mkdir", "made")
  /\ lockDir' = c
  /\ UNCHANGED <<aside, owner, temps, observed, judges>>

Exists(c) ==
  /\ lockDir # None
  /\ Step(c, "mkdir", "classify")
  /\ UNCHANGED <<dirs, observed, judges>>

\* writeFileAtomic: a temporary file, then its rename over owner.json.
WriteTemp(c) ==
  /\ lockDir # None
  /\ Step(c, "made", "written")
  /\ temps' = [temps EXCEPT ![lockDir] = @ \cup {c}]
  /\ UNCHANGED <<lockDir, aside, owner, observed, judges>>

WriteOwner(c) ==
  /\ c \in LockTemps
  /\ Step(c, "written", "held")
  /\ temps' = [temps EXCEPT ![lockDir] = @ \ {c}]
  /\ owner' = [owner EXCEPT ![lockDir] = c]
  /\ UNCHANGED <<lockDir, aside, observed, judges>>

\* The directory is not where it was made: the write fails.
WriteFails(c) ==
  /\ \/ lockDir = None /\ Step(c, "made", "undo")
     \/ c \notin LockTemps /\ Step(c, "written", "undo")
  /\ UNCHANGED <<dirs, observed, judges>>

\* rm -r of the lock's path, in two steps: what is in the directory found
\* there, then the directory if it is empty.
EmptyLockDir(c, from, to) ==
  /\ Step(c, from, to)
  /\ owner' = [d \in Claims |-> IF d = lockDir THEN None ELSE owner[d]]
  /\ temps' = [d \in Claims |-> IF d = lockDir THEN {} ELSE temps[d]]
  /\ UNCHANGED <<lockDir, aside, observed, judges>>

RemoveLockDir(c, from, to) ==
  /\ Step(c, from, to)
  /\ lockDir' = IF LockEmpty THEN None ELSE lockDir
  /\ UNCHANGED <<aside, owner, temps, observed, judges>>

UndoContents(c) == EmptyLockDir(c, "undo", "undoing")
UndoDir(c)      == RemoveLockDir(c, "undoing", "failed")

-----------------------------------------------------------------------------
(* Recovery, only by proof: the owner file names a dead process.           *)

\* Anything but a dead owner: the deadline passes, or the claim tries again.
Busy(c) ==
  /\ LockOwner \notin dead
  /\ Step(c, "classify", "mkdir") \/ Step(c, "classify", "failed")
  /\ UNCHANGED <<dirs, observed, judges>>

\* Mutant: a directory without an owner file is taken for dead, too.
JudgeDeadOwnerless(c) ==
  /\ lockDir # None /\ LockOwner \in dead \cup {None}
  /\ Step(c, "classify", "rename")
  /\ observed' = [observed EXCEPT ![c] = LockOwner]
  /\ judges' = [d \in Claims |-> IF d = LockOwner THEN judges[d] \cup {c} ELSE judges[d]]
  /\ UNCHANGED dirs

JudgeDead(c) ==
  /\ LockOwner \in dead
  /\ Step(c, "classify", "rename")
  /\ observed' = [observed EXCEPT ![c] = LockOwner]
  /\ judges' = [judges EXCEPT ![LockOwner] = @ \cup {c}]
  /\ UNCHANGED dirs

\* tryRecover: whoever renames the directory away gets to inspect it.
RenameAside(c) ==
  /\ lockDir # None
  /\ Step(c, "rename", "inspect")
  /\ aside' = [aside EXCEPT ![c] = lockDir]
  /\ lockDir' = None
  /\ UNCHANGED <<owner, temps, observed, judges>>

RenameFails(c) ==
  /\ lockDir = None
  /\ Step(c, "rename", "mkdir") \/ Step(c, "rename", "failed")
  /\ UNCHANGED <<dirs, observed, judges>>

Inspect(c) ==
  /\ Step(c, "inspect", IF owner[aside[c]] = observed[c] THEN "discard" ELSE "restore")
  /\ UNCHANGED <<dirs, observed, judges>>

Discard(c) ==
  /\ Step(c, "discard", "mkdir")
  /\ owner' = [owner EXCEPT ![aside[c]] = None]
  /\ temps' = [temps EXCEPT ![aside[c]] = {}]
  /\ aside' = [aside EXCEPT ![c] = None]
  /\ UNCHANGED <<lockDir, observed, judges>>

\* A mis-grabbed lock is renamed back, which succeeds over an empty directory
\* too; in front of a directory with an owner the copy is dropped.
Restore(c) ==
  /\ Step(c, "restore", "mkdir") \/ Step(c, "restore", "failed")
  /\ \/ /\ LockEmpty
        /\ lockDir' = aside[c]
        /\ UNCHANGED <<owner, temps>>
     \/ /\ ~LockEmpty
        /\ owner' = [owner EXCEPT ![aside[c]] = None]
        /\ temps' = [temps EXCEPT ![aside[c]] = {}]
        /\ UNCHANGED lockDir
  /\ aside' = [aside EXCEPT ![c] = None]
  /\ UNCHANGED <<observed, judges>>

-----------------------------------------------------------------------------
(* Release, by the owner only, and death.                                  *)

Release(c) ==
  /\ LockOwner = c
  /\ Step(c, "held", "releasing")
  /\ UNCHANGED <<dirs, observed, judges>>

NotOwner(c) ==
  /\ LockOwner # c
  /\ Step(c, "held", "failed")
  /\ UNCHANGED <<dirs, observed, judges>>

ReleaseContents(c) == EmptyLockDir(c, "releasing", "unlinking")
ReleaseDir(c)      == RemoveLockDir(c, "unlinking", "released")

Crash(c) ==
  /\ c \notin dead /\ Cardinality(dead) < MaxCrashes
  /\ at[c] \notin {"mkdir", "released", "failed"}
  /\ dead' = dead \cup {c}
  /\ UNCHANGED <<dirs, at, observed, judges>>

Acquire(c)  == Mkdir(c) \/ Exists(c) \/ WriteTemp(c) \/ WriteOwner(c) \/ WriteFails(c)
Undo(c)     == UndoContents(c) \/ UndoDir(c)
Recover(c)  == \/ Busy(c) \/ JudgeDead(c) \/ RenameAside(c) \/ RenameFails(c)
               \/ Inspect(c) \/ Discard(c) \/ Restore(c)
GiveBack(c) == Release(c) \/ NotOwner(c) \/ ReleaseContents(c) \/ ReleaseDir(c)

Next == \E c \in Claims : Acquire(c) \/ Undo(c) \/ Recover(c) \/ GiveBack(c) \/ Crash(c)

Spec == Init /\ [][Next]_vars

-----------------------------------------------------------------------------
(* Properties.                                                             *)

Holders == {c \in Claims \ dead : at[c] \in {"held", "releasing"}}

\* "Acquire <common-dir>/agent-hub/locks/<name>.lock exclusively"
\* (acquireRepositoryLock): no two live claims hold the lock.
Exclusive == \A c, d \in Holders : c = d

\* No two claims ever judged the same owner dead.
NoRace == \A o, c, d \in Claims : c \in judges[o] /\ d \in judges[o] => c = d

\* The lock is exclusive as long as no two claims judge the same owner dead:
\* deaths, stalls and lone reclaims never give it to two holders (classify,
\* tryRecover).
ExclusiveBarringRace == NoRace => Exclusive

\* Then a directory without an owner is its creator's, who is at work or died
\* there: no lockout needs a human unless a process died in that window.
StuckByDeathOnly ==
  (NoRace /\ lockDir # None /\ LockOwner = None) =>
    lockDir \in dead \/ at[lockDir] \in {"made", "written", "unlinking"}

\* The inductive invariant behind both.
InLock == {"made", "written", "held", "releasing", "unlinking"}

\* What a live claim knows at its place.
Place(c) ==
  /\ at[c] \notin {"undo", "undoing", "restore"}
  /\ at[c] \in InLock => lockDir = c
  /\ at[c] = "written" => temps[c] = {c}
  /\ at[c] \in {"held", "releasing"} => owner[c] = c /\ temps[c] = {}
  /\ at[c] = "unlinking" => owner[c] = None /\ temps[c] = {}
  /\ at[c] \in {"rename", "inspect", "discard"} =>
       /\ observed[c] \in dead /\ c \in judges[observed[c]]
       /\ owner[observed[c]] = observed[c]
  /\ at[c] = "rename" => lockDir = observed[c]
  /\ at[c] \in {"inspect", "discard"} => aside[c] = observed[c]

LockInv ==
  /\ TypeOK
  /\ NoRace =>
       /\ lockDir # None => at[lockDir] \in InLock
       /\ \A d \in Claims : owner[d] \in {None, d} /\ temps[d] \subseteq {d}
       /\ \A c \in Claims \ dead : Place(c)
=============================================================================
