-------------------------- MODULE RepoLock_proofs --------------------------
(***************************************************************************)
(* For any number of claims and deaths: the lock of module RepoLock is     *)
(* exclusive, and only a death leaves it stuck, unless two claims judge    *)
(* the same owner dead.                                                    *)
(***************************************************************************)
EXTENDS RepoLock, TLAPS

\* Claims are told from nothing.
LEMMA NoneIsNoClaim == None \notin Claims
  BY RepoLockAssumption

\* Types hold whatever the claims do.
LEMMA TypeKept == TypeOK /\ [Next]_vars => TypeOK'
  <1> SUFFICES ASSUME TypeOK, [Next]_vars PROVE TypeOK'
    OBVIOUS
  <1> USE DEF TypeOK, MaybeClaim, Places, Step, dirs, LockOwner
  <1>1. ASSUME NEW c \in Claims, Acquire(c) PROVE TypeOK'
    BY <1>1 DEF Acquire, Mkdir, Exists, WriteTemp, WriteOwner, WriteFails, LockTemps
  <1>2. ASSUME NEW c \in Claims, Undo(c) PROVE TypeOK'
    BY <1>2 DEF Undo, UndoContents, UndoDir, EmptyLockDir, RemoveLockDir
  <1>3. ASSUME NEW c \in Claims, Recover(c) PROVE TypeOK'
    BY <1>3 DEF Recover, Busy, JudgeDead, RenameAside, RenameFails, Inspect, Discard, Restore
  <1>4. ASSUME NEW c \in Claims, GiveBack(c) PROVE TypeOK'
    BY <1>4 DEF GiveBack, Release, NotOwner, ReleaseContents, ReleaseDir, EmptyLockDir, RemoveLockDir
  <1>5. ASSUME NEW c \in Claims, Crash(c) PROVE TypeOK'
    BY <1>5 DEF Crash
  <1>6. CASE UNCHANGED vars
    BY <1>6 DEF vars
  <1> QED  BY <1>1, <1>2, <1>3, <1>4, <1>5, <1>6 DEF Next

\* What LockInv adds to the types.
Orderly ==
  /\ lockDir # None => at[lockDir] \in InLock
  /\ \A d \in Claims : owner[d] \in {None, d} /\ temps[d] \subseteq {d}
  /\ \A c \in Claims \ dead : Place(c)

\* A race, once run, stays on record.
LEMMA RaceStays == TypeOK /\ [Next]_vars /\ NoRace' => NoRace
  <1> SUFFICES ASSUME TypeOK, [Next]_vars PROVE \A o \in Claims : judges[o] \subseteq judges'[o]
    BY DEF NoRace
  <1> USE DEF TypeOK
  <1>1. ASSUME NEW c \in Claims, JudgeDead(c) PROVE \A o \in Claims : judges[o] \subseteq judges'[o]
    BY <1>1 DEF JudgeDead
  <1>2. ASSUME NEW c \in Claims, Next, ~JudgeDead(c), Acquire(c) \/ Undo(c) \/ Recover(c) \/ GiveBack(c) \/ Crash(c)
        PROVE  judges' = judges
    BY <1>2 DEF Acquire, Mkdir, Exists, WriteTemp, WriteOwner, WriteFails, Undo, UndoContents, UndoDir,
         EmptyLockDir, RemoveLockDir, Recover, Busy, RenameAside, RenameFails, Inspect, Discard,
         Restore, GiveBack, Release, NotOwner, ReleaseContents, ReleaseDir, Crash
  <1> QED  BY <1>1, <1>2 DEF Next, vars

\* Without a race, every step keeps the lock in order.
LEMMA OrderlyKept ==
  ASSUME TypeOK, NoRace, NoRace', Orderly, Next
  PROVE  Orderly'
  <1> USE NoneIsNoClaim DEF TypeOK, MaybeClaim, Step, dirs, LockOwner, Orderly
  <1>1. ASSUME NEW c \in Claims, Acquire(c) PROVE Orderly'
    <2>1. CASE Mkdir(c)
      BY <2>1 DEF Mkdir, Place, InLock
    <2>2. CASE Exists(c)
      BY <2>2 DEF Exists, Place, InLock
    <2>3. CASE WriteTemp(c)
      BY <2>3 DEF WriteTemp, Place, InLock
    <2>4. CASE WriteOwner(c)
      BY <2>4 DEF WriteOwner, LockTemps, Place, InLock
    <2>5. CASE WriteFails(c)
      BY <2>5 DEF WriteFails, LockTemps, Place, InLock
    <2> QED  BY <1>1, <2>1, <2>2, <2>3, <2>4, <2>5 DEF Acquire
  <1>2. ASSUME NEW c \in Claims, Undo(c) PROVE Orderly'
    BY <1>2 DEF Undo, UndoContents, UndoDir, EmptyLockDir, RemoveLockDir, Place
  <1>3. ASSUME NEW c \in Claims, Recover(c) PROVE Orderly'
    <2>1. CASE Busy(c) \/ RenameFails(c)
      BY <2>1 DEF Busy, RenameFails, Place, InLock
    <2>2. CASE JudgeDead(c)
      BY <2>2 DEF JudgeDead, Place, InLock
    <2>3. CASE RenameAside(c)
      BY <2>3 DEF RenameAside, Place, InLock, NoRace
    <2>4. CASE Inspect(c)
      BY <2>4 DEF Inspect, Place, InLock
    <2>5. CASE Discard(c)
      BY <2>5 DEF Discard, Place, InLock, NoRace
    <2>6. CASE Restore(c)
      BY <2>6 DEF Restore, Place
    <2> QED  BY <1>3, <2>1, <2>2, <2>3, <2>4, <2>5, <2>6 DEF Recover
  <1>4. ASSUME NEW c \in Claims, GiveBack(c) PROVE Orderly'
    <2>1. CASE Release(c)
      BY <2>1 DEF Release, Place, InLock
    <2>2. CASE NotOwner(c)
      BY <2>2 DEF NotOwner, Place, InLock
    <2>3. CASE ReleaseContents(c)
      BY <2>3 DEF ReleaseContents, EmptyLockDir, Place, InLock
    <2>4. CASE ReleaseDir(c)
      BY <2>4 DEF ReleaseDir, RemoveLockDir, LockEmpty, LockTemps, Place, InLock
    <2> QED  BY <1>4, <2>1, <2>2, <2>3, <2>4 DEF GiveBack
  <1>5. ASSUME NEW c \in Claims, Crash(c) PROVE Orderly'
    BY <1>5 DEF Crash, Place, InLock
  <1> QED  BY <1>1, <1>2, <1>3, <1>4, <1>5 DEF Next

\* LockInv: where every claim is, and what it knows there, as long as no two
\* claims judge the same owner dead (acquireRepositoryLock, tryRecover).
THEOREM LockOrderly == Spec => []LockInv
  <1>1. Init => LockInv
    BY NoneIsNoClaim DEF Init, LockInv, TypeOK, MaybeClaim, Places, Place, InLock
  <1>2. LockInv /\ [Next]_vars => LockInv'
    <2> SUFFICES ASSUME LockInv, [Next]_vars PROVE LockInv'
      OBVIOUS
    <2>1. TypeOK /\ TypeOK' /\ (NoRace' => NoRace)
      BY TypeKept, RaceStays DEF LockInv
    <2>2. NoRace => Orderly
      BY DEF LockInv, Orderly
    <2>3. CASE Next
      <3>1. NoRace' => Orderly'
        BY <2>1, <2>2, <2>3, OrderlyKept
      <3> QED  BY <2>1, <3>1 DEF LockInv, Orderly
    <2>4. CASE UNCHANGED vars
      BY <2>1, <2>4 DEF vars, dirs, LockInv, NoRace, Place
    <2> QED  BY <2>3, <2>4
  <1> QED  BY <1>1, <1>2, PTL DEF Spec

\* ExclusiveBarringRace: the lock has one live holder, unless two claims judged
\* the same owner dead (locks.ts: "Acquire ... exclusively").
THEOREM LockExclusive == Spec => []ExclusiveBarringRace
  <1>1. LockInv => ExclusiveBarringRace
    BY DEF LockInv, ExclusiveBarringRace, Exclusive, Holders, Place, InLock
  <1> QED  BY <1>1, LockOrderly, PTL

\* StuckByDeathOnly: a directory without an owner belongs to a claim that is
\* between its mkdir and its owner file, or died there.
THEOREM LockStuckByDeath == Spec => []StuckByDeathOnly
  <1>1. LockInv => StuckByDeathOnly
    BY NoneIsNoClaim DEF LockInv, StuckByDeathOnly, TypeOK, MaybeClaim, LockOwner, Place, InLock
  <1> QED  BY <1>1, LockOrderly, PTL
=============================================================================
