--------------------------- MODULE Custody_proofs ---------------------------
(***************************************************************************)
(* CustodyInv is an inductive invariant of Custody, for every value of its *)
(* constants, and the safety properties the runs check follow from it.     *)
(* First each file step under the custody lock, which keeps the files in   *)
(* order; then every step, on the process that takes it and on the others; *)
(* then that Custody implements ResultLine.                                *)
(***************************************************************************)
EXTENDS CustodyProps, SequenceTheorems, TLAPS

Data    == <<files, objects, place, retention, acked>>
Control == <<locks, crashes>>

\* What the assumption on None says of each kind of content.
LEMMA NoneIsNothing ==
  /\ None \notin Nat /\ None \notin Procs /\ None \notin Handoff
  /\ None \notin Record /\ None \notin Sidecar /\ None \notin Tombstone
  BY NoneAssumption

-----------------------------------------------------------------------------
(* The control state: locks and places.                                    *)

\* Whoever is under the custody lock is alone there.
LEMMA OneUnderLock ==
  ASSUME \A r \in Procs : Locked(r), NEW p \in Procs, NEW q \in Procs,
         q # p, at[p] \in UnderLock
  PROVE  at[q] \notin UnderLock
  BY DEF Locked

\* Whoever is under the admin lock is alone there.
LEMMA OneUnderAdmin ==
  ASSUME \A r \in Procs : Locked(r), NEW p \in Procs, NEW q \in Procs,
         q # p, at[p] \in UnderAdmin
  PROVE  at[q] \notin UnderAdmin
  BY DEF Locked

\* A step of one process moves that process, with the locks it has.
StepOf(p) ==
  \/ \E place_ \in Places \ {"idle", "provisioning"} :
       /\ Goto(p, place_)
       /\ place_ \in UnderLock => wsLock = p
       /\ place_ \in UnderAdmin => adminLock = p
       /\ at[p] # "idle"
  \/ Leave(p)
  \/ UNCHANGED locks

\* A step of one process keeps the locks in order, and leaves the others
\* where they are.
LEMMA StepOfKeeps ==
  ASSUME TypeOK, \A r \in Procs : Locked(r), NEW p \in Procs, StepOf(p)
  PROVE  /\ wsLock' \in Procs \cup {None} /\ adminLock' \in Procs \cup {None}
         /\ at' \in [Procs -> Places]
         /\ op' \in [Procs -> SessionOps \cup {"none", "gc", "provision"}]
         /\ \A r \in Procs : Locked(r)'
         /\ \A q \in Procs : q # p => at'[q] = at[q]
  <1> USE DEF TypeOK, Locked, UnderLock, UnderAdmin, InLoad, InTransaction, InDeletion, Places
  <1>1. CASE UNCHANGED locks
    BY <1>1 DEF locks
  <1>2. CASE Leave(p)
    <2>1. wsLock' \in Procs \cup {None} /\ adminLock' \in Procs \cup {None}
      BY <1>2 DEF Leave
    <2>2. /\ at' \in [Procs -> Places] /\ at'[p] = "idle"
          /\ op' \in [Procs -> SessionOps \cup {"none", "gc", "provision"}]
          /\ \A q \in Procs : q # p => at'[q] = at[q] /\ op'[q] = op[q]
      BY <1>2 DEF Leave
    <2>3. \A q \in Procs : q # p => (wsLock = q => wsLock' = q) /\ (adminLock = q => adminLock' = q)
      BY <1>2 DEF Leave
    <2>4. \A r \in Procs : Locked(r)'
      BY <2>2, <2>3
    <2> QED  BY <2>1, <2>2, <2>4
  <1>3. ASSUME NEW place_ \in Places \ {"idle", "provisioning"},
               Goto(p, place_),
               place_ \in UnderLock => wsLock = p,
               place_ \in UnderAdmin => adminLock = p,
               at[p] # "idle"
        PROVE  /\ wsLock' \in Procs \cup {None} /\ adminLock' \in Procs \cup {None}
               /\ at' \in [Procs -> Places]
               /\ op' \in [Procs -> SessionOps \cup {"none", "gc", "provision"}]
               /\ \A r \in Procs : Locked(r)'
               /\ \A q \in Procs : q # p => at'[q] = at[q]
    BY <1>3 DEF Goto
  <1> QED  BY <1>1, <1>2, <1>3 DEF StepOf

-----------------------------------------------------------------------------
(* The durable state.                                                      *)

\* What TypeOK says of the durable state alone.
DataType ==
  /\ record \in Record \cup {None} /\ pending \in Sidecar \cup {None}
  /\ ref \in MaybeCommit /\ results \in [Seqs -> MaybeCommit]
  /\ treeOf \in [Commits -> Trees] /\ pastOf \in [Commits -> SUBSET Commits]
  /\ ncommits \in Commits
  /\ worktree \in {"present", "missing", "foreign"} /\ work \in Trees
  /\ tombstone \in Tombstone \cup {None}
  /\ retention \in {"unarmed", "running", "over"}
  /\ acked \subseteq (Seqs \X Commits)

\* A step that writes nothing durable keeps all that is said of it.
LEMMA DataFrame ==
  ASSUME DataType, FilesInv, UNCHANGED Data
  PROVE  DataType' /\ FilesInv'
  BY DEF Data, files, objects, place, DataType, FilesInv, PlanInv, SidecarInv, Before,
     After,
         ResultDone, QuietInv, BirthInv, LineInv, CommitsInv, AckedInv, DecisionInv,
         DeletionInv, Effective, EffectiveResult, RefProven, ExpectedRef

\* A process that stays where it is, over files that stay as they are,
\* still knows what it knew of them (StageFrame).
LEMMA StageFrame ==
  ASSUME UNCHANGED Data, NEW p \in Procs, Stage(p), at'[p] = at[p]
  PROVE  Stage(p)'
  BY DEF Data, files, objects, place, Stage, Before, After, ResultDone, ExpectedRef

\* A process that is not under the custody lock has no claim on the sidecar.
LEMMA StageOther ==
  ASSUME NEW q \in Procs, Stage(q), at'[q] = at[q], at[q] \notin UnderLock,
         at[q] = "removing" => tombstone' # None /\ ref' = None,
         at[q] = "provisioning" => record' = None /\ tombstone' = None
  PROVE  Stage(q)'
  BY DEF Stage, UnderLock, InLoad, InTransaction, InDeletion

-----------------------------------------------------------------------------
(* The steps under the custody lock, one by one.                           *)

\* What such a step may use of its process and the files, and has to keep.
Known(p) == DataType /\ FilesInv /\ Stage(p) /\ at \in [Procs -> Places]
Kept(p)  == DataType' /\ FilesInv' /\ Stage(p)'

\* The record of a new session, with nothing published.
LEMMA ProvisionKeeps ==
  ASSUME NEW p \in Procs, Known(p), Provision(p)
  PROVE  Kept(p)
  <1> USE CustodyAssumption, NoneIsNothing
      DEF Provision, Running, Leave, Base, Commits, MaybeCommit, Seqs,
          Known, DataType, FilesInv, objects, place, ghost
  <1>1. record = None /\ tombstone = None /\ pending = None /\ ref = None /\ acked = {}
    BY DEF Stage, BirthInv
  <1>2. DataType' /\ record' \in Record
    BY <1>1 DEF Record
  <1>3. PlanInv' /\ SidecarInv' /\ QuietInv' /\ BirthInv' /\ AckedInv' /\ DecisionInv' /\ DeletionInv'
    BY <1>1, <1>2 DEF PlanInv, SidecarInv, QuietInv, BirthInv, AckedInv, DecisionInv,
       DeletionInv, ExpectedRef
  <1>4. LineInv' /\ CommitsInv'
    BY <1>1, <1>2 DEF LineInv, CommitsInv, Effective, EffectiveResult, RefProven
  <1>5. Stage(p)'
    BY <1>1, <1>2 DEF Stage, InDeletion
  <1> QED  BY <1>2, <1>3, <1>4, <1>5 DEF Kept

\* A landed transition is replayed: from here the record is the planned one.
LEMMA ReplayRecordKeeps ==
  ASSUME NEW p \in Procs, Known(p), ReplayRecord(p)
  PROVE  Kept(p)
  <1> USE CustodyAssumption, NoneIsNothing
      DEF ReplayRecord, Goto, Landed, PostInPlace, Base, Commits, MaybeCommit, Seqs,
          Known, DataType, FilesInv, objects, place, ghost
  <1>1. /\ pending # None /\ pending.phase = "captured" /\ pending.next \in Record
        /\ record # None /\ record \in Record /\ tombstone = None
        /\ pending.next.revision = pending.expectedRevision + 1
    BY DEF PlanInv
  <1>2. record' = pending.next /\ After'
    <2>1. CASE After
      BY <1>1, <2>1 DEF After, ResultDone, ExpectedRef
    <2>2. CASE Before
      <3>1. pending.expectedRevision # pending.expectedRevision + 1
        BY <1>1 DEF Sidecar
      <3>2. ref = pending.commit /\ record' = pending.next
        BY <1>1, <2>2, <3>1 DEF Before
      <3> QED  BY <1>1, <3>2 DEF After, ExpectedRef, PlanInv, CommitsInv
    <2> QED  BY <1>1, <2>1, <2>2 DEF SidecarInv
  <1>3. DataType'
    BY <1>1, <1>2
  <1>4. PlanInv' /\ SidecarInv' /\ QuietInv' /\ BirthInv' /\ DecisionInv' /\ DeletionInv'
    BY <1>1, <1>2, <1>3 DEF PlanInv, SidecarInv, QuietInv, BirthInv, DecisionInv,
       DeletionInv
  <1>5. CommitsInv'
    BY <1>1, <1>2, <1>3 DEF CommitsInv, PlanInv, SidecarInv, Before, After
  <1>6. LineInv' /\ AckedInv'
    BY <1>1, <1>2, <1>3 DEF LineInv, AckedInv, PlanInv, SidecarInv, Before, After,
       ResultDone,
       Effective, EffectiveResult, RefProven, ExpectedRef, CommitsInv
  <1>7. Stage(p)'
    BY <1>1, <1>2, <1>3 DEF Stage, InDeletion
  <1> QED  BY <1>3, <1>4, <1>5, <1>6, <1>7 DEF Kept

\* The intent records the ref and the revision that it found.
LEMMA WriteIntentKeeps ==
  ASSUME NEW p \in Procs, Known(p), WriteIntent(p)
  PROVE  Kept(p)
  <1> USE CustodyAssumption, NoneIsNothing
      DEF WriteIntent, Goto, MayCapture, WithinBounds, TransactionOps, Base, Commits,
          MaybeCommit, Seqs,
          Known, DataType, FilesInv, objects, place, ghost
  <1>1. /\ pending = None /\ record # None /\ record \in Record
        /\ record.handoff = None /\ tombstone = None /\ ref = ExpectedRef(record)
    BY DEF Stage, DecisionInv, DeletionInv, QuietInv
  <1>2. DataType' /\ pending' \in Sidecar /\ pending' # None /\ pending'.phase = "intent"
    BY <1>1 DEF Sidecar, Record, ExpectedRef
  <1>3. Before'
    BY <1>1, <1>2 DEF Before, ExpectedRef
  <1>4. PlanInv' /\ SidecarInv' /\ QuietInv' /\ BirthInv' /\ CommitsInv' /\ DecisionInv' /\ DeletionInv'
    BY <1>1, <1>2, <1>3 DEF PlanInv, SidecarInv, QuietInv, BirthInv, CommitsInv,
       DecisionInv, DeletionInv, ExpectedRef
  <1>5. LineInv' /\ AckedInv'
    BY <1>1, <1>2 DEF LineInv, AckedInv, Effective, EffectiveResult, RefProven
  <1>6. Stage(p)'
    BY <1>2, <1>3 DEF Stage, InDeletion
  <1> QED  BY <1>2, <1>3, <1>4, <1>5, <1>6 DEF Kept

\* The tombstone copies the head it is about to unpin.
LEMMA WriteTombstoneKeeps ==
  ASSUME NEW p \in Procs, Known(p), WriteTombstone(p)
  PROVE  Kept(p)
  <1> USE CustodyAssumption, NoneIsNothing
      DEF WriteTombstone, Running, Goto, Collectable, Base, Commits, MaybeCommit, Seqs,
          Known, DataType, FilesInv, objects, place, ghost
  <1>1. /\ pending = None /\ record # None /\ record \in Record
        /\ record.handoff # None /\ retention = "over" /\ ref = ExpectedRef(record)
    BY DEF Stage
  <1>2. /\ DataType' /\ tombstone' \in Tombstone /\ tombstone' # None
        /\ tombstone'.head = record.head
    BY <1>1 DEF Tombstone, Record
  <1>3. /\ PlanInv' /\ SidecarInv' /\ QuietInv' /\ BirthInv' /\ LineInv' /\ CommitsInv'
        /\ AckedInv' /\ DecisionInv'
    BY <1>1, <1>2 DEF PlanInv, SidecarInv, QuietInv, BirthInv, LineInv, CommitsInv,
       AckedInv, DecisionInv
  <1>4. DeletionInv'
    BY <1>1, <1>2 DEF DeletionInv, ExpectedRef, Record
  <1>5. Stage(p)'
    BY <1>1, <1>2 DEF Stage
  <1> QED  BY <1>2, <1>3, <1>4, <1>5 DEF Kept

\* A worktree goes, or stays where it is not the one that was recorded.
LEMMA RemoveWorktreeKeeps ==
  ASSUME NEW p \in Procs, Known(p), RemoveWorktree(p)
  PROVE  Kept(p)
  <1> USE CustodyAssumption, NoneIsNothing
      DEF RemoveWorktree, Goto, Leave, Base, Commits, MaybeCommit, Seqs,
          Known, DataType, FilesInv, objects, place, ghost, files
  <1>1. /\ record # None /\ tombstone # None /\ pending = None
        /\ at[p] = "continuing" => ref = None
    BY DEF Stage, DeletionInv, InDeletion
  <1>2. DataType' /\ worktree' \in {worktree, "missing"} /\ UNCHANGED files /\ UNCHANGED objects
        /\ UNCHANGED retention /\ UNCHANGED acked
    OBVIOUS
  <1>3. FilesInv'
    BY <1>1, <1>2 DEF PlanInv, SidecarInv, QuietInv, BirthInv, LineInv, CommitsInv,
          AckedInv, DecisionInv, DeletionInv, ExpectedRef
  <1>4. \/ at'[p] = "unlinked" /\ worktree' = "missing"
        \/ at'[p] = "removing" /\ at[p] = "continuing"
        \/ at'[p] = "idle"
    OBVIOUS
  <1>5. Stage(p)'
    BY <1>1, <1>2, <1>4 DEF Stage, InDeletion
  <1> QED  BY <1>2, <1>3, <1>5 DEF Kept

\* Files go in any order, and only behind a tombstone.
LEMMA RemoveFileKeeps ==
  ASSUME NEW p \in Procs, Known(p), RemoveFile(p)
  PROVE  Kept(p)
  <1> USE CustodyAssumption, NoneIsNothing
      DEF RemoveFile, Base, Commits, MaybeCommit, Seqs,
          Known, DataType, FilesInv, objects, place, ghost, locks
  <1>1. tombstone # None /\ pending = None /\ ref = None
    BY DEF Stage, DeletionInv, InDeletion
  <1>2. DataType' /\ record' \in {record, None}
    OBVIOUS
  <1>3. /\ PlanInv' /\ SidecarInv' /\ QuietInv' /\ BirthInv' /\ LineInv' /\ CommitsInv'
        /\ AckedInv' /\ DecisionInv'
    BY <1>1, <1>2 DEF PlanInv, SidecarInv, QuietInv, BirthInv, LineInv, CommitsInv,
       AckedInv, DecisionInv
  <1>4. DeletionInv'
    BY <1>1, <1>2 DEF DeletionInv, ExpectedRef
  <1>5. Stage(p)'
    BY <1>1, <1>2 DEF Stage, InDeletion
  <1> QED  BY <1>2, <1>3, <1>4, <1>5 DEF Kept

\* The ref goes after the worktree.
LEMMA DeleteRefKeeps ==
  ASSUME NEW p \in Procs, Known(p), DeleteRef(p)
  PROVE  Kept(p)
  <1> USE CustodyAssumption, NoneIsNothing
      DEF DeleteRef, Goto, Leave, Base, Commits, MaybeCommit, Seqs,
          Known, DataType, FilesInv, objects, place, ghost
  <1>1. /\ record # None /\ tombstone # None /\ pending = None /\ worktree = "missing"
        /\ ref = ExpectedRef(record) \/ ref = None
    BY DEF Stage, DeletionInv, InDeletion
  <1>2. DataType' /\ ref' \in {ref, None}
    OBVIOUS
  <1>3. /\ PlanInv' /\ SidecarInv' /\ QuietInv' /\ BirthInv' /\ LineInv' /\ CommitsInv'
        /\ AckedInv' /\ DecisionInv'
    BY <1>1, <1>2 DEF PlanInv, SidecarInv, QuietInv, BirthInv, LineInv, CommitsInv,
       AckedInv, DecisionInv
  <1>4. DeletionInv'
    BY <1>1, <1>2 DEF DeletionInv, ExpectedRef
  <1>5. at'[p] = "removing" => ref' = None
    BY <1>1 DEF ExpectedRef
  <1>6. Stage(p)'
    BY <1>1, <1>2, <1>5 DEF Stage, InDeletion
  <1> QED  BY <1>2, <1>3, <1>4, <1>6 DEF Kept

\* The result of a replayed publication is written again.
LEMMA ReplayResultKeeps ==
  ASSUME NEW p \in Procs, Known(p), ReplayResult(p)
  PROVE  Kept(p)
  <1> USE CustodyAssumption, NoneIsNothing
      DEF ReplayResult, Goto, Base, Commits, MaybeCommit, Seqs,
          Known, DataType, FilesInv, objects, place, ghost
  <1>1. /\ pending # None /\ After /\ pending.phase = "captured"
        /\ record # None /\ tombstone = None
    BY DEF Stage, After, PlanInv
  <1>2. DataType' /\ After' /\ ResultDone'
    BY <1>1 DEF After, ResultDone, ExpectedRef, PlanInv
  <1>3. /\ PlanInv' /\ SidecarInv' /\ QuietInv' /\ BirthInv' /\ CommitsInv' /\ DecisionInv' /\ DeletionInv'
    BY <1>1, <1>2 DEF PlanInv, SidecarInv, QuietInv, BirthInv, CommitsInv, DecisionInv,
       DeletionInv, ExpectedRef
  <1>4. LineInv' /\ AckedInv'
    <2>1. Effective' = Effective /\ Effective = record /\ record.seq \in 0..MaxSeq
      BY <1>1 DEF After, Effective, RefProven, Record
    <2>2. LineInv /\ AckedInv /\ UNCHANGED <<record, tombstone, acked, pastOf>>
      OBVIOUS
    <2>3. \A s \in 1..Effective.seq : EffectiveResult(s)' = EffectiveResult(s)
      <3>1. CASE RefProven
        BY <1>1, <2>1, <3>1 DEF EffectiveResult, RefProven
      <3>2. CASE ~RefProven
        BY <1>1, <2>1, <3>2 DEF EffectiveResult, RefProven, After, ResultDone
      <3> QED  BY <3>1, <3>2
    <2> QED  BY ONLY <2>1, <2>2, <2>3 DEF LineInv, AckedInv
  <1>5. Stage(p)'
    BY <1>1, <1>2 DEF Stage, InDeletion
  <1> QED  BY <1>2, <1>3, <1>4, <1>5 DEF Kept

\* The sidecar goes once the record and the result are in place.
LEMMA ReplayDoneKeeps ==
  ASSUME NEW p \in Procs, Known(p), ReplayDone(p)
  PROVE  Kept(p)
  <1> USE CustodyAssumption, NoneIsNothing
      DEF ReplayDone, Goto, Base, Commits, MaybeCommit, Seqs,
          Known, DataType, FilesInv, objects, place, ghost
  <1>1. /\ pending # None /\ After /\ ResultDone
        /\ record # None /\ tombstone = None
    BY DEF Stage, PlanInv
  <1>2. DataType'
    OBVIOUS
  <1>3. /\ PlanInv' /\ SidecarInv' /\ QuietInv' /\ BirthInv' /\ CommitsInv' /\ DecisionInv' /\ DeletionInv'
    BY <1>1, <1>2 DEF PlanInv, SidecarInv, QuietInv, BirthInv, CommitsInv, DecisionInv,
       DeletionInv, ExpectedRef, After
  <1>4. LineInv' /\ AckedInv'
    BY <1>1, <1>2 DEF LineInv, AckedInv, PlanInv, After, ResultDone, Effective,
       EffectiveResult, RefProven
  <1>5. Stage(p)'
    BY <1>1, <1>2 DEF Stage, InDeletion
  <1> QED  BY <1>2, <1>3, <1>4, <1>5 DEF Kept

\* What is abandoned was proven by nothing: record and ref are as before.
LEMMA AbandonKeeps ==
  ASSUME NEW p \in Procs, Known(p), Abandon(p)
  PROVE  Kept(p)
  <1> USE CustodyAssumption, NoneIsNothing
      DEF Abandon, locks, Base, Commits, MaybeCommit, Seqs,
          Known, DataType, FilesInv, objects, place, ghost
  <1>1. /\ pending # None /\ record # None /\ tombstone = None /\ ~RefProven /\ Before
    BY DEF PlanInv, NeverLanded, Landed, PostInPlace, RefProven, SidecarInv, After, Record
  <1>2. DataType'
    OBVIOUS
  <1>3. /\ PlanInv' /\ SidecarInv' /\ QuietInv' /\ BirthInv' /\ CommitsInv' /\ DecisionInv' /\ DeletionInv'
    BY <1>1, <1>2 DEF PlanInv, SidecarInv, QuietInv, BirthInv, CommitsInv, DecisionInv,
       DeletionInv, ExpectedRef,
       Before, RefProven
  <1>4. LineInv' /\ AckedInv'
    BY <1>1, <1>2 DEF LineInv, AckedInv, Effective, EffectiveResult, RefProven
  <1>5. Stage(p)'
    BY <1>1, <1>2 DEF Stage, InDeletion
  <1> QED  BY <1>2, <1>3, <1>4, <1>5 DEF Kept

\* The ref's move is where a publication or a closure takes effect.
LEMMA MoveRefKeeps ==
  ASSUME NEW p \in Procs, Known(p), MoveRef(p)
  PROVE  Kept(p)
  <1> USE CustodyAssumption, NoneIsNothing
      DEF MoveRef, Goto, RefMoves, Base, Commits, MaybeCommit, Seqs,
          Known, DataType, FilesInv, objects, place, ghost
  <1>1. /\ pending # None /\ pending.phase = "captured" /\ Before /\ ref = pending.expectedRef
        /\ record # None /\ record \in Record /\ tombstone = None
    BY DEF Stage, PlanInv
  <1>2. DataType' /\ ref' = ExpectedRef(pending.next)
    BY <1>1 DEF ExpectedRef, PlanInv
  <1>3. Before'
    BY <1>1, <1>2 DEF Before, ExpectedRef
  <1>4. /\ PlanInv' /\ SidecarInv' /\ QuietInv' /\ BirthInv' /\ CommitsInv' /\ DecisionInv' /\ DeletionInv'
    BY <1>1, <1>2, <1>3 DEF PlanInv, SidecarInv, QuietInv, BirthInv, CommitsInv,
       DecisionInv, DeletionInv, ExpectedRef
  <1>5. LineInv' /\ AckedInv'
    <2>1. CASE ~RefMoves
      <3>1. ref' = ref /\ UNCHANGED <<record, pending, results, tombstone, objects, acked>>
        BY <2>1
      <3> QED  BY <3>1 DEF LineInv, AckedInv, Effective, EffectiveResult, RefProven
    <2>2. CASE RefMoves
      <3>1. /\ Effective = record /\ Effective' = pending.next
            /\ \A s \in Seqs : EffectiveResult(s) = results[s]
        BY <1>1, <2>2 DEF Effective, EffectiveResult, RefProven
      <3>2. /\ pending.next.seq = IF pending.kind = "result" THEN record.seq + 1 ELSE record.seq
            /\ pastOf[record.head] \subseteq pastOf[pending.commit]
            /\ pending.commit \in pastOf[pending.commit] /\ pending.next.head = pending.commit
            /\ pending.commit \in Commits /\ pending.next.seq \in 0..MaxSeq /\ record.seq \in 0..MaxSeq
        BY <1>1 DEF Before, PlanInv, Record
      <3>3. \A s \in Seqs : EffectiveResult(s)' =
              IF pending.kind = "result" /\ s = pending.next.seq THEN pending.commit ELSE results[s]
        BY <1>1, <2>2 DEF EffectiveResult, RefProven
      <3>4. LineInv'
        BY <1>1, <3>1, <3>2, <3>3 DEF LineInv
      <3>5. AckedInv'
        BY <1>1, <3>1, <3>2, <3>3 DEF AckedInv
      <3> QED  BY <3>4, <3>5
    <2> QED  BY <2>1, <2>2
  <1>6. Stage(p)'
    BY <1>1, <1>2, <1>3 DEF Stage, InDeletion, ExpectedRef
  <1> QED  BY <1>2, <1>4, <1>5, <1>6 DEF Kept

\* A failed compare-and-swap leaves record and ref as before the transaction.
LEMMA RefDivergedKeeps ==
  ASSUME NEW p \in Procs, Known(p), RefDiverged(p)
  PROVE  Kept(p)
  <1> USE CustodyAssumption, NoneIsNothing
      DEF RefDiverged, Leave, RefMoves, Base, Commits, MaybeCommit, Seqs,
          Known, DataType, FilesInv, objects, place, ghost
  <1>1. /\ pending # None /\ record # None /\ tombstone = None /\ Before
        /\ ref = pending.expectedRef /\ ~RefProven
    BY DEF Stage, PlanInv, RefProven
  <1>2. DataType'
    OBVIOUS
  <1>3. /\ PlanInv' /\ SidecarInv' /\ QuietInv' /\ BirthInv' /\ CommitsInv' /\ DecisionInv' /\ DeletionInv'
    BY <1>1, <1>2 DEF PlanInv, SidecarInv, QuietInv, BirthInv, CommitsInv, DecisionInv,
       DeletionInv, ExpectedRef, Before, RefProven
  <1>4. LineInv' /\ AckedInv'
    BY <1>1, <1>2 DEF LineInv, AckedInv, Effective, EffectiveResult, RefProven
  <1>5. at'[p] = "idle"
    BY <1>2 DEF DataType, Places
  <1>6. Stage(p)'
    BY <1>5 DEF Stage, InDeletion
  <1> QED  BY <1>2, <1>3, <1>4, <1>6 DEF Kept

\* The result file follows the ref, of which it says what readers know already.
LEMMA WriteResultKeeps ==
  ASSUME NEW p \in Procs, Known(p), WriteResult(p)
  PROVE  Kept(p)
  <1> USE CustodyAssumption, NoneIsNothing
      DEF WriteResult, Goto, Base, Commits, MaybeCommit, Seqs,
          Known, DataType, FilesInv, objects, place, ghost
  <1>1. /\ pending # None /\ pending.phase = "captured" /\ Before /\ ref = ExpectedRef(pending.next)
        /\ record # None /\ tombstone = None /\ pending.next.seq = record.seq + 1
    BY DEF Stage, PlanInv, Before
  <1>2. DataType' /\ ResultDone' /\ Before'
    BY <1>1 DEF PlanInv, ResultDone, Before, ExpectedRef
  <1>4. /\ PlanInv' /\ SidecarInv' /\ QuietInv' /\ BirthInv' /\ CommitsInv' /\ DecisionInv' /\ DeletionInv'
    BY <1>1, <1>2 DEF PlanInv, SidecarInv, QuietInv, BirthInv, CommitsInv, DecisionInv,
       DeletionInv, ExpectedRef
  <1>5. LineInv' /\ AckedInv'
    <2>1. /\ pending.next \in Record /\ Effective' = Effective /\ Effective \in Record
          /\ record.seq \in 0..MaxSeq
      BY <1>1 DEF PlanInv, Effective, RefProven, Record
    <2>2. \A s \in 1..Effective.seq : EffectiveResult(s)' = EffectiveResult(s)
      <3>1. CASE RefProven
        BY <1>1, <2>1, <3>1 DEF EffectiveResult, RefProven, Record
      <3>2. CASE ~RefProven
        <4>1. Effective = record
          BY <3>2 DEF Effective
        <4> QED  BY <1>1, <2>1, <3>2, <4>1 DEF EffectiveResult, RefProven
      <3> QED  BY <3>1, <3>2
    <2>3. LineInv /\ AckedInv /\ UNCHANGED <<record, tombstone, acked, pastOf>>
      OBVIOUS
    <2> QED  BY ONLY <2>1, <2>2, <2>3 DEF LineInv, AckedInv
  <1>6. Stage(p)'
    BY <1>1, <1>2 DEF Stage, InDeletion, ExpectedRef
  <1> QED  BY <1>2, <1>4, <1>5, <1>6 DEF Kept

\* The record comes last, with its result on disk.
LEMMA WriteRecordKeeps ==
  ASSUME NEW p \in Procs, Known(p), WriteRecord(p)
  PROVE  Kept(p)
  <1> USE CustodyAssumption, NoneIsNothing
      DEF WriteRecord, Goto, Base, Commits, MaybeCommit, Seqs,
          Known, DataType, FilesInv, objects, place, ghost
  <1>1. /\ pending # None /\ pending.phase = "captured" /\ Before /\ ref = ExpectedRef(pending.next)
        /\ record # None /\ tombstone = None /\ ResultDone /\ pending.next \in Record
    BY DEF Stage, PlanInv, ResultDone
  <1>2. DataType' /\ After' /\ ResultDone'
    BY <1>1 DEF PlanInv, ResultDone, After, ExpectedRef
  <1>4. /\ PlanInv' /\ SidecarInv' /\ QuietInv' /\ BirthInv' /\ CommitsInv' /\ DecisionInv' /\ DeletionInv'
    BY <1>1, <1>2 DEF PlanInv, SidecarInv, QuietInv, BirthInv, CommitsInv, DecisionInv,
       DeletionInv, Before
  <1>5. LineInv' /\ AckedInv'
    <2>1. CASE RefProven
      <3>1. Effective' = Effective /\ \A s \in Seqs : EffectiveResult(s)' = EffectiveResult(s)
        BY <2>1 DEF Effective, EffectiveResult, RefProven
      <3>2. Effective = pending.next
        BY <2>1 DEF Effective
      <3> QED  BY <1>1, <3>1, <3>2 DEF LineInv, AckedInv, Record
    <2>2. CASE ~RefProven
      <3>1. /\ Effective = record /\ Effective' = pending.next
            /\ \A s \in Seqs : EffectiveResult(s) = results[s] /\ EffectiveResult(s)' = results[s]
        BY <1>1, <2>2 DEF Effective, EffectiveResult, RefProven
      <3>2. /\ pending.next.seq = IF pending.kind = "result" THEN record.seq + 1 ELSE record.seq
            /\ pastOf[record.head] \subseteq pastOf[pending.commit]
            /\ pending.commit \in pastOf[pending.commit] /\ pending.next.head = pending.commit
            /\ pending.commit \in Commits /\ pending.next.seq \in 0..MaxSeq /\ record.seq \in 0..MaxSeq
        BY <1>1 DEF Before, PlanInv, Record
      <3>4. LineInv'
        <4> SUFFICES ASSUME NEW s \in 1..pending.next.seq
                     PROVE  results[s] # None /\ results[s] \in pastOf[pending.commit]
          BY <1>1, <3>1, <3>2 DEF LineInv
        <4>1. CASE s \in 1..record.seq
          BY <1>1, <3>1, <3>2, <4>1 DEF LineInv
        <4>2. CASE s \notin 1..record.seq
          <5>1. pending.kind = "result" /\ s = pending.next.seq
            BY <3>2, <4>2
          <5> QED  BY <1>1, <3>2, <5>1 DEF ResultDone
        <4> QED  BY <4>1, <4>2
      <3>5. AckedInv'
        BY <1>1, <3>1, <3>2 DEF AckedInv
      <3> QED  BY <3>4, <3>5
    <2> QED  BY <2>1, <2>2
  <1>6. Stage(p)'
    BY <1>1, <1>2 DEF Stage, InDeletion, ExpectedRef
  <1> QED  BY <1>2, <1>4, <1>5, <1>6 DEF Kept

\* The publisher is told what the files say.
LEMMA RemoveSidecarKeeps ==
  ASSUME NEW p \in Procs, Known(p), RemoveSidecar(p)
  PROVE  Kept(p)
  <1> USE CustodyAssumption, NoneIsNothing
      DEF RemoveSidecar, Leave, Base, Commits, MaybeCommit, Seqs,
          Known, DataType, FilesInv, objects, place, ghost
  <1>1. /\ pending # None /\ After /\ ResultDone /\ pending.phase = "captured"
        /\ record # None /\ record \in Record /\ tombstone = None
    BY DEF Stage, PlanInv, After
  <1>2. DataType'
    BY <1>1 DEF PlanInv
  <1>3. /\ PlanInv' /\ SidecarInv' /\ QuietInv' /\ BirthInv' /\ CommitsInv' /\ DecisionInv' /\ DeletionInv'
    BY <1>1, <1>2 DEF PlanInv, SidecarInv, QuietInv, BirthInv, CommitsInv, DecisionInv,
       DeletionInv, ExpectedRef, After
  <1>4. LineInv' /\ AckedInv'
    BY <1>1, <1>2 DEF LineInv, AckedInv, PlanInv, After, ResultDone, Effective,
       EffectiveResult, RefProven, Record
  <1>5. Stage(p)'
    BY <1>1, <1>2 DEF Stage, InDeletion
  <1> QED  BY <1>2, <1>3, <1>4, <1>5 DEF Kept

Closed(r)      == [r EXCEPT !.custody = "closed", !.revision = r.revision + 1]
Reopened(r)    == [r EXCEPT !.custody = "live", !.revision = r.revision + 1]
Decided(r, h)  == [r EXCEPT !.handoff = h, !.revision = r.revision + 1]
Captured(x, c, r) == [x EXCEPT !.phase = "captured", !.commit = c, !.next = r]

\* The records that the steps write, field by field.
LEMMA WithRevision ==
  ASSUME NEW r \in Record, NEW n \in Nat
  PROVE  LET s == [r EXCEPT !.revision = n] IN
         s \in Record /\ s.custody = r.custody /\ s.head = r.head /\ s.seq = r.seq /\ s.handoff = r.handoff
  BY DEF Record

\* Each is a record, and keeps the fields it does not name.
LEMMA RecordForms ==
  ASSUME NEW r \in Record
  PROVE  /\ r.revision + 1 \in Nat
         /\ \A s \in {Closed(r), Reopened(r)} :
              s \in Record /\ s.head = r.head /\ s.seq = r.seq /\ s.handoff = r.handoff
         /\ \A h \in Handoff :
              LET s == Decided(r, h) IN
              s \in Record /\ s.custody = r.custody /\ s.head = r.head /\ s.seq = r.seq /\ s.handoff = h
  <1>1. r.revision + 1 \in Nat
    BY DEF Record
  <1>2. ASSUME NEW c \in {"live", "closed"}
        PROVE  LET s == [r EXCEPT !.custody = c, !.revision = r.revision + 1] IN
               s \in Record /\ s.head = r.head /\ s.seq = r.seq /\ s.handoff = r.handoff
    <2> DEFINE t == [r EXCEPT !.custody = c]
    <2>1. t \in Record /\ t.head = r.head /\ t.seq = r.seq /\ t.handoff = r.handoff
      BY DEF Record
    <2>2. [r EXCEPT !.custody = c, !.revision = r.revision + 1] = [t EXCEPT !.revision = r.revision + 1]
      OBVIOUS
    <2> HIDE DEF t
    <2> QED  BY <1>1, <2>1, <2>2, WithRevision
  <1>3. ASSUME NEW h \in Handoff
        PROVE  LET s == Decided(r, h) IN
               s \in Record /\ s.custody = r.custody /\ s.head = r.head /\ s.seq = r.seq /\ s.handoff = h
    <2> DEFINE t == [r EXCEPT !.handoff = h]
    <2>1. t \in Record /\ t.custody = r.custody /\ t.head = r.head /\ t.seq = r.seq /\ t.handoff = h
      BY DEF Record
    <2>2. Decided(r, h) = [t EXCEPT !.revision = r.revision + 1]
      BY DEF Decided
    <2> HIDE DEF t
    <2> QED  BY <1>1, <2>1, <2>2, WithRevision
  <1>4. ASSUME NEW s, s = Closed(r) \/ s = Reopened(r)
        PROVE  s \in Record /\ s.head = r.head /\ s.seq = r.seq /\ s.handoff = r.handoff
    BY <1>2, <1>4 DEF Closed, Reopened
  <1> QED  BY <1>1, <1>3, <1>4

\* A step under the lock that rewrites the record alone, as updateRecordCas.
LEMMA RecordRewritten ==
  ASSUME NEW p \in Procs, Known(p), at[p] = "loaded", Leave(p),
         record' \in Record, record'.head = record.head, record'.seq = record.seq,
         record.handoff = None,
         record'.handoff # None => /\ record'.custody = "closed" /\ retention' = "running"
                                   /\ record'.handoff.seq = record.seq
                                   /\ record'.handoff.commit = record.head,
         record'.handoff = None => UNCHANGED retention,
         UNCHANGED <<pending, ref, results, tombstone, objects, place, acked>>,
         retention' \in {"unarmed", "running", "over"}
  PROVE  Kept(p)
  <1> USE CustodyAssumption, NoneIsNothing
      DEF Base, Commits, MaybeCommit, Seqs, Known, DataType, FilesInv, objects, place
  <1>1. pending = None /\ record # None /\ tombstone = None /\ ref = ExpectedRef(record) /\ retention = "unarmed"
    BY DEF Stage, DeletionInv, QuietInv
  <1>2. DataType' /\ record' # None
    OBVIOUS
  <1>3. /\ PlanInv' /\ SidecarInv' /\ QuietInv' /\ BirthInv' /\ CommitsInv' /\ DecisionInv' /\ DeletionInv'
    BY <1>1, <1>2 DEF PlanInv, SidecarInv, QuietInv, BirthInv, CommitsInv, DecisionInv,
       DeletionInv, ExpectedRef
  <1>4. LineInv' /\ AckedInv'
    BY <1>1, <1>2 DEF LineInv, AckedInv, Effective, EffectiveResult, RefProven
  <1>5. Stage(p)'
    BY <1>1, <1>2 DEF Stage, InDeletion, Leave
  <1> QED  BY <1>2, <1>3, <1>4, <1>5 DEF Kept

\* A closure without a worktree.
LEMMA CloseWithoutCaptureKeeps ==
  ASSUME NEW p \in Procs, Known(p), CloseWithoutCapture(p)
  PROVE  Kept(p)
  <1>1. /\ record # None /\ record.handoff = None /\ retention \in {"unarmed", "running", "over"}
    BY DEF Known, FilesInv, DataType, DecisionInv, CloseWithoutCapture, Running, Stage
  <1>2. /\ record' \in Record /\ record'.head = record.head /\ record'.seq = record.seq
        /\ record'.handoff = None
    <2>1. record \in Record
      BY <1>1 DEF Known, DataType
    <2>2. record' = Closed(record)
      BY DEF CloseWithoutCapture, Closed
    <2> QED  BY <1>1, <2>1, <2>2, RecordForms
  <1> QED  BY <1>1, <1>2, RecordRewritten DEF CloseWithoutCapture, Running, ghost

\* A reopening: nothing was decided, and nothing is deleted.
LEMMA ReopenKeeps ==
  ASSUME NEW p \in Procs, Known(p), Reopen(p)
  PROVE  Kept(p)
  <1>1. /\ record # None /\ record.handoff = None /\ retention \in {"unarmed", "running", "over"}
    BY DEF Known, DataType, Reopen, MayReopen, Running, Stage
  <1>2. /\ record' \in Record /\ record'.head = record.head /\ record'.seq = record.seq
        /\ record'.handoff = None
    <2>1. record \in Record
      BY <1>1 DEF Known, DataType
    <2>2. record' = Reopened(record)
      BY DEF Reopen, Reopened
    <2> QED  BY <1>1, <2>1, <2>2, RecordForms
  <1> QED  BY <1>1, <1>2, RecordRewritten DEF Reopen, Running, ghost

\* A decision names the last result and the head it finds.
LEMMA DecideKeeps ==
  ASSUME NEW p \in Procs, NEW decision \in {"accepted", "discarded"}, NEW seq \in 0..MaxSeq,
         NEW commit \in Commits, Known(p), Decide(p, decision, seq, commit)
  PROVE  Kept(p)
  <1>1. /\ record # None /\ record.handoff = None /\ record.custody = "closed"
        /\ seq = record.seq /\ commit = record.head
    BY DEF Known, Decide, MayDecide, Running, Stage
  <1> DEFINE h == [decision |-> decision, seq |-> seq, commit |-> commit]
  <1>2. h \in Handoff /\ h # None /\ h.seq = seq /\ h.commit = commit
    BY NoneIsNothing DEF Handoff
  <1> HIDE DEF h
  <1>4. record' = Decided(record, h)
    BY DEF Decide, Decided, h
  <1>3. /\ record' \in Record /\ record'.head = record.head /\ record'.seq = record.seq
        /\ record'.handoff = h /\ record'.custody = "closed"
    <2>1. record \in Record
      BY <1>1 DEF Known, DataType
    <2> QED  BY <1>1, <1>2, <1>4, <2>1, RecordForms
  <1> QED  BY <1>1, <1>2, <1>3, RecordRewritten DEF Decide, Running, ghost

\* The sidecar after its capture, field by field.
LEMMA SidecarCaptured ==
  ASSUME NEW x \in Sidecar, NEW c \in Commits, NEW r \in Record
  PROVE  LET s == Captured(x, c, r) IN
         /\ s \in Sidecar /\ s.kind = x.kind /\ s.expectedRef = x.expectedRef
         /\ s.expectedRevision = x.expectedRevision
         /\ s.phase = "captured" /\ s.commit = c /\ s.next = r
  <1> DEFINE t == [x EXCEPT !.phase = "captured"]
  <1> DEFINE u == [t EXCEPT !.commit = c]
  <1>1. /\ t \in Sidecar /\ t.kind = x.kind /\ t.expectedRef = x.expectedRef
        /\ t.expectedRevision = x.expectedRevision /\ t.phase = "captured"
    BY DEF Sidecar
  <1>2. Captured(x, c, r) = [u EXCEPT !.next = r]
    BY DEF Captured
  <1> HIDE DEF t
  <1>3. /\ u \in Sidecar /\ u.kind = x.kind /\ u.expectedRef = x.expectedRef
        /\ u.expectedRevision = x.expectedRevision /\ u.phase = "captured" /\ u.commit = c
    BY <1>1 DEF Sidecar, MaybeCommit
  <1> HIDE DEF u
  <1> QED  BY <1>2, <1>3 DEF Sidecar

\* The capture plans the next record over the record it found.
LEMMA CaptureKeeps ==
  ASSUME NEW p \in Procs, Known(p), Capture(p)
  PROVE  Kept(p)
  <1> USE CustodyAssumption, NoneIsNothing
      DEF Base, Commits, MaybeCommit, Seqs, Known, DataType, FilesInv
  <1> DEFINE advanced == work # treeOf[record.head]
             commit   == IF advanced THEN ncommits + 1 ELSE record.head
             next     == [revision |-> record.revision + 1,
                          head |-> commit,
                          seq |-> IF pending.kind = "result" THEN record.seq + 1 ELSE record.seq,
                          custody |-> IF pending.kind = "close" THEN "closed" ELSE record.custody,
                          handoff |-> record.handoff]
  <1>1. /\ pending # None /\ pending \in Sidecar /\ pending.phase = "intent"
        /\ record # None /\ record \in Record /\ tombstone = None /\ record.handoff = None
        /\ ref = pending.expectedRef /\ Before
        /\ ncommits < MaxCommits /\ (pending.kind = "result" => record.seq < MaxSeq)
    BY DEF Stage, PlanInv, SidecarInv, Before, After, Capture, NextRecord
  <1>2. /\ commit \in Commits /\ commit \in 0..ncommits'
        /\ ncommits' \in Commits /\ ncommits <= ncommits'
        /\ treeOf' \in [Commits -> Trees] /\ pastOf' \in [Commits -> SUBSET Commits]
        /\ pastOf[record.head] \subseteq pastOf'[commit] /\ commit \in pastOf'[commit]
        /\ \A c \in 0..ncommits : pastOf'[c] = pastOf[c]
        /\ commit = Base => record.head = Base
    <2>1. record.head \in 0..ncommits /\ record.head \in pastOf[record.head]
      BY <1>1 DEF CommitsInv
    <2>2. CASE advanced
      <3>1. /\ commit = ncommits + 1 /\ ncommits' = commit
            /\ treeOf' = [treeOf EXCEPT ![commit] = work]
            /\ pastOf' = [pastOf EXCEPT ![commit] = pastOf[record.head] \cup {commit}]
        BY <2>2 DEF Capture, NextRecord
      <3>2. commit \in Commits /\ commit # Base /\ record.head # commit /\ \A c \in 0..ncommits : c # commit
        BY <1>1, <2>1, <3>1
      <3>3. treeOf' \in [Commits -> Trees] /\ pastOf' \in [Commits -> SUBSET Commits]
        BY <1>1, <3>1, <3>2 DEF Record
      <3>4. \A c \in 0..ncommits : pastOf'[c] = pastOf[c]
        BY <3>1, <3>2
      <3>5. pastOf'[commit] = pastOf[record.head] \cup {commit}
        BY <3>1, <3>2
      <3> HIDE DEF commit
      <3> QED  BY <1>1, <2>1, <3>1, <3>2, <3>3, <3>4, <3>5
    <2>3. CASE ~advanced
      BY <1>1, <2>1, <2>3 DEF Capture, NextRecord, objects
    <2> QED  BY <2>2, <2>3
  <1>3. /\ next \in Record /\ next.head = commit /\ next.handoff = None
        /\ next.revision = record.revision + 1
        /\ next.seq = IF pending.kind = "result" THEN record.seq + 1 ELSE record.seq
        /\ next.custody = IF pending.kind = "close" THEN "closed" ELSE record.custody
        /\ pending.kind = "result" => next.seq \in Seqs
    BY <1>1, <1>2 DEF Record
  <1>4. pending' = Captured(pending, commit, next)
    BY DEF Capture, NextRecord, Captured
  <1>5a. /\ at'[p] = "captured"
        /\ UNCHANGED <<record, ref, results, tombstone, place, retention, ghost>>
    BY DEF Capture, NextRecord, Goto
  <1> HIDE DEF commit, next
  <1>5. /\ pending' \in Sidecar /\ pending'.kind = pending.kind
        /\ pending'.expectedRef = pending.expectedRef
        /\ pending'.expectedRevision = pending.expectedRevision
        /\ pending'.phase = "captured" /\ pending'.commit = commit /\ pending'.next = next
    <2>1. commit \in Commits /\ next \in Record /\ pending \in Sidecar
      BY <1>1, <1>2, <1>3
    <2> QED  BY ONLY <1>4, <2>1, SidecarCaptured
  <1> USE <1>5a DEF place, ghost
  <1>6. DataType'
    BY <1>2, <1>5
  <1>7. Before'
    <2>1. record.head \in 0..ncommits
      BY <1>1 DEF CommitsInv
    <2> QED  BY <1>1, <1>2, <1>3, <1>5, <2>1 DEF Before, ExpectedRef
  <1>8. PlanInv' /\ SidecarInv' /\ QuietInv' /\ BirthInv' /\ DecisionInv' /\ DeletionInv'
    BY <1>1, <1>2, <1>3, <1>5, <1>7 DEF PlanInv, SidecarInv, QuietInv, BirthInv,
       DecisionInv, DeletionInv, ExpectedRef, Before
  <1>9. CommitsInv'
    <2>1. record.head \in 0..ncommits /\ 0 \in 0..ncommits
      BY <1>1 DEF CommitsInv
    <2> QED  BY <1>1, <1>2, <2>1 DEF CommitsInv
  <1>10. LineInv' /\ AckedInv'
    <2>1. Effective = record /\ \A s \in Seqs : EffectiveResult(s) = results[s]
      BY <1>1 DEF Effective, EffectiveResult, RefProven
    <2>2. /\ Effective' \in {record, next}
          /\ Effective' = next => commit = record.head
          /\ \A s \in Seqs : EffectiveResult(s)' =
                IF Effective' = next /\ pending.kind = "result" /\ s = next.seq
                THEN commit ELSE results[s]
      BY <1>1, <1>2, <1>3, <1>5 DEF Effective, EffectiveResult, RefProven, Before,
         ExpectedRef
    <2>3. record.head \in 0..ncommits /\ record.head \in pastOf[record.head]
      BY <1>1 DEF CommitsInv
    <2>4. LineInv'
      <3>1. \A s \in 1..record.seq : results[s] # None /\ results[s] \in pastOf[record.head]
        BY <1>1, <2>1 DEF LineInv, Record
      <3>2. CASE Effective' = record
        BY <1>1, <1>2, <1>3, <2>2, <2>3, <3>1, <3>2 DEF LineInv, Record
      <3>3. CASE Effective' = next
        <4>1. record.seq \in 0..MaxSeq
          BY <1>1 DEF Record
        <4> QED  BY <1>1, <1>2, <1>3, <2>2, <2>3, <3>1, <3>3, <4>1 DEF LineInv
      <3> QED  BY <2>2, <3>2, <3>3
    <2>5. AckedInv'
      BY <1>1, <1>2, <1>3, <2>1, <2>2, <2>3 DEF AckedInv, Record
    <2> QED  BY <2>4, <2>5
  <1>11. Stage(p)'
    BY <1>1, <1>5, <1>7 DEF Stage, InDeletion
  <1> QED  BY <1>6, <1>8, <1>9, <1>10, <1>11 DEF Kept

-----------------------------------------------------------------------------
(* Every step, on the process that takes it and on the others.             *)

\* The steps of an operation that write no file.
ControlStep(p) ==
  \/ Loaded(p) \/ LoadRefused(p) \/ ScanDone(p) \/ PublishRefused(p) \/ CaptureFails(p)
  \/ CloseIdempotent(p) \/ ReopenRefused(p) \/ Retain(p) \/ ContinueDeletion(p) \/ Removed(p)
  \/ \E seq \in 0..MaxSeq, commit \in Commits : DecideRefused(p, seq, commit)

\* The steps under the custody lock that do.
FileStep(p) ==
  \/ ReplayRecord(p) \/ ReplayResult(p) \/ ReplayDone(p) \/ Abandon(p)
  \/ WriteIntent(p) \/ Capture(p) \/ MoveRef(p) \/ RefDiverged(p)
  \/ WriteResult(p) \/ WriteRecord(p) \/ RemoveSidecar(p)
  \/ CloseWithoutCapture(p) \/ Reopen(p)
  \/ \E seq \in 0..MaxSeq, commit \in Commits, decision \in {"accepted", "discarded"} :
       Decide(p, decision, seq, commit)
  \/ WriteTombstone(p) \/ RemoveWorktree(p) \/ DeleteRef(p)

\* Every step of an operation is of one of these kinds.
LEMMA ProcSteps ==
  ASSUME NEW p \in Procs, ProcStep(p)
  PROVE  Provision(p) \/ RemoveFile(p) \/ FileStep(p) \/ ControlStep(p)
  BY DEF ProcStep, LoadStep, TransactionStep, RecordStep, GcStep, FileStep, ControlStep

\* Each kind keeps the files in order.
LEMMA FileStepKeeps ==
  ASSUME NEW p \in Procs, Known(p), FileStep(p)
  PROVE  Kept(p)
  BY ReplayRecordKeeps, ReplayResultKeeps, ReplayDoneKeeps, AbandonKeeps,
     WriteIntentKeeps,
     CaptureKeeps, MoveRefKeeps, RefDivergedKeeps, WriteResultKeeps, WriteRecordKeeps,
     RemoveSidecarKeeps, CloseWithoutCaptureKeeps, ReopenKeeps, DecideKeeps,
     WriteTombstoneKeeps, RemoveWorktreeKeeps, DeleteRefKeeps DEF FileStep

\* A step that only moves its process keeps all that is said of the files.
LEMMA ControlStepKeeps ==
  ASSUME NEW p \in Procs, Known(p), ControlStep(p)
  PROVE  Kept(p)
  <1>1. UNCHANGED Data
    BY DEF ControlStep, Loaded, LoadRefused, ScanDone, PublishRefused, CaptureFails,
       CloseIdempotent,
           ReopenRefused, Retain, ContinueDeletion, Removed, DecideRefused, Data, ghost
  <1>2. DataType' /\ FilesInv'
    BY <1>1, DataFrame DEF Known
  <1>3. \/ at'[p] = "idle"
        \/ at'[p] = "loaded" /\ pending = None /\ record # None
        \/ at'[p] = "continuing" /\ tombstone # None /\ record # None /\ ref = None
    BY DEF Known, ControlStep, Loaded, LoadRefused, ScanDone, PublishRefused,
       CaptureFails, CloseIdempotent,
           ReopenRefused, Retain, ContinueDeletion, Removed, DecideRefused, Leave, Goto
  <1>4. Stage(p)'
    BY <1>1, <1>3 DEF Data, files, Stage, InDeletion
  <1> QED  BY <1>2, <1>4 DEF Kept

\* A file step is taken under the custody lock, and keeps the process there.
LEMMA FileStepControl ==
  ASSUME NEW p \in Procs, Locked(p), at \in [Procs -> Places], FileStep(p)
  PROVE  at[p] \in UnderLock /\ wsLock = p /\ StepOf(p)
  <1> USE DEF UnderLock, UnderAdmin, InLoad, InTransaction, InDeletion, Places
  <1>1. at[p] \in UnderLock
    BY DEF FileStep, ReplayRecord, ReplayResult, ReplayDone, Abandon, WriteIntent,
       Capture, NextRecord, MoveRef,
       RefDiverged, WriteResult, WriteRecord, RemoveSidecar, CloseWithoutCapture,
       Reopen, Decide,
       WriteTombstone, RemoveWorktree, DeleteRef, Running
  <1>2. wsLock = p /\ (at[p] \in UnderAdmin \/ op[p] = "gc" => adminLock = p)
    BY <1>1 DEF Locked
  <1>3. at[p] \in UnderAdmin \/ op[p] = "gc" \/ (\E place_ \in InLoad \cup InTransaction : Goto(p, place_)) \/ Leave(p) \/ UNCHANGED locks
    BY DEF FileStep, ReplayRecord, ReplayResult, ReplayDone, Abandon, WriteIntent,
       Capture, NextRecord, MoveRef,
       RefDiverged, WriteResult, WriteRecord, RemoveSidecar, CloseWithoutCapture,
       Reopen, Decide,
       WriteTombstone, RemoveWorktree, DeleteRef, Running
  <1>4. (\E place_ \in Places \ {"idle", "provisioning"} : Goto(p, place_)) \/ Leave(p) \/ UNCHANGED locks
    BY DEF FileStep, ReplayRecord, ReplayResult, ReplayDone, Abandon, WriteIntent,
       Capture, NextRecord, MoveRef,
       RefDiverged, WriteResult, WriteRecord, RemoveSidecar, CloseWithoutCapture,
       Reopen, Decide,
       WriteTombstone, RemoveWorktree, DeleteRef, Running
  <1> QED  BY <1>1, <1>2, <1>3, <1>4 DEF StepOf

\* A step that writes nothing keeps or drops its locks.
LEMMA ControlStepControl ==
  ASSUME NEW p \in Procs, Locked(p), at \in [Procs -> Places], ControlStep(p)
  PROVE  StepOf(p) /\ at'[p] # "removing"
  <1> USE DEF UnderLock, UnderAdmin, InLoad, InTransaction, InDeletion, Places
  <1>1. \/ Leave(p)
        \/ at[p] = "load" /\ Goto(p, "loaded")
        \/ at[p] = "load" /\ op[p] = "gc" /\ Goto(p, "continuing")
    BY DEF ControlStep, Loaded, LoadRefused, ScanDone, PublishRefused, CaptureFails,
       CloseIdempotent,
           ReopenRefused, Retain, ContinueDeletion, Removed, DecideRefused, Running
  <1>2. CASE Leave(p)
    BY <1>2 DEF StepOf, Leave
  <1>3. CASE at[p] = "load" /\ Goto(p, "loaded")
    BY <1>3 DEF StepOf, Goto, Locked
  <1>4. CASE at[p] = "load" /\ op[p] = "gc" /\ Goto(p, "continuing")
    BY <1>4 DEF StepOf, Goto, Locked
  <1> QED  BY <1>1, <1>2, <1>3, <1>4

\* A deletion is never taken back, and nothing but a provision makes a record.
LEMMA FileStepSteady ==
  ASSUME NEW p \in Procs, Known(p), FileStep(p)
  PROVE  /\ tombstone # None => tombstone' # None
         /\ tombstone # None /\ ref = None => ref' = None
         /\ record = None => record' = None /\ tombstone' = tombstone
         /\ worktree = "missing" => worktree' = "missing"
  <1> USE NoneIsNothing DEF Known, DataType, FilesInv
  <1>1. CASE WriteTombstone(p)
    <2>1. tombstone' \in Tombstone
      BY <1>1 DEF WriteTombstone, Running, Stage, Record, Tombstone, Commits
    <2> QED  BY <1>1, <2>1 DEF WriteTombstone, Running, Stage, place
  <1>2. CASE DeleteRef(p) \/ RemoveWorktree(p)
    BY <1>2 DEF DeleteRef, RemoveWorktree, files, place
  <1>3. CASE ReplayRecord(p) \/ MoveRef(p) \/ WriteRecord(p)
    BY <1>3 DEF ReplayRecord, MoveRef, WriteRecord, PlanInv, Stage, place
  <1>4. CASE \/ ReplayResult(p) \/ ReplayDone(p) \/ Abandon(p) \/ WriteIntent(p) \/ Capture(p)
             \/ RefDiverged(p) \/ WriteResult(p) \/ RemoveSidecar(p)
    BY <1>4 DEF ReplayResult, ReplayDone, Abandon, WriteIntent, Capture, NextRecord, RefDiverged,
                WriteResult, RemoveSidecar, place
  <1>5. CASE \/ CloseWithoutCapture(p) \/ Reopen(p)
             \/ \E seq \in 0..MaxSeq, commit \in Commits, decision \in {"accepted", "discarded"} :
                  Decide(p, decision, seq, commit)
    BY <1>5 DEF CloseWithoutCapture, Reopen, Decide, Running, Stage, place
  <1> QED  BY <1>1, <1>2, <1>3, <1>4, <1>5 DEF FileStep

\* What the removal of a file leaves alone.
LEMMA RemoveFileSteady ==
  ASSUME NEW p \in Procs, RemoveFile(p)
  PROVE  /\ tombstone' = tombstone /\ ref' = ref /\ worktree' = worktree /\ UNCHANGED locks
         /\ record = None => record' = None
  BY DEF RemoveFile, place

\* One inductive step of a process: what it does to itself and to the others.
LEMMA ProcStepKeeps ==
  ASSUME CustodyInv, NEW p \in Procs, ProcStep(p), NEW q \in Procs
  PROVE  DataType' /\ FilesInv' /\ StepOf(p) /\ Stage(q)' /\ Alone(q)'
  <1>1. Known(p) /\ Known(q) /\ \A r \in Procs : Locked(r)
    BY DEF CustodyInv, TypeOK, DataType, Known
  <1>2. Locked(p) /\ at \in [Procs -> Places]
    BY <1>1 DEF Known
  <1>3. Kept(p) /\ StepOf(p)
    <2>1. CASE Provision(p)
      BY <1>1, <2>1, ProvisionKeeps DEF Provision, StepOf
    <2>2. CASE RemoveFile(p)
      BY <1>1, <2>2, RemoveFileKeeps DEF RemoveFile, StepOf
    <2>3. CASE FileStep(p)
      BY <1>1, <1>2, <2>3, FileStepKeeps, FileStepControl
    <2>4. CASE ControlStep(p)
      BY <1>1, <1>2, <2>4, ControlStepKeeps, ControlStepControl
    <2> QED  BY <2>1, <2>2, <2>3, <2>4, ProcSteps
  <1>4. /\ TypeOK /\ Alone(p) /\ Alone(q)
    BY DEF CustodyInv
  <1>5. q # p => at'[q] = at[q] /\ (wsLock = q => wsLock' = q)
    BY <1>1, <1>3, <1>4, StepOfKeeps DEF StepOf, Goto, Leave, locks
  <1>6. q # p => Stage(q)' /\ Alone(q)'
    <2> SUFFICES ASSUME q # p PROVE Stage(q)' /\ Alone(q)'
      OBVIOUS
    <2> USE NoneIsNothing DEF UnderLock, UnderAdmin, InLoad, InTransaction, InDeletion, Places
    <2>1. CASE Provision(p)
      <3>1. record = None /\ tombstone = None /\ pending = None
        BY <1>1, <2>1 DEF Known, FilesInv, BirthInv, Stage, Provision, Running
      <3>2. at[q] \in {"idle", "load"}
        BY <1>1, <2>1, <3>1 DEF Known, Stage, Provision, Running, Locked
      <3> QED  BY <1>5, <3>2 DEF Stage, Alone
    <2>2. CASE RemoveFile(p)
      <3>1. tombstone # None /\ pending = None /\ ref = None
        BY <1>1, <2>2 DEF Known, FilesInv, DeletionInv, Stage, RemoveFile
      <3>2. at[q] \in UnderLock => record = None
        BY <1>1, <1>4, <2>2 DEF Locked, Alone, RemoveFile
      <3>3. at[q] \in {"idle", "load", "removing"}
        BY <1>1, <2>2, <3>1, <3>2 DEF Known, Stage
      <3> QED  BY <1>1, <1>4, <1>5, <2>2, <3>1, <3>3, RemoveFileSteady
         DEF Stage, Alone, Known
    <2>3. CASE FileStep(p)
      <3>1. at[p] \in UnderLock /\ wsLock = p
        BY <1>1, <1>2, <2>3, FileStepControl
      <3>2. at[q] \in {"idle", "provisioning", "removing"}
        BY <1>1, <3>1 DEF Locked, Known
      <3>3. at[q] = "removing" => tombstone # None /\ ref = None /\ record = None
        BY <1>1, <1>4, <3>1 DEF Known, Stage, Alone
      <3>4. at[q] = "provisioning" => record = None /\ tombstone = None
        BY <1>1 DEF Known, Stage
      <3> QED  BY <1>1, <1>5, <2>3, <3>2, <3>3, <3>4, FileStepSteady DEF Stage, Alone
    <2>4. CASE ControlStep(p)
      <3>1. UNCHANGED Data
        BY <2>4 DEF ControlStep, Loaded, LoadRefused, ScanDone, PublishRefused,
           CaptureFails, CloseIdempotent,
           ReopenRefused, Retain, ContinueDeletion, Removed, DecideRefused, Data, ghost
      <3>2. Stage(q)'
        BY <1>1, <1>5, <3>1, StageFrame DEF Known
      <3>3. Alone(q)'
        BY <1>4, <1>5, <3>1 DEF Alone, Data, files
      <3> QED  BY <3>2, <3>3
    <2> QED  BY <2>1, <2>2, <2>3, <2>4, ProcSteps
  <1>7. Alone(p)'
    <2>1. CASE Provision(p)
      BY <1>2, <2>1 DEF Alone, Provision, Leave
    <2>2. CASE RemoveFile(p)
      BY <1>4, <2>2, RemoveFileSteady DEF Alone, locks
    <2>3. CASE FileStep(p)
      BY <1>2, <2>3, FileStepControl DEF Alone, StepOf, Goto, Leave, locks, UnderLock,
         InLoad, InTransaction
    <2>4. CASE ControlStep(p)
      BY <1>2, <2>4, ControlStepControl DEF Alone
    <2> QED  BY <2>1, <2>2, <2>3, <2>4, ProcSteps
  <1> QED  BY <1>3, <1>6, <1>7 DEF Kept

-----------------------------------------------------------------------------
(* The theorems.                                                           *)

\* The type invariant is the files' and the control's together.
LEMMA TypeSplit ==
  TypeOK <=> /\ DataType
             /\ wsLock \in Procs \cup {None} /\ adminLock \in Procs \cup {None}
             /\ at \in [Procs -> Places]
             /\ op \in [Procs -> SessionOps \cup {"none", "gc", "provision"}]
             /\ crashes \in 0..MaxCrashes
  BY DEF TypeOK, DataType

\* The types of the files and of the processes make up the type invariant.
LEMMA TypeJoin ==
  ASSUME DataType', wsLock' \in Procs \cup {None}, adminLock' \in Procs \cup {None},
         at' \in [Procs -> Places],
         op' \in [Procs -> SessionOps \cup {"none", "gc", "provision"}],
         crashes' \in 0..MaxCrashes
  PROVE  TypeOK'
  BY DEF TypeOK, DataType

\* The inductive invariant holds at first.
LEMMA InitCustody == Init => CustodyInv
  <1> SUFFICES ASSUME Init PROVE CustodyInv
    OBVIOUS
  <1> USE CustodyAssumption, NoneIsNothing DEF Init, Base, Commits, MaybeCommit, Seqs
  <1>1. TypeOK
    BY DEF TypeOK, Places
  <1>2. FilesInv
    BY DEF FilesInv, PlanInv, SidecarInv, QuietInv, BirthInv, LineInv, CommitsInv,
       AckedInv, DecisionInv, DeletionInv
  <1>3. \A p \in Procs : Locked(p) /\ Stage(p) /\ Alone(p)
    BY DEF Locked, Stage, Alone, UnderLock, UnderAdmin, InLoad, InTransaction, InDeletion
  <1> QED  BY <1>1, <1>2, <1>3 DEF CustodyInv

\* The start of an operation, and the death of its process.
EntryStep(p) ==
  \/ AddWorktree(p) \/ BeginGc(p) \/ Crash(p) \/ \E o \in SessionOps : Begin(p, o)

\* To start an operation, or to die in it, changes no file but the worktree.
LEMMA EntryStepKeeps ==
  ASSUME CustodyInv, NEW p \in Procs, EntryStep(p)
  PROVE  CustodyInv'
  <1> USE CustodyAssumption, NoneIsNothing
      DEF UnderLock, UnderAdmin, InLoad, InTransaction, InDeletion, Places
  <1>1. /\ DataType /\ FilesInv /\ TypeOK
        /\ \A r \in Procs : Locked(r) /\ Stage(r) /\ Alone(r)
    BY TypeSplit DEF CustodyInv
  <1>2. CASE Crash(p)
    <2>1. UNCHANGED Data /\ StepOf(p) /\ crashes' \in 0..MaxCrashes
      BY <1>1, <1>2 DEF Crash, Data, StepOf, TypeOK
    <2>2. TypeOK' /\ FilesInv' /\ \A r \in Procs : Locked(r)'
      BY <1>1, <2>1, DataFrame, StepOfKeeps, TypeSplit, TypeJoin
    <2>3. at'[p] = "idle" /\ \A q \in Procs : q # p => at'[q] = at[q] /\ (wsLock = q => wsLock' = q)
      BY <1>1, <1>2 DEF Crash, Leave, TypeOK
    <2>4. \A q \in Procs : Stage(q)' /\ Alone(q)'
      <3>1. ASSUME NEW q \in Procs, q # p PROVE Stage(q)' /\ Alone(q)'
        <4>1. Stage(q)'
          BY <1>1, <2>1, <2>3, <3>1, StageFrame
        <4>2. Alone(q)'
          BY <1>1, <2>1, <2>3, <3>1 DEF Alone, Data, files
        <4> QED  BY <4>1, <4>2
      <3>2. Stage(p)' /\ Alone(p)'
        BY <2>3 DEF Stage, Alone
      <3> QED  BY <3>1, <3>2
    <2> QED  BY <2>2, <2>4 DEF CustodyInv
  <1>3. CASE \E o \in SessionOps : Begin(p, o)
    <2>1. PICK o \in SessionOps : Begin(p, o)
      BY <1>3
    <2>2. UNCHANGED Data /\ UNCHANGED crashes
      BY <2>1 DEF Begin, Data, ghost
    <2>3. TypeOK' /\ FilesInv'
      <3>1. /\ wsLock' \in Procs \cup {None} /\ adminLock' \in Procs \cup {None}
            /\ at' \in [Procs -> Places]
            /\ op' \in [Procs -> SessionOps \cup {"none", "gc", "provision"}]
        BY <1>1, <2>1 DEF TypeOK, Begin
      <3> QED  BY <1>1, <2>2, <3>1, DataFrame, TypeSplit, TypeJoin
    <2>4. at'[p] = "load" /\ op'[p] \in SessionOps /\ wsLock' = p /\ wsLock = None /\ adminLock' = adminLock
          /\ \A q \in Procs : q # p => at'[q] = at[q] /\ op'[q] = op[q]
      BY <1>1, <2>1 DEF TypeOK, Begin
    <2>5. \A q \in Procs : Locked(q)' /\ Stage(q)' /\ Alone(q)'
      <3>1. ASSUME NEW q \in Procs, q # p PROVE Locked(q)' /\ Stage(q)' /\ Alone(q)'
        <4>1. Stage(q)'
          BY <1>1, <2>2, <2>4, <3>1, StageFrame
        <4>2. Locked(q)'
          BY <1>1, <2>4, <3>1 DEF Locked
        <4>3. Alone(q)'
          BY <1>1, <2>2, <2>4, <3>1 DEF Alone, Data, files
        <4> QED  BY <4>1, <4>2, <4>3
      <3>2. Locked(p)' /\ Stage(p)' /\ Alone(p)'
        BY <2>4 DEF Locked, Stage, Alone, SessionOps, TransactionOps
      <3> QED  BY <3>1, <3>2
    <2> QED  BY <2>3, <2>5 DEF CustodyInv
  <1>4. CASE BeginGc(p)
    <2>2. UNCHANGED Data /\ UNCHANGED crashes
      BY <1>4 DEF BeginGc, Data, ghost
    <2>3. TypeOK' /\ FilesInv'
      <3>1. /\ wsLock' \in Procs \cup {None} /\ adminLock' \in Procs \cup {None}
            /\ at' \in [Procs -> Places]
            /\ op' \in [Procs -> SessionOps \cup {"none", "gc", "provision"}]
        BY <1>1, <1>4 DEF TypeOK, BeginGc
      <3> QED  BY <1>1, <2>2, <3>1, DataFrame, TypeSplit, TypeJoin
    <2>4. /\ \/ at'[p] = "removing" /\ record = None /\ tombstone # None /\ wsLock' = wsLock
             \/ at'[p] = "load" /\ wsLock' = p /\ wsLock = None
          /\ op'[p] = "gc" /\ adminLock' = p /\ adminLock = None
          /\ \A q \in Procs : q # p => at'[q] = at[q] /\ op'[q] = op[q]
      BY <1>1, <1>4 DEF TypeOK, BeginGc
    <2>5. \A q \in Procs : Locked(q)' /\ Stage(q)' /\ Alone(q)'
      <3>1. ASSUME NEW q \in Procs, q # p PROVE Locked(q)' /\ Stage(q)' /\ Alone(q)'
        <4>1. Stage(q)'
          BY <1>1, <2>2, <2>4, <3>1, StageFrame
        <4>2. Locked(q)'
          BY <1>1, <2>4, <3>1 DEF Locked
        <4>3. Alone(q)'
          BY <1>1, <2>2, <2>4, <3>1 DEF Alone, Data, files
        <4> QED  BY <4>1, <4>2, <4>3
      <3>2. Locked(p)'
        BY <2>4 DEF Locked
      <3>3. Stage(p)' /\ Alone(p)'
        BY <1>1, <2>2, <2>4 DEF Stage, Alone, FilesInv, DeletionInv, Data, files
      <3> QED  BY <3>1, <3>2, <3>3
    <2> QED  BY <2>3, <2>5 DEF CustodyInv
  <1>5. CASE AddWorktree(p)
    <2>1. /\ UNCHANGED <<files, objects, retention, ghost, wsLock>>
          /\ record = None /\ tombstone = None /\ worktree' = "present" /\ work' = BaseTree
      BY <1>5 DEF AddWorktree
    <2>2. DataType'
      BY <1>1, <2>1 DEF DataType, files, objects, ghost
    <2>3. FilesInv'
      BY <1>1, <2>1 DEF FilesInv, PlanInv, SidecarInv, Before, After,
         ResultDone, QuietInv, BirthInv, LineInv, CommitsInv, AckedInv, DecisionInv,
         DeletionInv, Effective, EffectiveResult, RefProven, ExpectedRef, files,
         objects, ghost
    <2>4. /\ at' \in [Procs -> Places] /\ op' \in [Procs -> SessionOps \cup {"none", "gc", "provision"}]
          /\ at'[p] = "provisioning" /\ op'[p] = "provision" /\ adminLock' = p /\ adminLock = None
          /\ \A q \in Procs : q # p => at'[q] = at[q] /\ op'[q] = op[q]
      BY <1>1, <1>5 DEF TypeOK, AddWorktree
    <2>5. TypeOK'
      BY <1>1, <2>1, <2>2, <2>4, TypeSplit, TypeJoin DEF ghost
    <2>6. \A q \in Procs : Locked(q)' /\ Stage(q)' /\ Alone(q)'
      <3>1. ASSUME NEW q \in Procs, q # p PROVE Locked(q)' /\ Stage(q)' /\ Alone(q)'
        <4>1. at[q] \notin InDeletion /\ Stage(q)
          BY <1>1, <2>1 DEF Stage
        <4>2. Stage(q)'
          BY <2>1, <2>4, <3>1, <4>1 DEF Stage, Before, After, ResultDone, ExpectedRef,
             files, objects
        <4>3. Locked(q)'
          BY <1>1, <2>1, <2>4, <3>1 DEF Locked
        <4>4. Alone(q)'
          BY <2>4, <3>1, <4>1 DEF Alone
        <4> QED  BY <4>2, <4>3, <4>4
      <3>2. Locked(p)' /\ Stage(p)' /\ Alone(p)'
        BY <2>1, <2>4 DEF Locked, Stage, Alone, files
      <3> QED  BY <3>1, <3>2
    <2> QED  BY <2>3, <2>5, <2>6 DEF CustodyInv
  <1> QED  BY <1>2, <1>3, <1>4, <1>5 DEF EntryStep

\* Edits, lost worktrees and the retention clock change no custody file.
LEMMA EnvironmentKeeps ==
  ASSUME CustodyInv, Environment
  PROVE  CustodyInv'
  <1>1. /\ DataType /\ FilesInv /\ TypeOK
        /\ \A r \in Procs : Locked(r) /\ Stage(r) /\ Alone(r)
    BY TypeSplit DEF CustodyInv
  <1>2. /\ UNCHANGED <<files, objects, locks, ghost>>
        /\ \/ UNCHANGED retention
           \/ retention = "running" /\ retention' = "over"
        /\ worktree = "missing" => worktree' = "missing"
        /\ work' \in Trees /\ worktree' \in {"present", "missing", "foreign"}
    BY <1>1 DEF Environment, Edit, LoseWorktree, Expire, place, DataType
  <1>3. DataType'
    BY <1>1, <1>2 DEF DataType, files, objects, ghost
  <1>4. TypeOK'
    BY <1>1, <1>2, <1>3, TypeSplit, TypeJoin DEF locks, ghost
  <1>5. FilesInv'
    BY <1>1, <1>2 DEF FilesInv, PlanInv, SidecarInv, Before, After,
       ResultDone, QuietInv, BirthInv, LineInv, CommitsInv, AckedInv, DecisionInv,
       DeletionInv, Effective, EffectiveResult, RefProven, ExpectedRef, files, objects,
       ghost
  <1>6. ASSUME NEW q \in Procs PROVE Locked(q)' /\ Stage(q)' /\ Alone(q)'
    <2>1. Stage(q)'
      BY <1>1, <1>2 DEF Stage, Before, After, ResultDone, ExpectedRef, files, objects,
         locks
    <2>2. Locked(q)' /\ Alone(q)'
      BY <1>1, <1>2 DEF Locked, Alone, files, locks
    <2> QED  BY <2>1, <2>2
  <1> QED  BY <1>4, <1>5, <1>6 DEF CustodyInv

\* Nor does a stuttering step.
LEMMA EnvFrame ==
  ASSUME CustodyInv, UNCHANGED vars
  PROVE  CustodyInv'
  <1>1. UNCHANGED Data /\ UNCHANGED locks /\ UNCHANGED crashes
    BY DEF vars, Data, ghost
  <1>2. DataType' /\ FilesInv'
    BY <1>1, DataFrame, TypeSplit DEF CustodyInv
  <1>3. TypeOK'
    BY <1>1, <1>2, TypeSplit, TypeJoin DEF CustodyInv, locks
  <1>4. ASSUME NEW q \in Procs PROVE Locked(q)' /\ Stage(q)' /\ Alone(q)'
    <2>1. Locked(q) /\ Stage(q) /\ Alone(q)
      BY DEF CustodyInv
    <2>2. Stage(q)'
      BY <1>1, <2>1, StageFrame DEF locks
    <2>3. Locked(q)' /\ Alone(q)'
      BY <1>1, <2>1 DEF Locked, Alone, Data, files, locks
    <2> QED  BY <2>2, <2>3
  <1> QED  BY <1>2, <1>3, <1>4 DEF CustodyInv

\* The inductive invariant is kept by every step.
LEMMA NextKeepsCustody == CustodyInv /\ [Next]_vars => CustodyInv'
  <1> SUFFICES ASSUME CustodyInv, [Next]_vars PROVE CustodyInv'
    OBVIOUS
  <1>1. ASSUME NEW p \in Procs, ProcStep(p) PROVE CustodyInv'
    <2>1. \A q \in Procs : DataType' /\ FilesInv' /\ StepOf(p) /\ Stage(q)' /\ Alone(q)'
      BY <1>1, ProcStepKeeps
    <2>2. TypeOK /\ \A r \in Procs : Locked(r)
      BY DEF CustodyInv
    <2>3. crashes' = crashes
      BY <1>1 DEF ProcStep, LoadStep, TransactionStep, RecordStep, GcStep,
        Provision, ReplayRecord, ReplayResult, ReplayDone, Abandon, Loaded, LoadRefused,
        WriteIntent, PublishRefused, Capture, NextRecord, CaptureFails, MoveRef, RefDiverged,
        WriteResult,
        WriteRecord, RemoveSidecar, CloseIdempotent, CloseWithoutCapture, Decide,
        DecideRefused,
        Reopen, ReopenRefused, ScanDone, WriteTombstone, Retain, ContinueDeletion,
        RemoveWorktree, DeleteRef, RemoveFile, Removed, ghost
    <2>4. TypeOK' /\ \A r \in Procs : Locked(r)'
      BY <1>1, <2>1, <2>2, <2>3, StepOfKeeps, TypeSplit, TypeJoin
    <2> QED  BY <1>1, <2>1, <2>4 DEF CustodyInv
  <1>2. ASSUME NEW p \in Procs, EntryStep(p) PROVE CustodyInv'
    BY <1>2, EntryStepKeeps
  <1>3. CASE Environment
    BY <1>3, EnvironmentKeeps
  <1>4. CASE UNCHANGED vars
    BY <1>4, EnvFrame
  <1> QED  BY <1>1, <1>2, <1>3, <1>4 DEF Next, EntryStep

\* The inductive invariant: what the locks, the place of each process and
\* the sidecar's stage say of the files (store.ts, lifecycle.ts).
THEOREM CustodyInvariant == Spec => []CustodyInv
  BY InitCustody, NextKeepsCustody, PTL DEF Spec

\* The type invariant of the files, objects, locks and processes.
THEOREM TypeCorrect == Spec => []TypeOK
  BY CustodyInvariant, PTL DEF CustodyInv

\* CrashResolvable: wherever processes die, the next load replays or abandons
\* the sidecar; only an interrupted deletion leaves ref and record apart.
THEOREM CrashesResolve == Spec => []CrashResolvable
  <1>1. ASSUME CustodyInv PROVE CrashResolvable
    <2> USE <1>1, CustodyAssumption, NoneIsNothing DEF FilesInv, CustodyInv, TypeOK, Base, Commits, MaybeCommit
    <2>1. CASE pending # None
      <3>1. After => Landed
        BY <2>1 DEF After, Landed, PostInPlace, PlanInv
      <3>2. Before => Landed \/ NeverLanded
        BY <2>1 DEF Before, Landed, NeverLanded
      <3> QED  BY <2>1, <3>1, <3>2 DEF CrashResolvable, Inconsistent, SidecarInv
    <2>2. CASE pending = None /\ record # None /\ ~Agrees(record)
      <3>1. ref # ExpectedRef(record)
        BY <2>2 DEF Agrees, ExpectedRef, Record
      <3>2. tombstone # None /\ ref = None
        BY <2>2, <3>1 DEF QuietInv, DeletionInv
      <3>3. tombstone.head # Base
        BY <2>2, <3>2 DEF Agrees, DeletionInv
      <3> QED  BY <3>2, <3>3 DEF CrashResolvable, DeletionInv
    <2> QED  BY <2>1, <2>2 DEF CrashResolvable, Inconsistent
  <1> QED  BY <1>1, CustodyInvariant, PTL

\* AckedResultsKept: a result its publisher was told of names its commit, and
\* the ref pins it, until the deletion is decided.
THEOREM AckedResultsStay == Spec => []AckedResultsKept
  <1>1. ASSUME CustodyInv PROVE AckedResultsKept
    <2> USE <1>1, CustodyAssumption, NoneIsNothing DEF FilesInv, CustodyInv, TypeOK, Base, Commits, MaybeCommit, Seqs
    <2> SUFFICES ASSUME tombstone = None, NEW a \in acked
                 PROVE  /\ EffectiveResult(a[1]) = a[2] /\ a[1] <= Effective.seq
                        /\ a[2] = Base \/ (ref # None /\ a[2] \in pastOf[ref])
      BY DEF AckedResultsKept
    <2>1. a[1] \in 1..Effective.seq /\ EffectiveResult(a[1]) = a[2] /\ a[1] \in Seqs /\ a[2] \in Commits
      BY DEF AckedInv
    <2>2. record # None
      BY DEF BirthInv
    <2>3. a[2] \in pastOf[Effective.head]
      BY <2>1, <2>2 DEF LineInv
    <2>4. ref = Effective.head \/ Effective.head = Base
      BY <2>2 DEF Effective, RefProven, PlanInv, SidecarInv, Before, After, QuietInv,
         ExpectedRef
    <2>5. Effective.head \in Commits
      BY <2>2 DEF Effective, RefProven, PlanInv, Record
    <2>6. CASE Effective.head = Base
      BY <2>1, <2>3, <2>6 DEF CommitsInv
    <2>7. CASE ref = Effective.head
      BY <2>1, <2>3, <2>5, <2>7
    <2> QED  BY <2>1, <2>4, <2>6, <2>7 DEF Seqs
  <1> QED  BY <1>1, CustodyInvariant, PTL

\* DecisionExact: a decision names the last result and the head, for good, and
\* all the results it covers stay on disk until the deletion starts.
THEOREM DecisionsStayExact == Spec => []DecisionExact
  <1>1. ASSUME CustodyInv PROVE DecisionExact
    <2> USE <1>1, CustodyAssumption, NoneIsNothing DEF FilesInv, CustodyInv
    <2> SUFFICES ASSUME record # None, record.handoff # None
                 PROVE  /\ record.handoff.seq = record.seq /\ record.handoff.commit = record.head
                        /\ record.custody = "closed" /\ pending = None
                        /\ tombstone = None => \A s \in 1..record.seq : results[s] # None
      BY DEF DecisionExact
    <2>1. pending = None
      BY DEF PlanInv
    <2>2. tombstone = None => \A s \in 1..record.seq : results[s] # None
      BY <2>1 DEF LineInv, Effective, EffectiveResult, RefProven
    <2> QED  BY <2>1, <2>2 DEF DecisionInv
  <1> QED  BY <1>1, CustodyInvariant, PTL

\* DeletionOrdered: the decision, the retention window, the tombstone, the
\* worktree, the ref and the record go in this order.
THEOREM DeletionsInOrder == Spec => []DeletionOrdered
  <1>1. ASSUME CustodyInv PROVE DeletionOrdered
    BY <1>1 DEF CustodyInv, FilesInv, DeletionInv, DeletionOrdered
  <1> QED  BY <1>1, CustodyInvariant, PTL

-----------------------------------------------------------------------------
(* The ref that something else moved.                                      *)

\* What the audit of a contradicted session needs of its files.
Evidence == <<record, pending, results, tombstone>>

\* While every process is between two operations or at the start of its load,
\* a process that takes a step leaves the evidence alone: the load neither
\* replays nor abandons what the ref contradicts.
LEMMA LoadKeepsEvidence ==
  ASSUME Contradicted, NEW p \in Procs, at[p] \in {"idle", "load"}, ProcStep(p)
  PROVE  UNCHANGED Evidence
  <1> USE DEF Running
  <1>1. CASE Provision(p)
    BY <1>1 DEF Provision
  <1>2. CASE LoadStep(p)
    <2>1. pending # None => ~Landed /\ ~NeverLanded
      BY DEF Contradicted, Landed, NeverLanded, PostInPlace
    <2> QED  BY <1>2, <2>1 DEF LoadStep, ReplayRecord, ReplayResult, ReplayDone, Abandon,
               Loaded, LoadRefused, Evidence, files
  <1>3. CASE TransactionStep(p)
    BY <1>3 DEF TransactionStep, WriteIntent, PublishRefused, Capture, CaptureFails, MoveRef,
       RefDiverged, WriteResult, WriteRecord, RemoveSidecar
  <1>4. CASE RecordStep(p)
    <2>1. ASSUME NEW seq \in 0..MaxSeq, NEW commit \in Commits PROVE ~DecideRefused(p, seq, commit)
      BY DEF DecideRefused
    <2>2. ASSUME NEW seq \in 0..MaxSeq, NEW commit \in Commits,
                 NEW decision \in {"accepted", "discarded"}
          PROVE  ~Decide(p, decision, seq, commit)
      BY DEF Decide
    <2>3. ~CloseIdempotent(p) /\ ~CloseWithoutCapture(p) /\ ~Reopen(p) /\ ~ReopenRefused(p) /\ ~ScanDone(p)
      BY DEF CloseIdempotent, CloseWithoutCapture, Reopen, ReopenRefused, ScanDone
    <2> QED  BY <1>4, <2>1, <2>2, <2>3 DEF RecordStep
  <1>5. CASE GcStep(p)
    BY <1>5 DEF GcStep, WriteTombstone, Retain, ContinueDeletion, RemoveWorktree, DeleteRef,
       RemoveFile, Removed, Evidence, files
  <1> QED  BY <1>1, <1>2, <1>3, <1>4, <1>5 DEF ProcStep

\* AuditKept: a session its ref contradicts is left as it is, whatever the
\* processes do with it, until something else moves the ref again.
THEOREM AuditIsKept == SpecWithForeignRef => AuditKept
  <1>1. ASSUME Contradicted, \A p \in Procs : at[p] \in {"idle", "load"},
               [Next \/ MoveRefOutside]_vars
        PROVE  UNCHANGED Evidence
    <2>1. ASSUME NEW p \in Procs,
                 AddWorktree(p) \/ BeginGc(p) \/ Crash(p) \/ \E o \in SessionOps : Begin(p, o)
          PROVE  UNCHANGED Evidence
      BY <2>1 DEF AddWorktree, BeginGc, Crash, Begin, Evidence, files
    <2>2. ASSUME NEW p \in Procs, ProcStep(p) PROVE UNCHANGED Evidence
      BY <1>1, <2>2, LoadKeepsEvidence
    <2>3. CASE Environment \/ MoveRefOutside \/ UNCHANGED vars
      BY <2>3 DEF Environment, Edit, LoseWorktree, Expire, MoveRefOutside, vars, files, Evidence
    <2> QED  BY <1>1, <2>1, <2>2, <2>3 DEF Next
  <1>2. [Next \/ MoveRefOutside]_vars
          => [(Contradicted /\ \A p \in Procs : at[p] \in {"idle", "load"})
                => UNCHANGED <<record, pending, results, tombstone>>]_vars
    BY <1>1 DEF Evidence
  <1> QED  BY <1>2, PTL DEF SpecWithForeignRef, AuditKept

-----------------------------------------------------------------------------
(* Custody implements ResultLine: what a reader of the files finds, with   *)
(* the sidecar replayed in mind, changes as the result line does, or not   *)
(* at all.                                                                 *)
(* The abstract state.                                                     *)

\* A session that is there is live, closed or decided, with a line of results;
\* one that is not has none.
View ==
  /\ record # None /\ tombstone = None =>
       /\ Effective \in Record
       /\ Phase = IF Effective.handoff # None THEN "decided" ELSE Effective.custody
       /\ Line = [s \in 1..Effective.seq |-> EffectiveResult(s)] /\ Tip = Effective.head
  /\ record = None \/ tombstone # None =>
       /\ Phase = IF tombstone # None THEN "deleted" ELSE "none"
       /\ Line = <<>> /\ Tip = Base

\* The view is what the operators of CustodyProps define.
LEMMA Viewed == DataType /\ PlanInv => View
<1> SUFFICES ASSUME DataType, PlanInv PROVE View
  OBVIOUS
<1>1. CASE record # None /\ tombstone = None
  <2>1. Effective \in Record
    BY <1>1 DEF Effective, RefProven, PlanInv, DataType
  <2>2. Phase = IF Effective.handoff # None THEN "decided" ELSE Effective.custody
    BY <1>1 DEF Phase
  <2>3. ~Gone
    BY <2>1, <2>2 DEF Gone, Record
  <2> QED
    BY <1>1, <2>1, <2>2, <2>3 DEF View, Line, Tip
<1>2. CASE record = None \/ tombstone # None
  <2>1. Phase = IF tombstone # None THEN "deleted" ELSE "none"
    BY <1>2 DEF Phase
  <2> QED
    BY <1>2, <2>1 DEF View, Gone, Line, Tip
<1> QED
  BY <1>1, <1>2

\* And so it is after a step.
LEMMA ViewedNext == DataType' /\ PlanInv' => View'
  BY Viewed, PTL

\* What a step has to keep for its readers to notice nothing.
LEMMA Unnoticed ==
  ASSUME View, View', UNCHANGED tombstone,
         record = None <=> record' = None,
         record # None /\ tombstone = None =>
           /\ Effective' = Effective
           /\ \A s \in 1..Effective.seq : EffectiveResult(s)' = EffectiveResult(s)
  PROVE  UNCHANGED Abstract!vars
<1>1. CASE record # None /\ tombstone = None
  BY <1>1 DEF View, Abstract!vars
<1>2. CASE record = None \/ tombstone # None
  BY <1>2 DEF View, Abstract!vars
<1> QED
  BY <1>1, <1>2

\* The length of a sequence given as a function.
LEMMA FunctionIsSequence ==
  ASSUME NEW n \in Nat, NEW S, NEW q \in [1..n -> S]
  PROVE  q \in Seq(S) /\ Len(q) = n
<1>1. q \in Seq(S)
  BY SeqDef
<1>2. Len(q) \in Nat /\ 1..Len(q) = 1..n
  BY <1>1, LenProperties
<1> QED
  BY <1>1, <1>2

\* A function on one number more is the line with one result more.
LEMMA Appended ==
  ASSUME NEW n \in Nat, NEW S, NEW q \in [1..n -> S], NEW c \in S
  PROVE  [s \in 1..(n + 1) |-> IF s = n + 1 THEN c ELSE q[s]] = Append(q, c)
<1> DEFINE r == [s \in 1..(n + 1) |-> IF s = n + 1 THEN c ELSE q[s]]
<1>1. q \in Seq(S) /\ Len(q) = n
  BY FunctionIsSequence
<1>2. r \in [1..(n + 1) -> S]
  OBVIOUS
<1>3. r \in Seq(S) /\ Len(r) = n + 1
  <2> HIDE DEF r
  <2> QED
    BY <1>2, FunctionIsSequence
<1>4. /\ Append(q, c) \in Seq(S) /\ Len(Append(q, c)) = n + 1
      /\ \A s \in 1..n : Append(q, c)[s] = q[s]
      /\ Append(q, c)[n + 1] = c
  BY <1>1, AppendProperties
<1>5. \A s \in 1..(n + 1) : r[s] = Append(q, c)[s]
  BY <1>4
<1> HIDE DEF r
<1>6. r = Append(q, c)
  BY <1>3, <1>4, <1>5, SeqEqual
<1> QED
  BY <1>6 DEF r

\* A transition that takes effect is a publication or a closure of the line.
LEMMA TakesEffect ==
  ASSUME DataType, DataType', LineInv, View, View',
         record # None, record' # None, tombstone = None, tombstone' = None,
         Effective = record, record.custody = "live", record.handoff = None,
         NEW n \in Record, NEW kind \in {"result", "close"}, Effective' = n,
         n.handoff = None,
         n.custody = IF kind = "close" THEN "closed" ELSE "live",
         n.seq = IF kind = "result" THEN record.seq + 1 ELSE record.seq,
         \A s \in 1..record.seq : EffectiveResult(s)' = EffectiveResult(s),
         kind = "result" => EffectiveResult(n.seq)' = n.head
  PROVE  Abstract!Next
<1>1. record.seq \in Nat /\ record.seq \in 0..MaxSeq /\ n.head \in Commits
  BY CustodyAssumption DEF Record, DataType
<1>2. /\ Phase = "live" /\ Phase' = n.custody /\ Tip' = n.head
      /\ Line = [s \in 1..record.seq |-> EffectiveResult(s)]
      /\ Line' = [s \in 1..n.seq |-> EffectiveResult(s)']
  BY DEF View
<1>3. CASE kind = "close"
  <2>1. Line' = Line
    BY <1>1, <1>2, <1>3
  <2> QED
    BY <1>1, <1>2, <1>3, <2>1 DEF Abstract!Next, Abstract!Close
<1>4. CASE kind = "result"
  <2>1. Line \in [1..record.seq -> MaybeCommit]
    <3>1. \A s \in 1..record.seq : EffectiveResult(s) \in MaybeCommit
      BY <1>1, CustodyAssumption DEF EffectiveResult, DataType, Sidecar, Seqs, RefProven
    <3> QED
      BY <1>2, <3>1
  <2>2. Line' = [s \in 1..(record.seq + 1) |-> IF s = record.seq + 1 THEN n.head ELSE Line[s]]
    <3>1. \A s \in 1..(record.seq + 1) :
            EffectiveResult(s)' = IF s = record.seq + 1 THEN n.head ELSE Line[s]
      BY <1>1, <1>2, <1>4
    <3> QED
      BY <1>2, <1>4, <3>1
  <2>3. Line' = Append(Line, n.head)
    <3> HIDE DEF MaybeCommit
    <3>1. n.head \in MaybeCommit
      BY <1>1 DEF MaybeCommit
    <3> QED
      BY ONLY <1>1, <2>1, <2>2, <3>1, Appended
  <2> QED
    BY <1>1, <1>2, <1>4, <2>3 DEF Abstract!Next, Abstract!Publish
<1> QED
  BY <1>3, <1>4

-----------------------------------------------------------------------------
(* The steps, one by one.                                                  *)

\* What a step may use, and what it has to show.
Around(p) == Known(p) /\ DataType' /\ FilesInv' /\ View /\ View'
Implements == [Abstract!Next]_(Abstract!vars)

\* Readers notice nothing of a step that leaves the files alone.
LEMMA FilesUnchanged ==
  ASSUME View, View', UNCHANGED files
  PROVE  Implements
<1>1. UNCHANGED Abstract!vars
  BY Unnoticed DEF files, Effective, EffectiveResult, RefProven
<1> QED
  BY <1>1 DEF Implements

\* A provisioned session is an empty line.
LEMMA ProvisionImplements ==
  ASSUME NEW p \in Procs, Around(p), Provision(p)
  PROVE  Implements
<1> USE CustodyAssumption, NoneIsNothing DEF Around, Known
<1>1. record = None /\ tombstone = None /\ pending = None
  BY DEF Provision, Running, Stage, FilesInv, BirthInv
<1>2. /\ record' \in Record /\ tombstone' = None /\ pending' = None
      /\ record'.custody = "live" /\ record'.head = Base /\ record'.seq = 0 /\ record'.handoff = None
  BY <1>1 DEF Provision, Record, Commits, Base
<1>3. Effective' = record' /\ record' # None
  BY <1>2 DEF Effective, RefProven
<1>4. /\ Phase = "none" /\ Line = <<>> /\ Tip = Base
      /\ Phase' = "live" /\ Line' = <<>> /\ Tip' = Base
  BY <1>1, <1>2, <1>3 DEF View
<1> QED
  BY <1>4 DEF Implements, Abstract!Next, Abstract!Provision

\* A replay brings the files to where a reader took them to be already.
LEMMA ReplayImplements ==
  ASSUME NEW p \in Procs, Around(p),
         ReplayRecord(p) \/ ReplayResult(p) \/ ReplayDone(p)
  PROVE  Implements
<1> USE CustodyAssumption, NoneIsNothing DEF Around, Known, FilesInv
<1>1. CASE ReplayRecord(p)
  <2>1. /\ pending # None /\ pending.phase = "captured" /\ record # None /\ tombstone = None
        /\ UNCHANGED <<pending, ref, results, tombstone>>
    BY <1>1 DEF ReplayRecord, Landed, PlanInv
  <2>2. record' = pending.next /\ record' # None
    BY <1>1, <2>1 DEF ReplayRecord, Landed, PostInPlace, SidecarInv, Before, After, PlanInv, DataType, Record, Sidecar
  <2>3. Effective' = Effective
    BY <1>1, <2>1, <2>2 DEF ReplayRecord, Landed, PostInPlace, Effective, RefProven, SidecarInv, Before, After, PlanInv, DataType, Sidecar
  <2>4. UNCHANGED Abstract!vars
    BY <2>1, <2>2, <2>3, Unnoticed DEF EffectiveResult, RefProven
  <2> QED
    BY <2>4 DEF Implements
<1>2. CASE ReplayResult(p)
  <2>1. /\ pending # None /\ After /\ record # None /\ tombstone = None
        /\ UNCHANGED <<record, pending, ref, tombstone>>
    BY <1>2 DEF ReplayResult, Stage, PlanInv
  <2>2. \A s \in Seqs : EffectiveResult(s)' = EffectiveResult(s)
    BY <1>2, <2>1 DEF ReplayResult, After, ResultDone, EffectiveResult, RefProven, DataType, PlanInv
  <2>3. Effective' = Effective /\ 1..Effective.seq \subseteq Seqs
    BY <2>1 DEF Effective, RefProven, View, Record, Seqs
  <2>4. UNCHANGED Abstract!vars
    BY <2>1, <2>2, <2>3, Unnoticed
  <2> QED
    BY <2>4 DEF Implements
<1>3. CASE ReplayDone(p)
  <2>1. /\ pending # None /\ After /\ ResultDone /\ record # None /\ tombstone = None
        /\ UNCHANGED <<record, ref, results, tombstone>> /\ pending' = None
    BY <1>3 DEF ReplayDone, Stage, PlanInv
  <2>2. UNCHANGED Abstract!vars
    BY <2>1, Unnoticed DEF After, ResultDone, Effective, EffectiveResult, RefProven
  <2> QED
    BY <2>2 DEF Implements
<1> QED
  BY <1>1, <1>2, <1>3

\* A sidecar that proves nothing may come and go.
LEMMA SidecarImplements ==
  ASSUME NEW p \in Procs, Around(p),
         WriteIntent(p) \/ Abandon(p) \/ RefDiverged(p) \/ RemoveSidecar(p)
  PROVE  Implements
<1> USE CustodyAssumption, NoneIsNothing DEF Around, Known, FilesInv
<1>1. UNCHANGED <<record, ref, results, tombstone>>
  BY DEF WriteIntent, Abandon, RefDiverged, RemoveSidecar
<1>2. CASE WriteIntent(p) \/ Abandon(p) \/ RefDiverged(p)
  <2>1. ~RefProven
    BY <1>2 DEF WriteIntent, Abandon, RefDiverged, NeverLanded, Landed, RefProven, RefMoves, Stage
  <2>2. ~RefProven'
    BY <1>2 DEF WriteIntent, Abandon, RefDiverged, RefProven
  <2>3. UNCHANGED Abstract!vars
    BY <1>1, <2>1, <2>2, Unnoticed DEF Effective, EffectiveResult
  <2> QED
    BY <2>3 DEF Implements
<1>3. CASE RemoveSidecar(p)
  <2>1. pending # None /\ After /\ ResultDone /\ pending' = None
    BY <1>3 DEF RemoveSidecar, Stage
  <2>2. UNCHANGED Abstract!vars
    BY <1>1, <2>1, Unnoticed DEF After, ResultDone, Effective, EffectiveResult, RefProven
  <2> QED
    BY <2>2 DEF Implements
<1> QED
  BY <1>2, <1>3

\* A result file that is not counted yet is not read.
LEMMA WriteResultImplements ==
  ASSUME NEW p \in Procs, Around(p), WriteResult(p)
  PROVE  Implements
<1> USE CustodyAssumption, NoneIsNothing DEF Around, Known, FilesInv
<1>1. /\ pending # None /\ pending.phase = "captured" /\ pending.kind = "result" /\ Before
      /\ record # None /\ record \in Record /\ tombstone = None
      /\ UNCHANGED <<record, pending, ref, tombstone>>
  BY DEF WriteResult, Stage, PlanInv, DataType
<1>2. pending.next.seq = record.seq + 1 /\ record.seq \in Nat
  BY <1>1 DEF Before, Record
<1>3. Effective' = Effective
  BY <1>1 DEF Effective, RefProven
<1>4. \A s \in 1..Effective.seq : EffectiveResult(s)' = EffectiveResult(s)
  <2>1. CASE RefProven
    BY <1>1, <2>1 DEF WriteResult, EffectiveResult, RefProven, DataType
  <2>2. CASE ~RefProven
    BY <1>1, <1>2, <2>2 DEF WriteResult, Effective, EffectiveResult, RefProven, DataType
  <2> QED
    BY <2>1, <2>2
<1>5. UNCHANGED Abstract!vars
  BY <1>1, <1>3, <1>4, Unnoticed
<1> QED
  BY <1>5 DEF Implements

\* A capture that made no commit finds its ref in place: it takes effect at once.
LEMMA CaptureImplements ==
  ASSUME NEW p \in Procs, Around(p), Capture(p)
  PROVE  Implements
<1> USE CustodyAssumption, NoneIsNothing DEF Around, Known, FilesInv
<1>1. /\ pending # None /\ pending \in Sidecar /\ pending.phase = "intent" /\ ~RefProven
      /\ record # None /\ record \in Record /\ tombstone = None
      /\ record.custody = "live" /\ record.handoff = None
      /\ pending.kind \in {"result", "close"}
  BY DEF Capture, Stage, PlanInv, SidecarInv, Before, After, DataType, Sidecar, RefProven
<1>2. UNCHANGED <<record, ref, results, tombstone>>
  BY DEF Capture
<1>3. CASE ~RefProven'
  <2>1. UNCHANGED Abstract!vars
    BY <1>1, <1>2, <1>3, Unnoticed DEF Effective, EffectiveResult
  <2> QED
    BY <2>1 DEF Implements
<1>4. CASE RefProven'
  <2> DEFINE commit == IF work # treeOf[record.head] THEN ncommits + 1 ELSE record.head
  <2>1. pending' = Captured(pending, commit, NextRecord(commit))
    BY DEF Capture, Captured
  <2> HIDE DEF commit
  <2>2. /\ pending'.next = NextRecord(commit) /\ pending'.kind = pending.kind /\ pending' # None
        /\ pending'.next \in Record /\ pending'.next.head = pending'.commit
    <3>1. pending'.kind = pending.kind /\ pending'.next = NextRecord(commit)
      BY <1>1, <2>1 DEF Captured, Sidecar
    <3>2. /\ pending' # None /\ pending'.phase = "captured"
      BY <1>4 DEF RefProven
    <3> QED
      BY <3>1, <3>2 DEF PlanInv
  <2>3. PICK n \in Record, kind \in {"result", "close"} : n = pending'.next /\ kind = pending.kind
    BY <1>1, <2>2
  <2>4. /\ n.handoff = None /\ n.head = pending'.commit
        /\ n.custody = IF kind = "close" THEN "closed" ELSE "live"
        /\ n.seq = IF kind = "result" THEN record.seq + 1 ELSE record.seq
    BY <1>1, <2>2, <2>3 DEF NextRecord
  <2>5. record.seq \in Nat
    BY <1>1 DEF Record
  <2>6. /\ Effective = record /\ Effective' = n
        /\ \A s \in 1..record.seq : EffectiveResult(s)' = EffectiveResult(s)
        /\ kind = "result" => EffectiveResult(n.seq)' = n.head
    BY <1>1, <1>2, <1>4, <2>2, <2>3, <2>4, <2>5 DEF Effective, EffectiveResult, RefProven
  <2>7. Abstract!Next
    BY <1>1, <1>2, <2>4, <2>6, TakesEffect
  <2> QED
    BY <2>7 DEF Implements
<1> QED
  BY <1>3, <1>4

\* Otherwise it takes effect when the ref moves, or with no ref to move when the
\* record is written.
LEMMA CommitImplements ==
  ASSUME NEW p \in Procs, Around(p), MoveRef(p) \/ WriteRecord(p)
  PROVE  Implements
<1> USE CustodyAssumption, NoneIsNothing DEF Around, Known, FilesInv
<1>1. /\ pending # None /\ pending.phase = "captured" /\ pending.kind \in {"result", "close"} /\ Before
      /\ record # None /\ record \in Record /\ tombstone = None
      /\ record.custody = "live" /\ record.handoff = None
      /\ pending.next \in Record /\ pending.next.handoff = None /\ pending.next.head = pending.commit
      /\ pending.next.custody = IF pending.kind = "close" THEN "closed" ELSE "live"
      /\ pending.next.seq = IF pending.kind = "result" THEN record.seq + 1 ELSE record.seq
      /\ UNCHANGED <<pending, results, tombstone>>
  BY DEF MoveRef, WriteRecord, Stage, PlanInv, Before, DataType, Sidecar
<1>2. pending.next # None /\ record' # None
  BY <1>1 DEF MoveRef, WriteRecord
<1>3. CASE Effective' = Effective
  <2>1. \A s \in 1..Effective.seq : EffectiveResult(s)' = EffectiveResult(s)
    BY <1>1, <1>3 DEF MoveRef, WriteRecord, EffectiveResult, Effective, RefProven, Record
  <2>2. UNCHANGED Abstract!vars
    BY <1>1, <1>2, <1>3, <2>1, Unnoticed
  <2> QED
    BY <2>2 DEF Implements
<1>4. CASE Effective' # Effective
  <2>1. ~RefProven /\ Effective = record /\ Effective' = pending.next
    BY <1>1, <1>4 DEF MoveRef, WriteRecord, RefMoves, Effective, RefProven
  <2>2. PICK n \in Record, kind \in {"result", "close"} : n = pending.next /\ kind = pending.kind
    BY <1>1
  <2>3. record.seq \in Nat
    BY <1>1 DEF Record
  <2>4. /\ \A s \in 1..record.seq : EffectiveResult(s)' = EffectiveResult(s)
        /\ kind = "result" => EffectiveResult(n.seq)' = n.head
    <3>1. CASE MoveRef(p)
      BY <1>1, <1>4, <2>1, <2>2, <2>3, <3>1 DEF MoveRef, RefMoves, Effective, EffectiveResult, RefProven
    <3>2. CASE WriteRecord(p)
      BY <1>1, <2>1, <2>2, <2>3, <3>2 DEF WriteRecord, Stage, ResultDone, EffectiveResult, RefProven
    <3> QED
      BY <3>1, <3>2
  <2>5. Abstract!Next
    BY <1>1, <1>2, <2>1, <2>2, <2>4, TakesEffect
  <2> QED
    BY <2>5 DEF Implements
<1> QED
  BY <1>3, <1>4

\* A closure and a reopening write the custody they name.
LEMMA CustodyWritten ==
  ASSUME NEW r \in Record, NEW c \in {"live", "closed"}
  PROVE  [r EXCEPT !.custody = c, !.revision = r.revision + 1].custody = c
<1> DEFINE t == [r EXCEPT !.custody = c]
<1>1. t \in Record /\ t.custody = c /\ r.revision + 1 \in Nat
  BY DEF Record
<1>2. [r EXCEPT !.custody = c, !.revision = r.revision + 1] = [t EXCEPT !.revision = r.revision + 1]
  OBVIOUS
<1> HIDE DEF t
<1> QED  BY <1>1, <1>2, WithRevision

\* The transitions of the record alone are those of the phase.
LEMMA RecordStepImplements ==
  ASSUME NEW p \in Procs, Around(p),
         \/ CloseWithoutCapture(p) \/ Reopen(p)
         \/ \E seq \in 0..MaxSeq, commit \in Commits, decision \in {"accepted", "discarded"} :
              Decide(p, decision, seq, commit)
  PROVE  Implements
<1> USE CustodyAssumption, NoneIsNothing DEF Around, Known, FilesInv
<1>1. /\ pending = None /\ record # None /\ record \in Record /\ tombstone = None
      /\ record.handoff = None /\ UNCHANGED <<pending, ref, results, tombstone>>
  BY DEF CloseWithoutCapture, Reopen, MayReopen, Decide, MayDecide, Running, Stage, DataType,
         DeletionInv, DecisionInv
<1>2. /\ record' # None /\ record'.head = record.head /\ record'.seq = record.seq
      /\ \/ record.custody = "live" /\ record'.custody = "closed" /\ record'.handoff = None
         \/ record.custody = "closed" /\ record'.custody = "live" /\ record'.handoff = None
         \/ record.custody = "closed" /\ record'.custody = "closed" /\ record'.handoff # None
  <2>1. CASE CloseWithoutCapture(p)
    <3>1. record' = Closed(record) /\ record.custody = "live"
      BY <2>1 DEF CloseWithoutCapture, Closed
    <3>2. /\ record' # None /\ record'.head = record.head /\ record'.seq = record.seq
          /\ record'.handoff = None
      BY <1>1, <3>1, RecordForms
    <3>3. record'.custody = "closed"
      BY <1>1, <3>1, CustodyWritten DEF Closed
    <3> QED
      BY <1>1, <3>1, <3>2, <3>3
  <2>2. CASE Reopen(p)
    <3>1. record' = Reopened(record) /\ record.custody = "closed"
      BY <2>2 DEF Reopen, MayReopen, Reopened
    <3>2. /\ record' # None /\ record'.head = record.head /\ record'.seq = record.seq
          /\ record'.handoff = None
      BY <1>1, <3>1, RecordForms
    <3>3. record'.custody = "live"
      BY <1>1, <3>1, CustodyWritten DEF Reopened
    <3> QED
      BY <1>1, <3>1, <3>2, <3>3
  <2>3. CASE \E seq \in 0..MaxSeq, commit \in Commits, decision \in {"accepted", "discarded"} :
               Decide(p, decision, seq, commit)
    <3>1. PICK seq \in 0..MaxSeq, commit \in Commits, decision \in {"accepted", "discarded"} :
            Decide(p, decision, seq, commit)
      BY <2>3
    <3> DEFINE h == [decision |-> decision, seq |-> seq, commit |-> commit]
    <3>2. h \in Handoff /\ h # None
      BY DEF Handoff
    <3>5. record.custody = "closed"
      BY <3>1 DEF Decide, MayDecide
    <3>3. record' = Decided(record, h)
      BY <3>1 DEF Decide, Decided
    <3> HIDE DEF h
    <3>4. /\ record' # None /\ record'.head = record.head /\ record'.seq = record.seq
          /\ record'.custody = record.custody /\ record'.handoff = h
      BY <1>1, <3>2, <3>3, RecordForms
    <3> QED
      BY <1>1, <3>2, <3>4, <3>5
  <2> QED
    BY <2>1, <2>2, <2>3
<1>3. /\ Effective = record /\ Effective' = record'
      /\ \A s \in 1..record.seq : EffectiveResult(s)' = EffectiveResult(s)
  BY <1>1 DEF Effective, EffectiveResult, RefProven
<1>4. /\ Line' = Line /\ Tip' = Tip /\ Tip \in Commits
      /\ Phase = record.custody
      /\ Phase' = IF record'.handoff # None THEN "decided" ELSE record'.custody
  BY <1>1, <1>2, <1>3 DEF View, Record
<1> QED
  BY <1>1, <1>2, <1>4 DEF Implements, Abstract!Next, Abstract!Close, Abstract!Reopen, Abstract!Decide

\* The session is gone for its readers once the tombstone is written.
LEMMA DeletionImplements ==
  ASSUME NEW p \in Procs, Around(p),
         WriteTombstone(p) \/ RemoveWorktree(p) \/ DeleteRef(p) \/ RemoveFile(p)
  PROVE  Implements
<1> USE CustodyAssumption, NoneIsNothing DEF Around, Known, FilesInv
<1>1. CASE WriteTombstone(p) /\ tombstone = None
  <2>1. /\ record # None /\ pending = None /\ record.handoff # None /\ tombstone' # None
    <3>1. tombstone' \in Tombstone
      BY <1>1 DEF WriteTombstone, Running, Stage, Tombstone, DataType, Record
    <3> QED
      BY <1>1, <3>1 DEF WriteTombstone, Collectable, Running, Stage
  <2>2. Effective = record
    BY <2>1 DEF Effective, RefProven
  <2>3. Phase = "decided" /\ Phase' = "deleted" /\ Line' = <<>> /\ Tip' = Base
    BY <1>1, <2>1, <2>2 DEF View
  <2> QED
    BY <2>3 DEF Implements, Abstract!Next, Abstract!Delete
<1>2. CASE tombstone # None
  <2>1. tombstone' # None
    <3>1. CASE WriteTombstone(p)
      <4>1. tombstone' \in Tombstone
        BY <3>1 DEF WriteTombstone, Running, Stage, Tombstone, DataType, Record
      <4> QED
        BY <4>1
    <3>2. CASE ~WriteTombstone(p)
      BY <1>2, <3>2 DEF RemoveWorktree, DeleteRef, RemoveFile, files
    <3> QED
      BY <3>1, <3>2
  <2>2. UNCHANGED Abstract!vars
    BY <1>2, <2>1 DEF View, Abstract!vars
  <2> QED
    BY <2>2 DEF Implements
<1>3. ~WriteTombstone(p) => tombstone # None
  BY DEF RemoveWorktree, DeleteRef, RemoveFile, Stage, InDeletion
<1> QED
  BY <1>1, <1>2, <1>3

\* The steps that write no file of custody.
LEMMA OtherStepImplements ==
  ASSUME View, View',
         (\E p \in Procs : ControlStep(p) \/ EntryStep(p)) \/ Environment \/ UNCHANGED vars
  PROVE  Implements
<1>1. UNCHANGED files
  BY DEF ControlStep, Loaded, LoadRefused, ScanDone, PublishRefused, CaptureFails, CloseIdempotent,
         ReopenRefused, Retain, ContinueDeletion, Removed, DecideRefused,
         EntryStep, AddWorktree, BeginGc, Crash, Begin, Environment, Edit, LoseWorktree, Expire, vars
<1> QED
  BY <1>1, FilesUnchanged

-----------------------------------------------------------------------------
(* The refinement.                                                         *)

\* Before the session is provisioned there is no line.
LEMMA InitImplements == Init => Abstract!Init
<1> SUFFICES ASSUME Init PROVE Abstract!Init
  OBVIOUS
<1>1. Phase = "none" /\ Line = <<>> /\ Tip = Base
  BY DEF Init, Phase, Gone, Line, Tip
<1> QED
  BY <1>1 DEF Abstract!Init

\* Every step is a step of the line, or none.
LEMMA NextImplements == CustodyInv /\ [Next]_vars => Implements
<1> SUFFICES ASSUME CustodyInv, [Next]_vars PROVE Implements
  OBVIOUS
<1>1. CustodyInv'
  BY NextKeepsCustody
<1>2. /\ DataType /\ FilesInv /\ DataType' /\ FilesInv'
      /\ at \in [Procs -> Places] /\ \A p \in Procs : Stage(p)
  BY <1>1 DEF CustodyInv, TypeOK, DataType
<1>3. View /\ View'
  BY <1>2, Viewed, ViewedNext DEF FilesInv
<1>4. ASSUME NEW p \in Procs, ProcStep(p) PROVE Implements
  <2>1. Around(p)
    BY <1>2, <1>3 DEF Around, Known
  <2>2. CASE ControlStep(p)
    BY <1>3, <2>2, OtherStepImplements
  <2>3. CASE Provision(p) \/ RemoveFile(p) \/ FileStep(p)
    BY <2>1, <2>3, ProvisionImplements, ReplayImplements, SidecarImplements, WriteResultImplements,
       CaptureImplements, CommitImplements, RecordStepImplements, DeletionImplements DEF FileStep
  <2> QED
    BY <1>4, <2>2, <2>3, ProcSteps
<1>5. CASE \/ \E p \in Procs : EntryStep(p)
           \/ Environment \/ UNCHANGED vars
  BY <1>3, <1>5, OtherStepImplements
<1> QED
  BY <1>4, <1>5 DEF Next, EntryStep

\* ImplementsResultLine: publications, closures, decisions and the deletion take
\* effect at one instant, and no crash or replay changes what a consumer can be
\* told (the transaction order of store.ts).
THEOREM CustodyImplementsResultLine == Spec => ImplementsResultLine
<1>1. Init => Abstract!Init
  BY InitImplements
<1>2. CustodyInv /\ [Next]_vars => [Abstract!Next]_(Abstract!vars)
  BY NextImplements DEF Implements
<1> QED
  BY <1>1, <1>2, CustodyInvariant, PTL DEF Spec, ImplementsResultLine, Abstract!Spec

=============================================================================
