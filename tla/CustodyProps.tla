---------------------------- MODULE CustodyProps ----------------------------
(***************************************************************************)
(* The properties of module Custody, and its refinement of ResultLine.     *)
(***************************************************************************)
EXTENDS Custody

-----------------------------------------------------------------------------
(* The durable state as a reader who replays the sidecar would find it.    *)

\* The sidecar's transition is proven by the ref alone.
RefProven == pending # None /\ pending.phase = "captured" /\ ref = pending.commit

Effective == IF RefProven THEN pending.next ELSE record

EffectiveResult(s) ==
  IF RefProven /\ pending.kind = "result" /\ s = pending.next.seq
  THEN pending.commit ELSE results[s]

Phase ==
  CASE tombstone # None -> "deleted"
    [] tombstone = None /\ record = None -> "none"
    [] OTHER -> IF Effective.handoff # None THEN "decided" ELSE Effective.custody

Gone == Phase \in {"none", "deleted"}

Line == IF Gone THEN <<>> ELSE [s \in 1..Effective.seq |-> EffectiveResult(s)]

Tip == IF Gone THEN Base ELSE Effective.head

Abstract == INSTANCE ResultLine
              WITH phase <- Phase, line <- Line, head <- Tip

\* Every behaviour of the files, crashes and replays included, is one of the
\* result line: publications and closures take effect at one instant (the
\* ref's move, or else the record's write), and nothing else changes what a
\* consumer can be told (the transaction order of store.ts).
ImplementsResultLine == Abstract!Spec

-----------------------------------------------------------------------------
(* Safety.                                                                 *)

\* Wherever a process dies, the next load replays or abandons its sidecar:
\* no crash leaves the inconsistent state that needs a human, unless it
\* interrupts a deletion, which the tombstone lets gc continue
\* (applyRefTransitionCaptured, recoverPendingTransaction).
CrashResolvable == Inconsistent => (tombstone # None /\ ref = None /\ worktree = "missing")

\* A result its publisher was told of stays exact and pinned: the file of
\* that sequence names that commit, and the ref reaches it, until the
\* deletion is decided (publishTurnResult, gcOne).
AckedResultsKept ==
  tombstone = None =>
    \A a \in acked :
      /\ EffectiveResult(a[1]) = a[2]
      /\ a[1] <= Effective.seq
      /\ a[2] = Base \/ (ref # None /\ a[2] \in pastOf[ref])

\* A decision names the last result and the head of its session for good:
\* no capture, replay or publication moves either of them after it, and all
\* results it covers are on disk until the deletion starts (handoff).
DecisionExact ==
  (record # None /\ record.handoff # None) =>
    /\ record.handoff.seq = record.seq /\ record.handoff.commit = record.head
    /\ record.custody = "closed" /\ pending = None
    /\ tombstone = None => \A s \in 1..record.seq : results[s] # None

\* Deletion follows the decision and the retention window, and the ref pins
\* the results until the worktree is gone (the deletion order of gcOne).
DeletionOrdered ==
  tombstone # None =>
    /\ retention = "over"
    /\ record # None => record.handoff # None
    /\ (ref = None /\ tombstone.head # Base) => worktree = "missing"
    /\ record = None => ref = None

\* The ref is at neither end of what the record and the sidecar tell.
Contradicted ==
  /\ record # None /\ tombstone = None
  /\ IF pending = None THEN ref \notin {ExpectedRef(record), record.head}
     ELSE /\ ref \notin {pending.expectedRef, pending.commit}
          /\ pending.phase = "captured" => record.revision # pending.next.revision

\* What contradicts the ref is left on disk for audit: until the ref is put
\* back, no process that starts on such a session replays, abandons,
\* publishes, decides or deletes anything of it (recoverPendingTransaction,
\* loadWorkspace).
AuditKept ==
  [][(Contradicted /\ \A p \in Procs : at[p] \in {"idle", "load"})
       => UNCHANGED <<record, pending, results, tombstone>>]_vars

-----------------------------------------------------------------------------
(* The inductive invariant behind them: what each lock, each place in an   *)
(* operation and each stage of the sidecar says of the files.              *)

UnderLock  == InLoad \cup InTransaction \cup {"tombed", "continuing", "unlinked"}
UnderAdmin == {"provisioning"} \cup InDeletion

Locked(p) ==
  /\ at[p] \in UnderLock => wsLock = p
  /\ at[p] \in UnderAdmin => adminLock = p
  /\ op[p] = "gc" /\ at[p] # "idle" => adminLock = p

\* What a sidecar plans: one revision on, and a head its ref can prove.
PlanInv == pending # None =>
  /\ pending.phase = "captured" =>
       /\ pending.next \in Record /\ pending.commit \in 0..ncommits
       /\ pending.next.head = pending.commit
       /\ pending.next.handoff = None
       /\ pending.next.revision = pending.expectedRevision + 1
       /\ pending.commit = Base => pending.expectedRef = None
       /\ pending.kind = "result" => pending.next.seq \in Seqs /\ pending.next.custody = "live"
       /\ pending.kind = "close" => pending.next.custody = "closed"
  /\ record # None /\ tombstone = None /\ record.handoff = None

\* The record before the planned transition, and after it.
Before ==
  /\ record.revision = pending.expectedRevision
  /\ record.custody = "live"
  /\ pending.expectedRef = ExpectedRef(record)
  /\ pending.phase = "captured" =>
       /\ pending.next.seq = IF pending.kind = "result" THEN record.seq + 1 ELSE record.seq
       /\ pastOf[record.head] \subseteq pastOf[pending.commit]
       /\ pending.commit \in pastOf[pending.commit]
  /\ \/ ref = pending.expectedRef
     \/ pending.phase = "captured" /\ ref = pending.commit

ResultDone == pending.kind = "result" => results[pending.next.seq] = pending.commit

After ==
  /\ pending.phase = "captured"
  /\ record = pending.next
  /\ ref = ExpectedRef(record)
  /\ ref # pending.commit => ResultDone

SidecarInv == pending # None => Before \/ After

\* Without a sidecar or a deletion the ref is the record's head.
QuietInv == (pending = None /\ record # None /\ tombstone = None) => ref = ExpectedRef(record)

\* Before the session is provisioned there is nothing, and nobody was told.
BirthInv == (record = None /\ tombstone = None) =>
  pending = None /\ ref = None /\ acked = {} /\ retention = "unarmed"

\* The whole published line is there, and the head reaches all of it.
LineInv == (record # None /\ tombstone = None) =>
  \A s \in 1..Effective.seq :
    EffectiveResult(s) # None /\ EffectiveResult(s) \in pastOf[Effective.head]

CommitsInv ==
  /\ ref # Base
  /\ record # None => record.head \in 0..ncommits
  /\ record # None => record.head \in pastOf[record.head]
  /\ pastOf[Base] = {Base}

AckedInv == \A a \in acked : tombstone = None =>
  a[1] \in 1..Effective.seq /\ EffectiveResult(a[1]) = a[2]

DecisionInv == (record # None /\ record.handoff # None) =>
  /\ record.custody = "closed"
  /\ record.handoff.seq = record.seq /\ record.handoff.commit = record.head

DeletionInv ==
  /\ tombstone # None =>
       /\ pending = None /\ retention = "over"
       /\ record # None => /\ record.handoff # None /\ tombstone.head = record.head
                           /\ ref = ExpectedRef(record) \/ ref = None
       /\ record = None => ref = None
       /\ (ref = None /\ tombstone.head # Base) => worktree = "missing"
  /\ tombstone = None /\ retention # "unarmed" => record # None /\ record.handoff # None

FilesInv ==
  /\ PlanInv /\ SidecarInv /\ QuietInv /\ BirthInv
  /\ LineInv /\ CommitsInv /\ AckedInv /\ DecisionInv /\ DeletionInv

\* What the place of a process in its operation says of the files.
Stage(p) ==
  /\ at[p] = "intent" =>
       /\ pending # None /\ pending.phase = "intent"
       /\ ncommits < MaxCommits /\ (pending.kind = "result" => record.seq < MaxSeq)
  /\ at[p] \in {"captured", "moved", "resulted"} =>
       pending # None /\ pending.phase = "captured" /\ Before
  /\ at[p] = "captured" => ref = pending.expectedRef
  /\ at[p] \in {"moved", "resulted"} => ref = ExpectedRef(pending.next)
  /\ at[p] \in {"replayed", "rewritten", "committed"} => pending # None /\ After
  /\ at[p] \in {"resulted", "rewritten", "committed"} => ResultDone
  /\ at[p] = "loaded" => pending = None /\ record # None
  /\ at[p] \in InDeletion => tombstone # None
  /\ at[p] \in {"tombed", "continuing", "unlinked"} => record # None
  /\ at[p] = "unlinked" => worktree = "missing"
  /\ at[p] \in {"continuing", "removing"} => ref = None
  /\ at[p] = "provisioning" => record = None /\ tombstone = None

\* Files go away under the custody lock, or when the record is gone already.
Alone(p) == at[p] = "removing" => wsLock = p \/ record = None

CustodyInv ==
  /\ TypeOK /\ FilesInv
  /\ \A p \in Procs : Locked(p) /\ Stage(p) /\ Alone(p)

-----------------------------------------------------------------------------
(* Something else writes the custody ref: the hub may only notice.         *)

MoveRefOutside == \E r \in MaybeCommit :
  /\ ref # r /\ (r # None => r <= ncommits)
  /\ ref' = r
  /\ UNCHANGED <<record, pending, results, tombstone, objects, place, retention, locks, ghost>>

SpecWithForeignRef == Init /\ [][Next \/ MoveRefOutside]_vars

-----------------------------------------------------------------------------
(* Liveness.  An operation that started goes on unless its process dies;   *)
(* gc passes keep coming (the sweep timer of a hub, the gc worker) and now *)
(* and then find the locks free and the lease and mirror gates open.       *)

Fairness ==
  /\ \A p \in Procs : WF_vars(ProcStep(p)) /\ SF_vars(WriteTombstone(p))
  /\ SF_vars(\E p \in Procs : BeginGc(p))

FairSpec == Spec /\ Fairness

CustodyRemoved == record = None /\ \A s \in Seqs : results[s] = None

\* A deletion of a session whose head advanced is always finished once the
\* worktree is gone, wherever a process dies in it (gcOne, completeDeletion).  Of
\* a head that never advanced the code does not promise it: there is no ref whose
\* absence would let the next pass continue, and removeCustodyTree may die with
\* a result gone and the record in place.
AdvancedDeletionCompletes ==
  (tombstone # None /\ tombstone.head # Base /\ worktree = "missing")
    ~> CustodyRemoved
=============================================================================
