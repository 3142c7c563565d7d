------------------------------ MODULE Custody ------------------------------
(***************************************************************************)
(* Durable custody of one agent's workspace and results: the record, the   *)
(* transaction sidecar, the result files, the custody ref and the worktree *)
(* (src/workspace/store.ts, src/workspace/lifecycle.ts and                 *)
(* src/workspace/gitops.ts), written by several processes of which each    *)
(* may die between any two file or git operations.                         *)
(*                                                                         *)
(* Every step under the session's "ws" lock is one durable write.  The     *)
(* gates that read leases and the kernel's runtime mirror are left open    *)
(* here (a gated operation may or may not go on), so what holds here holds *)
(* whatever they answer; module Ownership closes them.                     *)
(***************************************************************************)
EXTENDS Naturals

CONSTANTS
  Procs,        \* processes that work on the hub home (hubs, CLI, gc worker)
  Trees,        \* contents a worktree can have
  BaseTree,     \* the content of the base commit
  None,         \* an absent file, ref or decision
  MaxCommits,   \* bound: commits captured after the base commit
  MaxSeq,       \* bound: results published
  MaxRevision,  \* bound: revision beyond which a session is not reopened
  MaxCrashes    \* bound: processes that die

ASSUME CustodyAssumption ==
  /\ BaseTree \in Trees
  /\ MaxCommits \in Nat /\ MaxSeq \in Nat /\ MaxRevision \in Nat /\ MaxCrashes \in Nat

VARIABLES
  record,       \* workspaces/<id>/record.json
  pending,      \* workspaces/<id>/record.pending.json, the sidecar
  ref,          \* refs/agent-hub/workspace/<id>
  results,      \* workspaces/<id>/results/<seq>.json: the commit each names
  treeOf,       \* the tree of each commit object
  pastOf,       \* the ancestors of each commit object, itself included
  ncommits,     \* commit objects made so far (0 is the base commit)
  worktree,     \* what inspectWorktree would say of the worktree directory
  work,         \* the content of the worktree
  tombstone,    \* deleted/<id>.json
  retention,    \* the window a decision arms: "unarmed", "running" or "over"
  wsLock,       \* holder of the session's custody lock
  adminLock,    \* holder of the workspace-admin lock
  at,           \* where each process is in its operation
  op,           \* the operation each process runs
  acked,        \* history: the <<seq, commit>> pairs a publisher was told
  crashes       \* processes that died so far

files   == <<record, pending, ref, results, tombstone>>
objects == <<treeOf, pastOf, ncommits>>
place   == <<worktree, work>>
locks   == <<wsLock, adminLock, at, op>>
ghost   == <<acked, crashes>>
vars    == <<files, objects, place, retention, locks, ghost>>

-----------------------------------------------------------------------------
Base        == 0
Commits     == 0..MaxCommits
MaybeCommit == Commits \cup {None}
Seqs        == 1..MaxSeq

Handoff == [decision : {"accepted", "discarded"}, seq : 0..MaxSeq, commit : Commits]

Record == [revision : Nat, custody : {"live", "closed"}, head : Commits,
           seq : 0..MaxSeq, handoff : Handoff \cup {None}]

Sidecar == [kind : {"result", "close"}, phase : {"intent", "captured"},
            expectedRef : MaybeCommit, expectedRevision : Nat,
            commit : MaybeCommit, next : Record \cup {None}]

Tombstone == [head : Commits, seq : 0..MaxSeq]

\* None stands for an absent file, so it is none of their contents.
ASSUME NoneAssumption ==
  None \notin Nat \cup Procs \cup Handoff \cup Record \cup Sidecar \cup Tombstone

TransactionOps == {"publish", "close"}
SessionOps     == TransactionOps \cup {"handoff", "reopen", "scan"}
InTransaction  == {"intent", "captured", "moved", "resulted", "committed"}
InLoad         == {"load", "replayed", "rewritten", "loaded"}
InDeletion     == {"tombed", "continuing", "unlinked", "removing"}
Places         == {"idle", "provisioning"} \cup InLoad \cup InTransaction \cup InDeletion

TypeOK ==
  /\ record \in Record \cup {None}
  /\ pending \in Sidecar \cup {None}
  /\ ref \in MaybeCommit
  /\ results \in [Seqs -> MaybeCommit]
  /\ treeOf \in [Commits -> Trees]
  /\ pastOf \in [Commits -> SUBSET Commits]
  /\ ncommits \in Commits
  /\ worktree \in {"present", "missing", "foreign"}
  /\ work \in Trees
  /\ tombstone \in Tombstone \cup {None}
  /\ retention \in {"unarmed", "running", "over"}
  /\ wsLock \in Procs \cup {None}
  /\ adminLock \in Procs \cup {None}
  /\ at \in [Procs -> Places]
  /\ op \in [Procs -> SessionOps \cup {"none", "gc", "provision"}]
  /\ acked \subseteq (Seqs \X Commits)
  /\ crashes \in 0..MaxCrashes

Init ==
  /\ record = None /\ pending = None /\ ref = None /\ tombstone = None
  /\ results = [s \in Seqs |-> None]
  /\ treeOf = [c \in Commits |-> BaseTree]
  /\ pastOf = [c \in Commits |-> {Base}]
  /\ ncommits = Base
  /\ worktree = "missing" /\ work = BaseTree
  /\ retention = "unarmed"
  /\ wsLock = None /\ adminLock = None
  /\ at = [p \in Procs |-> "idle"]
  /\ op = [p \in Procs |-> "none"]
  /\ acked = {} /\ crashes = 0

-----------------------------------------------------------------------------
(* Locks and control.                                                      *)

Goto(p, place_) == at' = [at EXCEPT ![p] = place_] /\ UNCHANGED <<op, wsLock, adminLock>>

\* The end of an operation, on every path: both locks are released.
Leave(p) ==
  /\ at' = [at EXCEPT ![p] = "idle"]
  /\ op' = [op EXCEPT ![p] = "none"]
  /\ wsLock' = IF wsLock = p THEN None ELSE wsLock
  /\ adminLock' = IF adminLock = p THEN None ELSE adminLock

Running(p, o, place_) == op[p] = o /\ at[p] = place_

\* An operation on the session starts once the custody lock is free.  With
\* the lock held it is refused (LOCK_BUSY) and nothing changes.
Begin(p, o) ==
  /\ at[p] = "idle" /\ wsLock = None
  /\ o \in SessionOps
  /\ wsLock' = p
  /\ at' = [at EXCEPT ![p] = "load"]
  /\ op' = [op EXCEPT ![p] = o]
  /\ UNCHANGED <<adminLock, files, objects, place, retention, ghost>>

\* Mutant: a pass visits the sessions that have a record, and no other.
BeginGcRecorded(p) ==
  /\ at[p] = "idle" /\ adminLock = None
  /\ record # None /\ wsLock = None
  /\ at' = [at EXCEPT ![p] = "load"]
  /\ wsLock' = p /\ adminLock' = p
  /\ op' = [op EXCEPT ![p] = "gc"]
  /\ UNCHANGED <<files, objects, place, retention, ghost>>

\* A gc pass reaches the session, under the admin lock.  Without a record
\* but with a tombstone, an interrupted removal goes on without the custody
\* lock; otherwise the custody lock is tried once.
BeginGc(p) ==
  /\ at[p] = "idle" /\ adminLock = None
  /\ \/ /\ record = None /\ tombstone # None
        /\ \E s \in Seqs : results[s] # None
        /\ at' = [at EXCEPT ![p] = "removing"]
        /\ UNCHANGED wsLock
     \/ /\ record # None /\ wsLock = None
        /\ at' = [at EXCEPT ![p] = "load"]
        /\ wsLock' = p
  /\ adminLock' = p
  /\ op' = [op EXCEPT ![p] = "gc"]
  /\ UNCHANGED <<files, objects, place, retention, ghost>>

\* The process dies.  Its locks name a dead owner, which is proof enough for
\* the next process to reclaim them.
Crash(p) ==
  /\ crashes < MaxCrashes /\ at[p] # "idle"
  /\ crashes' = crashes + 1
  /\ Leave(p)
  /\ UNCHANGED <<files, objects, place, retention, acked>>

-----------------------------------------------------------------------------
(* Provisioning: the worktree first, then the record in one atomic write.  *)

AddWorktree(p) ==
  /\ at[p] = "idle" /\ adminLock = None
  /\ record = None /\ tombstone = None /\ worktree = "missing"
  /\ worktree' = "present" /\ work' = BaseTree
  /\ adminLock' = p
  /\ at' = [at EXCEPT ![p] = "provisioning"]
  /\ op' = [op EXCEPT ![p] = "provision"]
  /\ UNCHANGED <<wsLock, files, objects, retention, ghost>>

Provision(p) ==
  /\ Running(p, "provision", "provisioning")
  /\ record' = [revision |-> 0, custody |-> "live", head |-> Base,
                seq |-> 0, handoff |-> None]
  /\ Leave(p)
  /\ UNCHANGED <<pending, ref, results, tombstone, objects, place, retention, ghost>>

-----------------------------------------------------------------------------
(* Loading: replay a surviving sidecar, then compare the ref and record.   *)

\* The ref a record of this head must have: none until a capture advances.
ExpectedRef(r) == IF r.head = Base THEN None ELSE r.head

Agrees(r) == IF ref = None THEN r.head = Base ELSE ref = r.head

PostInPlace ==
  /\ pending.phase = "captured"
  /\ record # None /\ record.revision = pending.next.revision

\* Mutant: the ref alone proves a transition, one that moved no ref included.
LandedByRef == pending.phase = "captured" /\ ref = pending.commit

Landed == pending.phase = "captured" /\ (ref = pending.commit \/ PostInPlace)

\* Mutant: what did not land is abandoned, wherever the ref is now.
NeverLandedAnyRef ==
  /\ ~Landed
  /\ record # None => record.revision = pending.expectedRevision

NeverLanded ==
  /\ ~Landed
  /\ ref = pending.expectedRef
  /\ record # None => record.revision = pending.expectedRevision

\* Neither landed nor abandonable, or a record its ref contradicts: left on
\* disk for audit, and every operation refuses to go on.
Inconsistent ==
  \/ pending # None /\ ~Landed /\ ~NeverLanded
  \/ pending = None /\ record # None /\ ~Agrees(record)

ReplayRecord(p) ==
  /\ at[p] = "load" /\ pending # None /\ Landed
  /\ record' = IF record # None /\ record.revision = pending.next.revision
               THEN record ELSE pending.next
  /\ Goto(p, "replayed")
  /\ UNCHANGED <<pending, ref, results, tombstone, objects, place, retention, ghost>>

ReplayResult(p) ==
  /\ at[p] = "replayed"
  /\ results' = IF pending.kind = "result"
                THEN [results EXCEPT ![pending.next.seq] = pending.commit]
                ELSE results
  /\ Goto(p, "rewritten")
  /\ UNCHANGED <<record, pending, ref, tombstone, objects, place, retention, ghost>>

ReplayDone(p) ==
  /\ at[p] = "rewritten"
  /\ pending' = None
  /\ Goto(p, "load")
  /\ UNCHANGED <<record, ref, results, tombstone, objects, place, retention, ghost>>

Abandon(p) ==
  /\ at[p] = "load" /\ pending # None /\ NeverLanded
  /\ pending' = None
  /\ UNCHANGED <<record, ref, results, tombstone, objects, place, retention, locks, ghost>>

Loaded(p) ==
  /\ at[p] = "load" /\ pending = None /\ record # None /\ Agrees(record)
  /\ Goto(p, "loaded")
  /\ UNCHANGED <<files, objects, place, retention, ghost>>

\* The load finds no record, or an inconsistency that no tombstone explains.
LoadRefused(p) ==
  /\ at[p] = "load"
  /\ record = None \/ Inconsistent
  /\ ~(op[p] = "gc" /\ Inconsistent /\ tombstone # None /\ ref = None
       /\ record # None /\ tombstone.head = record.head)
  /\ Leave(p)
  /\ UNCHANGED <<files, objects, place, retention, ghost>>

\* Recovery's load ends here: what it decides, it decides without the lock.
ScanDone(p) ==
  /\ Running(p, "scan", "loaded")
  /\ Leave(p)
  /\ UNCHANGED <<files, objects, place, retention, ghost>>

-----------------------------------------------------------------------------
(* The two git-visible transitions: publish a turn, capture at closure.    *)

\* Mutant: the capture does not look at the session's custody.
MayCaptureClosed == worktree = "present"

\* Guard of publishUnderLock, and the branch of finalizeClosure that captures.
MayCapture == record.custody = "live" /\ worktree = "present"

\* The bounds of the model on a transaction: commits, and results to name.
WithinBounds(o) == ncommits < MaxCommits /\ (o = "publish" => record.seq < MaxSeq)

WriteIntent(p) ==
  /\ at[p] = "loaded" /\ op[p] \in TransactionOps
  /\ MayCapture /\ WithinBounds(op[p])
  /\ pending' = [kind |-> IF op[p] = "publish" THEN "result" ELSE "close",
                 phase |-> "intent",
                 expectedRef |-> ExpectedRef(record),
                 expectedRevision |-> record.revision,
                 commit |-> None, next |-> None]
  /\ Goto(p, "intent")
  /\ UNCHANGED <<record, ref, results, tombstone, objects, place, retention, ghost>>

\* The publication is refused: the session is closed, or its worktree gone.
PublishRefused(p) ==
  /\ Running(p, "publish", "loaded")
  /\ ~(MayCapture /\ WithinBounds("publish"))
  /\ Leave(p)
  /\ UNCHANGED <<files, objects, place, retention, ghost>>

\* The record a captured transaction is to leave: a publication counts its
\* result, a closure ends custody.
NextRecord(commit) ==
  [revision |-> record.revision + 1,
   head |-> commit,
   seq |-> IF pending.kind = "result" THEN record.seq + 1 ELSE record.seq,
   custody |-> IF pending.kind = "close" THEN "closed" ELSE record.custody,
   handoff |-> record.handoff]

\* captureWorkspaceState: a tree equal to the parent's makes no commit.
Capture(p) ==
  LET advanced == work # treeOf[record.head]
      commit   == IF advanced THEN ncommits + 1 ELSE record.head
  IN
  /\ at[p] = "intent" /\ worktree = "present"
  /\ record.revision = pending.expectedRevision
  /\ IF advanced
     THEN /\ ncommits' = commit
          /\ treeOf' = [treeOf EXCEPT ![commit] = work]
          /\ pastOf' = [pastOf EXCEPT ![commit] = pastOf[record.head] \cup {commit}]
     ELSE UNCHANGED objects
  /\ pending' =
       [pending EXCEPT
          !.phase = "captured",
          !.commit = commit,
          !.next = NextRecord(commit)]
  /\ Goto(p, "captured")
  /\ UNCHANGED <<record, ref, results, tombstone, place, retention, ghost>>

\* A git command of the capture fails: the intent sidecar stays behind.
CaptureFails(p) ==
  /\ at[p] = "intent"
  /\ Leave(p)
  /\ UNCHANGED <<files, objects, place, retention, ghost>>

\* The ref moves only for a commit that is new and is not the base.
RefMoves == pending.commit # pending.expectedRef /\ pending.commit # Base

MoveRef(p) ==
  /\ at[p] = "captured"
  /\ RefMoves => ref = pending.expectedRef
  /\ ref' = IF RefMoves THEN pending.commit ELSE ref
  /\ Goto(p, "moved")
  /\ UNCHANGED <<record, pending, results, tombstone, objects, place, retention, ghost>>

\* The compare-and-swap fails, for another value in the ref or for any other
\* error of git: the sidecar is removed and WORKSPACE_REF_DIVERGED reported.
RefDiverged(p) ==
  /\ at[p] = "captured" /\ RefMoves
  /\ pending' = None
  /\ Leave(p)
  /\ UNCHANGED <<record, ref, results, tombstone, objects, place, retention, ghost>>

WriteResult(p) ==
  /\ at[p] = "moved" /\ pending.kind = "result"
  /\ results' = [results EXCEPT ![pending.next.seq] = pending.commit]
  /\ Goto(p, "resulted")
  /\ UNCHANGED <<record, pending, ref, tombstone, objects, place, retention, ghost>>

\* Mutant: the record does not wait for its result.
WriteRecordEarly(p) ==
  /\ at[p] \in {"moved", "resulted"}
  /\ record' = pending.next
  /\ Goto(p, "committed")
  /\ UNCHANGED <<pending, ref, results, tombstone, objects, place, retention, ghost>>

WriteRecord(p) ==
  /\ at[p] = "resulted" \/ (at[p] = "moved" /\ pending.kind = "close")
  /\ record' = pending.next
  /\ Goto(p, "committed")
  /\ UNCHANGED <<pending, ref, results, tombstone, objects, place, retention, ghost>>

RemoveSidecar(p) ==
  /\ at[p] = "committed"
  /\ acked' = IF pending.kind = "result"
              THEN acked \cup {<<pending.next.seq, pending.commit>>}
              ELSE acked
  /\ pending' = None
  /\ Leave(p)
  /\ UNCHANGED <<record, ref, results, tombstone, objects, place, retention, crashes>>

-----------------------------------------------------------------------------
(* Transitions of the record alone (updateRecordCas).                      *)

\* finalizeClosure on a closed record is idempotent; without a worktree it
\* closes the record and skips the capture.
CloseIdempotent(p) ==
  /\ Running(p, "close", "loaded")
  /\ record.custody = "closed" \/ (MayCapture /\ ~WithinBounds("close"))
  /\ Leave(p)
  /\ UNCHANGED <<files, objects, place, retention, ghost>>

CloseWithoutCapture(p) ==
  /\ Running(p, "close", "loaded")
  /\ record.custody = "live" /\ worktree # "present"
  /\ record' = [record EXCEPT !.custody = "closed", !.revision = record.revision + 1]
  /\ Leave(p)
  /\ UNCHANGED <<pending, ref, results, tombstone, objects, place, retention, ghost>>

\* A decision lands only on a closed, undecided session, and only when it
\* names the published head exactly.
MayDecide(seq, commit) ==
  /\ record.custody = "closed"
  /\ record.handoff = None
  /\ seq = record.seq /\ commit = record.head

Decide(p, decision, seq, commit) ==
  /\ Running(p, "handoff", "loaded")
  /\ MayDecide(seq, commit)
  /\ record' = [record EXCEPT
                  !.handoff = [decision |-> decision, seq |-> seq, commit |-> commit],
                  !.revision = record.revision + 1]
  /\ retention' = "running"
  /\ Leave(p)
  /\ UNCHANGED <<pending, ref, results, tombstone, objects, place, ghost>>

DecideRefused(p, seq, commit) ==
  /\ Running(p, "handoff", "loaded")
  /\ ~MayDecide(seq, commit)
  /\ Leave(p)
  /\ UNCHANGED <<files, objects, place, retention, ghost>>

\* Mutant: a decided session is reopened.
MayReopenDecided == record.custody = "closed"

MayReopen == record.custody = "closed" /\ record.handoff = None

Reopen(p) ==
  /\ Running(p, "reopen", "loaded")
  /\ MayReopen /\ record.revision < MaxRevision
  /\ record' = [record EXCEPT !.custody = "live", !.revision = record.revision + 1]
  /\ Leave(p)
  /\ UNCHANGED <<pending, ref, results, tombstone, objects, place, retention, ghost>>

ReopenRefused(p) ==
  /\ Running(p, "reopen", "loaded")
  /\ Leave(p)
  /\ UNCHANGED <<files, objects, place, retention, ghost>>

-----------------------------------------------------------------------------
(* Collection: tombstone, worktree, ref, custody tree.                     *)

Collectable ==
  /\ record.handoff # None /\ retention = "over"
  /\ ref = ExpectedRef(record)
  /\ \A s \in 1..record.seq : results[s] # None
  /\ worktree # "foreign"

\* Mutant: the ref goes before the worktree.
WriteTombstoneRefFirst(p) ==
  /\ Running(p, "gc", "loaded")
  /\ Collectable
  /\ tombstone' = [head |-> record.head, seq |-> record.seq]
  /\ Goto(p, "unlinked")
  /\ UNCHANGED <<record, pending, ref, results, objects, place, retention, ghost>>

WriteTombstone(p) ==
  /\ Running(p, "gc", "loaded")
  /\ Collectable
  /\ tombstone' = [head |-> record.head, seq |-> record.seq]
  /\ Goto(p, "tombed")
  /\ UNCHANGED <<record, pending, ref, results, objects, place, retention, ghost>>

\* A gate retains the session (the lease and mirror gates included).
Retain(p) ==
  /\ Running(p, "gc", "loaded")
  /\ Leave(p)
  /\ UNCHANGED <<files, objects, place, retention, ghost>>

\* A decided deletion whose ref is gone is finished, not stranded.
ContinueDeletion(p) ==
  /\ Running(p, "gc", "load")
  /\ record # None /\ Inconsistent
  /\ tombstone # None /\ tombstone.head = record.head /\ ref = None
  /\ Goto(p, "continuing")
  /\ UNCHANGED <<files, objects, place, retention, ghost>>

\* git worktree remove, refused for a directory that is not this worktree.
RemoveWorktree(p) ==
  /\ at[p] \in {"tombed", "continuing"}
  /\ \/ /\ worktree # "foreign"
        /\ worktree' = "missing"
        /\ Goto(p, IF at[p] = "tombed" THEN "unlinked" ELSE "removing")
     \/ /\ worktree = "foreign"
        /\ UNCHANGED worktree
        /\ Leave(p)
  /\ UNCHANGED <<files, objects, work, retention, ghost>>

\* The ref is the pin of the results: compare-and-delete, after the worktree.
DeleteRef(p) ==
  /\ at[p] = "unlinked"
  /\ \/ /\ record.head = Base
        /\ UNCHANGED ref /\ Goto(p, "removing")
     \/ /\ record.head # Base /\ ref = record.head
        /\ ref' = None /\ Goto(p, "removing")
     \/ /\ record.head # Base /\ ref # record.head
        /\ UNCHANGED ref /\ Leave(p)
  /\ UNCHANGED <<record, pending, results, tombstone, objects, place, retention, ghost>>

\* rm -r of the custody directory: its files go one by one, in any order.
RemoveFile(p) ==
  /\ at[p] = "removing"
  /\ \/ /\ record # None /\ record' = None
        /\ UNCHANGED results
     \/ \E s \in Seqs : /\ results[s] # None
                        /\ results' = [results EXCEPT ![s] = None]
                        /\ UNCHANGED record
  /\ UNCHANGED <<pending, ref, tombstone, objects, place, retention, locks, ghost>>

Removed(p) ==
  /\ at[p] = "removing"
  /\ record = None /\ \A s \in Seqs : results[s] = None
  /\ Leave(p)
  /\ UNCHANGED <<files, objects, place, retention, ghost>>

-----------------------------------------------------------------------------
(* What happens around the processes.                                      *)

Edit(t) ==
  /\ worktree = "present" /\ record # None
  /\ work' = t
  /\ UNCHANGED <<files, objects, worktree, retention, locks, ghost>>

LoseWorktree(state) ==
  /\ worktree = "present" /\ record # None
  /\ worktree' = state
  /\ UNCHANGED <<files, objects, work, retention, locks, ghost>>

Expire ==
  /\ retention = "running"
  /\ retention' = "over"
  /\ UNCHANGED <<files, objects, place, locks, ghost>>

-----------------------------------------------------------------------------
LoadStep(p) ==
  \/ ReplayRecord(p) \/ ReplayResult(p) \/ ReplayDone(p) \/ Abandon(p)
  \/ Loaded(p) \/ LoadRefused(p)

TransactionStep(p) ==
  \/ WriteIntent(p) \/ PublishRefused(p) \/ Capture(p) \/ CaptureFails(p)
  \/ MoveRef(p) \/ RefDiverged(p)
  \/ WriteResult(p) \/ WriteRecord(p) \/ RemoveSidecar(p)

RecordStep(p) ==
  \/ CloseIdempotent(p) \/ CloseWithoutCapture(p)
  \/ \E seq \in 0..MaxSeq, commit \in Commits :
       \/ \E decision \in {"accepted", "discarded"} : Decide(p, decision, seq, commit)
       \/ DecideRefused(p, seq, commit)
  \/ Reopen(p) \/ ReopenRefused(p) \/ ScanDone(p)

GcStep(p) ==
  \/ WriteTombstone(p) \/ Retain(p) \/ ContinueDeletion(p) \/ RemoveWorktree(p)
  \/ DeleteRef(p) \/ RemoveFile(p) \/ Removed(p)

ProcStep(p) == Provision(p) \/ LoadStep(p) \/ TransactionStep(p) \/ RecordStep(p) \/ GcStep(p)

Environment ==
  \/ \E t \in Trees : Edit(t)
  \/ \E state \in {"missing", "foreign"} : LoseWorktree(state)
  \/ Expire

Next ==
  \/ \E p \in Procs :
       \/ AddWorktree(p) \/ BeginGc(p) \/ Crash(p)
       \/ \E o \in SessionOps : Begin(p, o)
       \/ ProcStep(p)
  \/ Environment

Spec == Init /\ [][Next]_vars
=============================================================================
