------------------------------ MODULE Ownership ------------------------------
(***************************************************************************)
(* Who owns one session: the hub processes that launch, close, recover and *)
(* collect it (src/workspace/lifecycle.ts, src/workspace/leases.ts,        *)
(* src/hub/agent-hub.ts), its providers, and the three files that say so:  *)
(* the custody record, the runtime mirror and the lease.                   *)
(*                                                                         *)
(* The files are written at different times by different paths.  The       *)
(* custody record changes under the session's lock, so each of its         *)
(* transactions is one step here (module Custody takes them apart); the    *)
(* mirror and the lease are written without it, and a recovery pass acts   *)
(* on what it read of them earlier.                                        *)
(*                                                                         *)
(* Left out: corrupt files, foreign hosts and probes that cannot tell,     *)
(* which refuse whatever a living process would refuse; reused pids.       *)
(***************************************************************************)
EXTENDS Naturals, FiniteSets

CONSTANTS
  Hubs,       \* processes that open the hub's home, each lives once
  MaxSpawns,  \* bound: provider processes that may be spawned
  None,       \* no lease, no provider
  Assumed     \* what a run assumes beyond the code, of {"sweep", "close", "stop"}

ASSUME OwnershipAssumption ==
  /\ MaxSpawns \in Nat /\ None \notin 1 .. MaxSpawns
  /\ None \notin [provider : 1 .. MaxSpawns, hub : Hubs]
  /\ Assumed \subseteq {"sweep", "close", "stop"}

\* "sweep": no pass recovers the session while a resume launches it.
\* "close": no session that is over is closed while the session runs again.
\* "stop":  a resume that fails stops its provider, and proves it.

VARIABLES
  custody,   \* the custody record, "decided" once a handoff names its head
  mirror,    \* the status of the runtime mirror; "active" is any live status
  lease,     \* the lease: a provider and the hub that spawned it
  up,        \* hub processes that run
  living,    \* providers of which some process still runs
  spawned,   \* how many providers were spawned so far
  launch,    \* a hub's start or resume of the session
  session,   \* a hub's kernel session
  closing,   \* where a hub's close is, once the kernel's part is over
  pass,      \* where a hub's recovery and gc pass is, and what it has read
  unowned    \* history: providers that no lease named when their hub lost them

files     == <<custody, mirror, lease>>
processes == <<up, living, spawned, unowned>>
vars == <<files, processes, launch, session, closing, pass>>

-----------------------------------------------------------------------------
Custodies == {"absent", "live", "closed", "decided", "deleted"}
Over      == {"closed", "error", "orphaned"}
Mirrors   == Over \cup {"absent", "active"}
Providers == 1 .. MaxSpawns
Leases    == [provider : Providers, hub : Hubs]
LaunchPlaces  == {"no", "open", "spawned", "leased", "conflict", "failing", "abandon"}
ClosePlaces   == {"no", "finalizeClosed", "finalizeOther", "release"}
PassPlaces    == {"no", "load", "mirror", "closed", "lease", "dead", "rewrite", "gc"}
MaybeProvider == Providers \cup {None}

TypeOK ==
  /\ custody \in Custodies /\ mirror \in Mirrors
  /\ lease \in Leases \cup {None}
  /\ up \subseteq Hubs
  /\ spawned \in 0 .. MaxSpawns /\ living \subseteq 1 .. spawned /\ unowned \subseteq 1 .. spawned
  /\ launch \in [Hubs -> [at : LaunchPlaces, provider : MaybeProvider]]
  /\ session \in [Hubs -> [at : Over \cup {"none", "running"}, provider : MaybeProvider]]
  /\ closing \in [Hubs -> ClosePlaces]
  /\ pass \in [Hubs -> [at : PassPlaces, attached : BOOLEAN, mirrored : BOOLEAN]]

NoLaunch  == [at |-> "no", provider |-> None]
NoSession == [at |-> "none", provider |-> None]
NoPass    == [at |-> "no", attached |-> FALSE, mirrored |-> FALSE]

Init ==
  /\ custody = "absent" /\ mirror = "absent" /\ lease = None
  /\ up = Hubs /\ living = {} /\ spawned = 0 /\ unowned = {}
  /\ launch = [h \in Hubs |-> NoLaunch]
  /\ session = [h \in Hubs |-> NoSession]
  /\ closing = [h \in Hubs |-> "no"]
  /\ pass = [h \in Hubs |-> NoPass]

\* Mutant: a provider is dead when its hub is.
ProvenDeadByHub(h) == lease.hub = h \/ lease.hub \notin up

\* classifyLease, read by hub h: another hub that runs owns the session; else
\* the provider's own death decides.  A hub's own pid counts as gone.
ProvenDead(h) ==
  /\ lease.hub = h \/ lease.hub \notin up
  /\ lease.provider \notin living

Launching  == \E h \in Hubs : launch[h].at # "no"
Recovering == \E h \in Hubs : pass[h].at \in {"mirror", "closed", "lease", "dead"}

\* finalizeClosure: custody that is closed already stays as it is.
Finalize == custody' = IF custody = "live" THEN "closed" ELSE custody

\* The lease names this provider.
Named(p) == lease # None /\ lease.provider = p

-----------------------------------------------------------------------------
(* Start and resume.                                                       *)

MayLaunch(h) ==
  /\ h \in up /\ launch[h].at = "no" /\ session[h].at # "running"

\* provision.
Start(h) ==
  /\ MayLaunch(h) /\ custody = "absent"
  /\ custody' = "live"
  /\ launch' = [launch EXCEPT ![h].at = "open"]
  /\ UNCHANGED <<mirror, lease, processes, session, closing, pass>>

\* reopenForResume.
MayReopen(h) ==
  /\ custody = "closed" /\ mirror \in Over
  /\ lease # None => ProvenDead(h)

Resume(h) ==
  /\ MayLaunch(h) /\ MayReopen(h)
  /\ "sweep" \in Assumed => ~Recovering
  /\ "close" \in Assumed => \A g \in Hubs : closing[g] = "no"
  /\ custody' = "live"
  /\ launch' = [launch EXCEPT ![h].at = "open"]
  /\ UNCHANGED <<mirror, lease, processes, session, closing, pass>>

\* open: the provider runs before its lease is written.
Spawn(h) ==
  /\ h \in up /\ launch[h].at = "open" /\ spawned < MaxSpawns
  /\ spawned' = spawned + 1 /\ living' = living \cup {spawned'}
  /\ launch' = [launch EXCEPT ![h] = [at |-> "spawned", provider |-> spawned']]
  /\ UNCHANGED <<files, up, unowned, session, closing, pass>>

\* recordWorkspaceLease: a lease for another process is never overwritten.
RecordLease(h) ==
  /\ h \in up /\ launch[h].at = "spawned"
  /\ IF lease = None
     THEN /\ lease' = [provider |-> launch[h].provider, hub |-> h]
          /\ launch' = [launch EXCEPT ![h].at = "leased"]
     ELSE /\ launch' = [launch EXCEPT ![h].at = "conflict"]
          /\ UNCHANGED lease
  /\ UNCHANGED <<custody, mirror, processes, session, closing, pass>>

\* The first record of the session is committed, and the session attached.
Attach(h) ==
  /\ h \in up /\ launch[h].at = "leased"
  /\ mirror' = "active"
  /\ session' = [session EXCEPT ![h] = [at |-> "running", provider |-> launch[h].provider]]
  /\ launch' = [launch EXCEPT ![h] = NoLaunch]
  /\ UNCHANGED <<custody, lease, processes, closing, pass>>

\* Selection, quota, spawn or handshake fail.
LaunchFails(h) ==
  /\ h \in up /\ launch[h].at \in {"open", "spawned", "leased", "conflict"}
  /\ launch' = [launch EXCEPT ![h].at = "failing"]
  /\ UNCHANGED <<files, processes, session, closing, pass>>

\* conservativeLaunchFailure.  A resume that failed leaves custody as it is, a
\* start closes it.
LaunchStopped(h, proven) ==
  /\ h \in up /\ launch[h].at = "failing"
  /\ "stop" \in Assumed => proven \/ mirror = "absent"
  /\ LET p == launch[h].provider
     IN  /\ living' = IF proven THEN living \ {p} ELSE living
         /\ unowned' = IF (proven \/ p = None) \/ Named(p) THEN unowned ELSE unowned \cup {p}
  /\ launch' = [launch EXCEPT ![h] = IF mirror = "absent"
                                     THEN [at |-> "abandon", provider |-> None] ELSE NoLaunch]
  /\ UNCHANGED <<files, up, spawned, session, closing, pass>>

\* finalizeFailedLaunch.
Abandon(h) ==
  /\ h \in up /\ launch[h].at = "abandon"
  /\ Finalize
  /\ launch' = [launch EXCEPT ![h] = NoLaunch]
  /\ UNCHANGED <<mirror, lease, processes, session, closing, pass>>

-----------------------------------------------------------------------------
(* The session, its crash and its close (module Kernel takes them apart).  *)

Ends(h, status) ==
  /\ session' = [session EXCEPT ![h].at = status]
  /\ mirror' = status

\* A turn's commit writes the mirror anew.
Turn(h) ==
  /\ h \in up /\ session[h].at = "running"
  /\ mirror' = "active"
  /\ UNCHANGED <<custody, lease, processes, launch, session, closing, pass>>

\* handleCrash: its stop terminates what is left, or cannot prove it.
CrashSeen(h, proven) ==
  /\ h \in up /\ session[h].at = "running" /\ closing[h] = "no"
  /\ living' = IF proven THEN living \ {session[h].provider} ELSE living
  /\ Ends(h, IF proven THEN "error" ELSE "orphaned")
  /\ UNCHANGED <<custody, lease, up, spawned, unowned, launch, closing, pass>>

MayClose(h) ==
  /\ h \in up /\ closing[h] = "no"
  /\ "close" \in Assumed /\ session[h].at # "running" =>
       ~Launching /\ \A g \in Hubs : session[g].at # "running"

\* Mutant: a stop that proves nothing counts as a closure.
StopUnproven(h, proven) ==
  /\ MayClose(h) /\ session[h].at = "running"
  /\ living' = IF proven THEN living \ {session[h].provider} ELSE living
  /\ Ends(h, "closed")
  /\ closing' = [closing EXCEPT ![h] = "finalizeClosed"]
  /\ UNCHANGED <<custody, lease, up, spawned, unowned, launch, pass>>

\* close: a running session is stopped, an orphaned one may be terminated.
Stop(h, proven) ==
  /\ MayClose(h)
  /\ session[h].at \in IF proven THEN {"running", "orphaned"} ELSE {"running"}
  /\ living' = IF proven THEN living \ {session[h].provider} ELSE living
  /\ Ends(h, IF proven THEN "closed" ELSE "orphaned")
  /\ closing' = [closing EXCEPT ![h] = IF proven THEN "finalizeClosed" ELSE "finalizeOther"]
  /\ UNCHANGED <<custody, lease, up, spawned, unowned, launch, pass>>

\* close of a session that is over stops nothing.
CloseOver(h) ==
  /\ MayClose(h) /\ session[h].at \in Over
  /\ closing' = [closing EXCEPT ![h] =
                   IF session[h].at = "closed" THEN "finalizeClosed" ELSE "finalizeOther"]
  /\ UNCHANGED <<files, processes, launch, session, pass>>

FinalizeClose(h) ==
  /\ h \in up /\ closing[h] \in {"finalizeClosed", "finalizeOther"}
  /\ Finalize
  /\ closing' = [closing EXCEPT ![h] = IF @ = "finalizeClosed" THEN "release" ELSE "no"]
  /\ UNCHANGED <<mirror, lease, processes, launch, session, pass>>

\* releaseClosedLease.
Release(h) ==
  /\ h \in up /\ closing[h] = "release"
  /\ lease' = IF (lease # None /\ lease.hub = h) /\ mirror = "closed" THEN None ELSE lease
  /\ closing' = [closing EXCEPT ![h] = "no"]
  /\ UNCHANGED <<custody, mirror, processes, launch, session, pass>>

\* handoff.
Handoff ==
  /\ up # {} /\ custody = "closed"
  /\ custody' = "decided"
  /\ UNCHANGED <<mirror, lease, processes, launch, session, closing, pass>>

-----------------------------------------------------------------------------
(* cleanup: recover, then gc, with what was attached when it began.        *)

PassGoes(h, place) == pass' = [pass EXCEPT ![h].at = place]

BeginPass(h) ==
  /\ h \in up /\ pass[h].at = "no"
  /\ pass' = [pass EXCEPT ![h] = [at |-> "load", attached |-> session[h].at = "running",
                                  mirrored |-> FALSE]]
  /\ UNCHANGED <<files, processes, launch, session, closing>>

LoadCustody(h) ==
  /\ h \in up /\ pass[h].at = "load"
  /\ "sweep" \in Assumed => mirror = "absent" \/ ~Launching
  /\ PassGoes(h, IF custody = "live" /\ ~pass[h].attached THEN "mirror" ELSE "gc")
  /\ UNCHANGED <<files, processes, launch, session, closing>>

\* Mutant: a mirror that says active is believed.
ReadMirrorActive(h) ==
  /\ h \in up /\ pass[h].at = "mirror"
  /\ pass' = [pass EXCEPT ![h].at = CASE mirror = "closed" -> "closed"
                                      [] mirror = "active" -> "gc"
                                      [] OTHER -> "lease",
                          ![h].mirrored = (mirror # "absent")]
  /\ UNCHANGED <<files, processes, launch, session, closing>>

ReadMirror(h) ==
  /\ h \in up /\ pass[h].at = "mirror"
  /\ pass' = [pass EXCEPT ![h].at = IF mirror = "closed" THEN "closed" ELSE "lease",
                          ![h].mirrored = (mirror # "absent")]
  /\ UNCHANGED <<files, processes, launch, session, closing>>

ReadLease(h) ==
  /\ h \in up /\ pass[h].at = "lease"
  /\ PassGoes(h, IF lease # None /\ ProvenDead(h) THEN "dead" ELSE "gc")
  /\ UNCHANGED <<files, processes, launch, session, closing>>

\* The mirror said "closed": the closure is finalized.
RecoverClosed(h) ==
  /\ h \in up /\ pass[h].at = "closed"
  /\ Finalize
  /\ PassGoes(h, "gc")
  /\ UNCHANGED <<mirror, lease, processes, launch, session, closing>>

\* Hub gone and provider dead: the same, and the mirror is rewritten after it.
\* The lease stays.
RecoverDead(h) ==
  /\ h \in up /\ pass[h].at = "dead"
  /\ Finalize
  /\ PassGoes(h, IF pass[h].mirrored THEN "rewrite" ELSE "gc")
  /\ UNCHANGED <<mirror, lease, processes, launch, session, closing>>

Rewrite(h) ==
  /\ h \in up /\ pass[h].at = "rewrite"
  /\ mirror' = "orphaned"
  /\ PassGoes(h, "gc")
  /\ UNCHANGED <<custody, lease, processes, launch, session, closing>>

\* Mutant: the lease is no gate once the mirror is settled.
CollectableLeased(h) == custody = "decided" /\ ~pass[h].attached /\ mirror # "active"

\* gcOne's gates on what owns the session; the retention may be over any time.
Collectable(h) ==
  /\ custody = "decided" /\ ~pass[h].attached
  /\ mirror # "active"
  /\ lease # None => ProvenDead(h)

Collect(h) ==
  /\ h \in up /\ pass[h].at = "gc" /\ Collectable(h)
  /\ custody' = "deleted" /\ lease' = None
  /\ PassGoes(h, "no")
  /\ UNCHANGED <<mirror, processes, launch, session, closing>>

EndPass(h) ==
  /\ h \in up /\ pass[h].at = "gc"
  /\ PassGoes(h, "no")
  /\ UNCHANGED <<files, processes, launch, session, closing>>

-----------------------------------------------------------------------------
(* What the processes may suffer.                                          *)

\* finalizeClosure finds the session's lock taken, or the load refuses: a pass
\* is over, a close rejects before it releases, a failed start leaves custody
\* live.
FinalizeFails(h) ==
  /\ h \in up
  /\ \/ /\ pass[h].at \in {"closed", "dead"}
        /\ PassGoes(h, "no")
        /\ UNCHANGED <<launch, closing>>
     \/ /\ closing[h] \in {"finalizeClosed", "finalizeOther"}
        /\ closing' = [closing EXCEPT ![h] = "no"]
        /\ UNCHANGED <<launch, pass>>
     \/ /\ launch[h].at = "abandon"
        /\ launch' = [launch EXCEPT ![h] = NoLaunch]
        /\ UNCHANGED <<closing, pass>>
  /\ UNCHANGED <<files, processes, session>>

ProviderDies(p) ==
  /\ p \in living
  /\ living' = living \ {p}
  /\ UNCHANGED <<files, up, spawned, unowned, launch, session, closing, pass>>

\* A provider is lost to its hub while no lease names it.
HubDies(h) ==
  /\ h \in up
  /\ up' = up \ {h}
  /\ unowned' = LET p == launch[h].provider
                IN  IF p = None \/ Named(p) THEN unowned ELSE unowned \cup {p}
  /\ launch' = [launch EXCEPT ![h] = NoLaunch]
  /\ session' = [session EXCEPT ![h] = NoSession]
  /\ closing' = [closing EXCEPT ![h] = "no"]
  /\ pass' = [pass EXCEPT ![h] = NoPass]
  /\ UNCHANGED <<files, living, spawned>>

LaunchStep(h) ==
  \/ Spawn(h) \/ RecordLease(h) \/ Attach(h) \/ LaunchFails(h) \/ Abandon(h)
  \/ \E proven \in BOOLEAN : LaunchStopped(h, proven)

CloseStep(h) == FinalizeClose(h) \/ Release(h)

PassStep(h) ==
  \/ BeginPass(h) \/ LoadCustody(h) \/ ReadMirror(h) \/ ReadLease(h)
  \/ RecoverClosed(h) \/ RecoverDead(h) \/ Rewrite(h)
  \/ Collect(h) \/ EndPass(h)

HubStep(h) ==
  \/ Start(h) \/ Resume(h) \/ LaunchStep(h)
  \/ Turn(h) \/ CloseOver(h) \/ CloseStep(h)
  \/ (\E proven \in BOOLEAN : CrashSeen(h, proven) \/ Stop(h, proven))
  \/ PassStep(h) \/ FinalizeFails(h) \/ HubDies(h)

Next ==
  \/ \E h \in Hubs : HubStep(h)
  \/ Handoff
  \/ \E p \in Providers : ProviderDies(p)

Spec == Init /\ [][Next]_vars

-----------------------------------------------------------------------------
(* What ownership promises.                                                *)

\* Every process that may write in the worktree is accounted for: its hub is
\* launching it, or the lease names it, or it was lost before it had a lease.
\* No release, recovery or collection drops the lease of a living provider
\* (recordWorkspaceLease, releaseClosedLease, recover, gcOne).  And at most one
\* writes, whichever hubs resume the session, as reopenForResume re-proves the
\* last one's death.
Accounted ==
  /\ TypeOK
  /\ Cardinality(living \ unowned) <= 1
  /\ \A p \in living \ unowned : Named(p) \/ \E h \in up : launch[h].provider = p

\* A running session whose provider lives has its custody, in which its results
\* are published, and its lease, which keeps others off: no recovery or close of
\* an earlier life takes them away (reopenForResume, recover, closeSession).
RunningOwns ==
  \A h \in Hubs : session[h].at = "running" /\ session[h].provider \in living =>
    custody = "live" /\ lease = [provider |-> session[h].provider, hub |-> h]

\* The worktree is never collected under a provider, whatever a pass read of the
\* session before (gcOne's gates on what is attached, the mirror and the lease).
NeverUnderProvider == custody = "deleted" => living \subseteq unowned

\* The hub that launched the session and its provider are gone.
HubGone ==
  /\ custody = "live" /\ lease # None
  /\ lease.hub \notin up /\ lease.provider \notin living

\* What a hub started goes on; its sweep timer starts pass after pass; and now
\* and then a pass finds the session's lock free.
Fairness == \A h \in Hubs :
  /\ WF_vars(LaunchStep(h)) /\ WF_vars(CloseStep(h)) /\ WF_vars(PassStep(h))
  /\ SF_vars(RecoverClosed(h)) /\ SF_vars(RecoverDead(h))

FairSpec == Spec /\ Fairness

\* A session that lost its hub and its provider does not stay live: the pass of
\* any hub that still runs closes it (recover, the sweep timer of a hub).
HubLossSettles == HubGone ~> (custody # "live" \/ up = {})
=============================================================================
