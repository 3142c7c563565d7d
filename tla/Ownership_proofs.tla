-------------------------- MODULE Ownership_proofs --------------------------
(***************************************************************************)
(* Proofs about module Ownership, for any hubs and any number of           *)
(* providers: at most one provider writes and something accounts for it,   *)
(* a session that runs has its custody and its lease, and no worktree is   *)
(* collected under a provider.  All three hold once no pass recovers a     *)
(* session that a resume launches, no late close reaches a session that    *)
(* runs again, and a failed resume proves its stop ("Secured"); without    *)
(* one of these TLC finds NeverUnderProvider broken.                       *)
(*                                                                         *)
(* The argument is one inductive invariant, OwnInv: one hub at a time      *)
(* launches or runs the session, and while it does nobody closes it; what  *)
(* a pass has read of the mirror and the lease still holds when it acts;   *)
(* and every provider that lives and is not lost is the one of the launch, *)
(* or the one that the lease names.  Each lemma below proves that one      *)
(* action keeps all its parts.                                             *)
(***************************************************************************)
EXTENDS Ownership, FiniteSetTheorems, TLAPS

USE DEF files, processes

-----------------------------------------------------------------------------
(* Types, and what an action does to the place of its hub.                 *)

LaunchType  == launch \in [Hubs -> [at : LaunchPlaces, provider : MaybeProvider]]
SessionType == session \in [Hubs -> [at : Over \cup {"none", "running"}, provider : MaybeProvider]]
PassType    == pass \in [Hubs -> [at : PassPlaces, attached : BOOLEAN, mirrored : BOOLEAN]]
ClosingType == closing \in [Hubs -> ClosePlaces]

\* A launch that goes to another place keeps its provider.
LEMMA LaunchMoves ==
  ASSUME LaunchType, NEW h \in Hubs, NEW place \in LaunchPlaces,
         launch' = [launch EXCEPT ![h].at = place]
  PROVE  /\ LaunchType' /\ launch'[h].at = place /\ launch'[h].provider = launch[h].provider
         /\ \A g \in Hubs \ {h} : launch'[g] = launch[g]
<1> DEFINE moved == [launch[h] EXCEPT !.at = place]
<1>1. /\ moved \in [at : LaunchPlaces, provider : MaybeProvider]
      /\ moved.at = place /\ moved.provider = launch[h].provider
  BY DEF LaunchType
<1>2. launch' = [launch EXCEPT ![h] = moved]
  OBVIOUS
<1> HIDE DEF moved
<1> QED
  BY <1>1, <1>2 DEF LaunchType

\* A launch that is set to a place and a provider.
LEMMA LaunchBecomes ==
  ASSUME LaunchType, NEW h \in Hubs, NEW place \in LaunchPlaces, NEW p \in MaybeProvider,
         launch' = [launch EXCEPT ![h] = [at |-> place, provider |-> p]]
  PROVE  /\ LaunchType' /\ launch'[h].at = place /\ launch'[h].provider = p
         /\ \A g \in Hubs \ {h} : launch'[g] = launch[g]
BY DEF LaunchType

\* A session that ends keeps its provider, and the mirror says how it ended.
LEMMA SessionMoves ==
  ASSUME SessionType, NEW h \in Hubs, NEW place \in Over, Ends(h, place)
  PROVE  /\ SessionType' /\ session'[h].at = place /\ session'[h].provider = session[h].provider
         /\ \A g \in Hubs \ {h} : session'[g] = session[g]
         /\ mirror' = place
<1> DEFINE moved == [session[h] EXCEPT !.at = place]
<1>1. /\ moved \in [at : Over \cup {"none", "running"}, provider : MaybeProvider]
      /\ moved.at = place /\ moved.provider = session[h].provider
  BY DEF SessionType
<1>2. session' = [session EXCEPT ![h] = moved] /\ mirror' = place
  BY DEF Ends
<1> HIDE DEF moved
<1> QED
  BY <1>1, <1>2 DEF SessionType

\* A pass that goes to another place keeps what it read of the mirror.
LEMMA PassMoves ==
  ASSUME PassType, NEW h \in Hubs, NEW place \in PassPlaces, PassGoes(h, place)
  PROVE  /\ PassType' /\ pass'[h].at = place /\ pass'[h].mirrored = pass[h].mirrored
         /\ \A g \in Hubs \ {h} : pass'[g] = pass[g]
<1> DEFINE moved == [pass[h] EXCEPT !.at = place]
<1>1. /\ moved \in [at : PassPlaces, attached : BOOLEAN, mirrored : BOOLEAN]
      /\ moved.at = place /\ moved.mirrored = pass[h].mirrored
  BY DEF PassType
<1>2. pass' = [pass EXCEPT ![h] = moved]
  BY DEF PassGoes
<1> HIDE DEF moved
<1> QED
  BY <1>1, <1>2 DEF PassType

\* A close that goes to another place.
LEMMA ClosingMoves ==
  ASSUME ClosingType, NEW h \in Hubs, NEW place \in ClosePlaces,
         closing' = [closing EXCEPT ![h] = place]
  PROVE  /\ ClosingType' /\ closing'[h] = place
         /\ \A g \in Hubs \ {h} : closing'[g] = closing[g]
BY DEF ClosingType

FileTypes ==
  /\ custody \in Custodies /\ mirror \in Mirrors
  /\ lease \in Leases \cup {None}

ProcessTypes ==
  /\ up \subseteq Hubs
  /\ spawned \in 0 .. MaxSpawns /\ living \subseteq 1 .. spawned /\ unowned \subseteq 1 .. spawned

\* The parts are TypeOK, now and after a step.
LEMMA TypeParts ==
  /\ TypeOK <=> FileTypes /\ ProcessTypes /\ LaunchType /\ SessionType /\ ClosingType /\ PassType
  /\ TypeOK' <=> FileTypes' /\ ProcessTypes' /\ LaunchType' /\ SessionType' /\ ClosingType' /\ PassType'
BY DEF TypeOK, FileTypes, ProcessTypes, LaunchType, SessionType, ClosingType, PassType

-----------------------------------------------------------------------------
(* The invariant, when no pass recovers a session that is being resumed,   *)
(* no close comes late, and a failed resume proves its stop.               *)

\* The three assumptions of module Ownership.
Secured == Assumed = {"sweep", "close", "stop"}

\* The providers that are not lost.
Owned == living \ unowned

Launches(h) == launch[h].at # "no"
Runs(h) == session[h].at = "running"

\* The hub has a provider, or will have one.
Active(h) == Launches(h) \/ Runs(h)

\* Before the session is provisioned there is nothing of it.
Untouched ==
  custody = "absent" =>
    /\ mirror = "absent" /\ lease = None /\ spawned = 0
    /\ \A h \in Hubs : /\ launch[h].at = "no" /\ session[h].at = "none" /\ closing[h] = "no"
                       /\ pass[h].at \in {"no", "load", "gc"}

\* One hub is active at a time, and nobody closes the session meanwhile.
OneActive ==
  /\ \A g, h \in Hubs : Active(g) /\ Active(h) => g = h
  /\ \A h \in Hubs : Launches(h) => ~Runs(h)
  /\ \A h \in Hubs : Active(h) => h \in up /\ \A g \in Hubs : closing[g] = "no"

\* A close that goes on to the release of the lease is that of a closed session.
Closes ==
  \A h \in Hubs : closing[h] \in {"finalizeClosed", "release"} => session[h].at = "closed"

\* What the mirror says of the session, and what a pass has read of it.
MirrorOK ==
  /\ \A h \in Hubs : Runs(h) => mirror \in {"active", "orphaned"}
  /\ mirror = "absent" => \A h \in Hubs : session[h].at = "none" /\ ~pass[h].mirrored
  /\ \A h \in Hubs : /\ launch[h].at = "abandon" => mirror = "absent"
                     /\ launch[h].at = "conflict" => mirror # "absent"
                     /\ pass[h].at = "rewrite" => pass[h].mirrored

\* A resume is alone with live custody; and what a pass has read still holds
\* when it closes the custody of the session.
Passes ==
  /\ Launching /\ mirror # "absent" => custody = "live" /\ ~Recovering
  /\ \A g \in Hubs : pass[g].at = "closed" => \A h \in Hubs : ~Active(h)
  /\ \A g \in Hubs : pass[g].at = "dead" =>
       Owned = {} /\ \A h \in Hubs : launch[h].at \notin {"open", "spawned"}

\* The provider of a launch is the only one that may live, and what names it
\* is the lease that the launch recorded.
LaunchOK(h) ==
  LET p == launch[h].provider IN
  /\ launch[h].at \in {"no", "open", "abandon"} => p = None
  /\ launch[h].at \in {"spawned", "leased", "conflict"} => p # None
  /\ p # None => p \in 1 .. spawned /\ p \notin unowned /\ (Named(p) => lease.hub = h)
  /\ launch[h].at \notin {"no", "abandon"} => Owned \subseteq {p}
  /\ launch[h].at \in {"open", "spawned"} => custody = "live"
  /\ launch[h].at = "leased" => custody = "deleted" \/ lease = [provider |-> p, hub |-> h]
  /\ Launches(h) /\ mirror = "absent" /\ lease # None =>
       launch[h].at = "abandon" \/ (launch[h].at \in {"leased", "failing"} /\ p = lease.provider)

Launched == \A h \in Hubs : LaunchOK(h)

\* The lease of a session that runs, or may still have a provider.
LeaseOK ==
  /\ lease # None => lease.provider \in 1 .. spawned /\ lease.provider \notin unowned
  /\ \A h \in Hubs : session[h].at \in {"running", "orphaned"} =>
       custody = "deleted" \/ lease = [provider |-> session[h].provider, hub |-> h]
  /\ \A h \in Hubs : Runs(h) => session[h].provider \notin unowned
  /\ \A h \in Hubs : session[h].at \in {"running", "orphaned"} => session[h].provider \in 1 .. spawned
  /\ mirror = "closed" /\ lease # None /\ ~Launching => (lease.hub \in up => lease.provider \notin living)

\* At most one provider is owned, by the lease or by a launch; and none of a
\* session whose custody is over.
OwnedOK ==
  /\ \A p \in Owned : Named(p) \/ \E h \in Hubs : launch[h].provider = p
  /\ \A p, q \in Owned : p = q
  /\ custody = "deleted" => lease = None /\ Owned = {}
  /\ \A h \in Hubs : Active(h) /\ custody # "live" => Owned = {}

\* Every step keeps the types of the files.
LEMMA FileTypeSteps == ASSUME TypeOK, Launched, Next PROVE FileTypes'
<1>1. /\ FileTypes /\ Over \subseteq Mirrors /\ LaunchType
      /\ {"absent", "active", "closed", "orphaned", "error"} \subseteq Mirrors
      /\ {"live", "closed", "decided", "deleted"} \subseteq Custodies
  BY TypeParts DEF Mirrors, Over, Custodies
<1>2. ASSUME UNCHANGED files PROVE FileTypes'
  BY <1>1, <1>2 DEF FileTypes
<1>3. Finalize => custody' \in Custodies
  BY <1>1 DEF Finalize, FileTypes
<1>4. ASSUME NEW h \in Hubs, HubStep(h) PROVE FileTypes'
  <2>1. CASE Start(h) \/ Resume(h)
    BY <1>1, <2>1 DEF Start, Resume, FileTypes
  <2>2. CASE LaunchStep(h)
    <3>1. CASE RecordLease(h)
      <4>1. launch[h].provider \in Providers
        BY <1>1, <3>1 DEF RecordLease, LaunchType, MaybeProvider, Launched, LaunchOK
      <4> QED
        BY <1>1, <3>1, <4>1 DEF RecordLease, FileTypes, Leases
    <3> QED
      BY <1>1, <1>2, <1>3, <2>2, <3>1 DEF LaunchStep, Spawn, Attach, LaunchFails, LaunchStopped, Abandon, FileTypes
  <2>3. CASE Turn(h) \/ CloseOver(h) \/ CloseStep(h) \/ FinalizeFails(h) \/ HubDies(h)
    BY <1>1, <1>2, <1>3, <2>3 DEF Turn, CloseOver, CloseStep, FinalizeClose, Release, FinalizeFails, HubDies, FileTypes
  <2>4. ASSUME NEW proven \in BOOLEAN, CrashSeen(h, proven) \/ Stop(h, proven) PROVE FileTypes'
    BY <1>1, <2>4 DEF CrashSeen, Stop, Ends, FileTypes
  <2>5. CASE PassStep(h)
    BY <1>1, <1>2, <1>3, <2>5 DEF PassStep, BeginPass, LoadCustody, ReadMirror, ReadLease, RecoverClosed,
       RecoverDead, Rewrite, Collect, EndPass, FileTypes
  <2> QED
    BY <1>4, <2>1, <2>2, <2>3, <2>4, <2>5 DEF HubStep
<1> QED
  BY <1>1, <1>2, <1>4 DEF Next, Handoff, ProviderDies, FileTypes

\* Every step keeps the types of what the processes are and do.
LEMMA ProcessTypeSteps == ASSUME TypeOK, Launched, Next PROVE ProcessTypes'
<1>1. ProcessTypes /\ LaunchType
  BY TypeParts
<1>2. ASSUME UNCHANGED spawned, up' \subseteq up, living' \subseteq living, UNCHANGED unowned PROVE ProcessTypes'
  BY <1>1, <1>2 DEF ProcessTypes
<1>3. ASSUME NEW h \in Hubs, HubStep(h) PROVE ProcessTypes'
  <2>1. launch[h].provider # None => launch[h].provider \in 1 .. spawned
    BY DEF Launched, LaunchOK
  <2>2. CASE LaunchStep(h)
    <3>1. CASE Spawn(h)
      BY <1>1, <3>1, OwnershipAssumption DEF Spawn, ProcessTypes
    <3>2. ASSUME NEW proven \in BOOLEAN, LaunchStopped(h, proven) PROVE ProcessTypes'
      BY <1>1, <2>1, <3>2 DEF LaunchStopped, ProcessTypes
    <3> QED
      BY <1>2, <2>2, <3>1, <3>2 DEF LaunchStep, RecordLease, Attach, LaunchFails, Abandon
  <2>3. CASE HubDies(h)
    BY <1>1, <2>1, <2>3 DEF HubDies, ProcessTypes
  <2>4. ASSUME NEW proven \in BOOLEAN, CrashSeen(h, proven) \/ Stop(h, proven) PROVE ProcessTypes'
    BY <1>2, <2>4 DEF CrashSeen, Stop
  <2>5. CASE Start(h) \/ Resume(h) \/ Turn(h) \/ CloseOver(h) \/ CloseStep(h) \/ FinalizeFails(h)
    BY <1>2, <2>5 DEF Start, Resume, Turn, CloseOver, CloseStep, FinalizeClose, Release, FinalizeFails
  <2>6. CASE PassStep(h)
    BY <1>2, <2>6 DEF PassStep, BeginPass, LoadCustody, ReadMirror, ReadLease, RecoverClosed,
       RecoverDead, Rewrite, Collect, EndPass
  <2> QED
    BY <1>3, <2>2, <2>3, <2>4, <2>5, <2>6 DEF HubStep
<1> QED
  BY <1>2, <1>3 DEF Next, Handoff, ProviderDies

\* Every step keeps the types of launches, sessions, closes and passes.
LEMMA PlaceTypeSteps ==
  ASSUME TypeOK, Next PROVE LaunchType' /\ SessionType' /\ ClosingType' /\ PassType'
<1>1. LaunchType /\ SessionType /\ ClosingType /\ PassType /\ None \in MaybeProvider
  BY TypeParts DEF MaybeProvider
<1> USE <1>1
<1>2. UNCHANGED launch => LaunchType'
  BY DEF LaunchType
<1>3. UNCHANGED session => SessionType'
  BY DEF SessionType
<1>4. UNCHANGED closing => ClosingType'
  BY DEF ClosingType
<1>5. UNCHANGED pass => PassType'
  BY DEF PassType
<1> USE <1>2, <1>3, <1>4, <1>5
<1>6. ASSUME NEW h \in Hubs, HubStep(h) PROVE LaunchType' /\ SessionType' /\ ClosingType' /\ PassType'
  <2>1. CASE Start(h) \/ Resume(h) \/ LaunchFails(h) \/ RecordLease(h)
    BY <2>1, LaunchMoves DEF Start, Resume, LaunchFails, RecordLease, LaunchPlaces
  <2>2. CASE Spawn(h)
    <3>1. spawned' \in MaybeProvider
      BY <2>2, OwnershipAssumption DEF Spawn, TypeOK, MaybeProvider, Providers
    <3> QED
      BY <2>2, <3>1, LaunchBecomes DEF Spawn, LaunchPlaces
  <2>3. CASE Attach(h)
    <3>1. launch[h].provider \in MaybeProvider
      BY DEF LaunchType
    <3> QED
      BY <2>3, <3>1, LaunchBecomes DEF Attach, NoLaunch, LaunchPlaces, SessionType
  <2>4. CASE Abandon(h)
    BY <2>4, LaunchBecomes DEF Abandon, NoLaunch, LaunchPlaces
  <2>5. ASSUME NEW proven \in BOOLEAN, LaunchStopped(h, proven) PROVE LaunchType' /\ UNCHANGED <<session, closing, pass>>
    BY <2>5, LaunchBecomes DEF LaunchStopped, NoLaunch, LaunchPlaces
  <2>6. CASE Turn(h) \/ CloseOver(h) \/ FinalizeClose(h) \/ Release(h)
    BY <2>6, ClosingMoves DEF Turn, CloseOver, FinalizeClose, Release, ClosePlaces
  <2>7. ASSUME NEW proven \in BOOLEAN, CrashSeen(h, proven) \/ Stop(h, proven)
        PROVE  SessionType' /\ ClosingType' /\ UNCHANGED <<launch, pass>>
    BY <2>7, SessionMoves, ClosingMoves DEF CrashSeen, Stop, Over, ClosePlaces
  <2>8. CASE BeginPass(h)
    BY <2>8 DEF BeginPass, PassType, PassPlaces
  <2>9. CASE ReadMirror(h)
    BY <2>9 DEF ReadMirror, PassType, PassPlaces
  <2>10. CASE LoadCustody(h) \/ ReadLease(h) \/ RecoverClosed(h) \/ RecoverDead(h) \/ Rewrite(h) \/ Collect(h) \/ EndPass(h)
    BY <2>10, PassMoves DEF LoadCustody, ReadLease, RecoverClosed, RecoverDead, Rewrite, Collect, EndPass, PassPlaces
  <2>11. CASE FinalizeFails(h)
    BY <2>11, PassMoves, ClosingMoves, LaunchBecomes DEF FinalizeFails, NoLaunch, PassPlaces, ClosePlaces, LaunchPlaces
  <2>12. CASE HubDies(h)
    <3>1. NoSession \in [at : Over \cup {"none", "running"}, provider : MaybeProvider]
      BY DEF NoSession
    <3>2. NoPass \in [at : PassPlaces, attached : BOOLEAN, mirrored : BOOLEAN]
      BY DEF NoPass, PassPlaces
    <3>3. NoLaunch \in [at : LaunchPlaces, provider : MaybeProvider]
      BY DEF NoLaunch, LaunchPlaces
    <3> QED
      BY <2>12, <3>1, <3>2, <3>3, ClosingMoves DEF HubDies, LaunchType, SessionType, PassType, ClosePlaces
  <2> QED
    BY <1>6, <2>1, <2>2, <2>3, <2>4, <2>5, <2>6, <2>7, <2>8, <2>9, <2>10, <2>11, <2>12
    DEF HubStep, LaunchStep, CloseStep, PassStep
<1> QED
  BY <1>6 DEF Next, Handoff, ProviderDies

\* TypeOK is inductive with what launches say of their providers.
LEMMA TypeSteps == ASSUME TypeOK, Launched, Next PROVE TypeOK'
BY FileTypeSteps, ProcessTypeSteps, PlaceTypeSteps, TypeParts

Parts ==
  Untouched /\ OneActive /\ Closes /\ MirrorOK /\ Passes /\ Launched /\ LeaseOK /\ OwnedOK

OwnInv == TypeOK /\ Parts

\* An absent lease is none of the leases of a session.
LEMMA NoneIsNoLease ==
  ASSUME NEW p \in MaybeProvider, p # None, NEW h \in Hubs
  PROVE  [provider |-> p, hub |-> h] # None
<1>1. [provider |-> p, hub |-> h] \in [provider : 1 .. MaxSpawns, hub : Hubs]
  BY DEF MaybeProvider, Providers
<1> QED
  BY <1>1, OwnershipAssumption

-----------------------------------------------------------------------------
(* Launches.                                                               *)

\* A start finds a session of which there is nothing.
LEMMA StartKeeps ==
  ASSUME OwnInv, Secured, NEW h \in Hubs, Start(h)
  PROVE  Parts'
<1>1. LaunchType /\ SessionType /\ PassType /\ ClosingType /\ FileTypes /\ ProcessTypes
  BY TypeParts DEF OwnInv
<1>2. /\ custody = "absent" /\ custody' = "live" /\ launch[h].at = "no"
      /\ launch'[h].at = "open" /\ launch'[h].provider = launch[h].provider
      /\ \A g \in Hubs \ {h} : launch'[g] = launch[g]
      /\ h \in up /\ UNCHANGED <<mirror, lease, processes, session, closing, pass>>
  BY <1>1, LaunchMoves DEF Start, MayLaunch, LaunchPlaces
<1>3. /\ mirror = "absent" /\ lease = None /\ spawned = 0 /\ living = {}
      /\ \A g \in Hubs : /\ launch[g].at = "no" /\ launch[g].provider = None /\ session[g].at = "none"
                         /\ closing[g] = "no" /\ pass[g].at \in {"no", "load", "gc"}
  BY <1>1, <1>2 DEF OwnInv, Parts, Untouched, Launched, LaunchOK, ProcessTypes
<1>4. Untouched'
  BY <1>1, <1>2, <1>3 DEF OwnInv, Parts, Untouched
<1>5. OneActive'
  BY <1>1, <1>2, <1>3 DEF OwnInv, Parts, OneActive, Active, Launches, Runs
<1>6. Closes'
  BY <1>1, <1>2, <1>3 DEF OwnInv, Parts, Closes
<1>7. MirrorOK'
  BY <1>1, <1>2, <1>3 DEF OwnInv, Parts, MirrorOK, Runs
<1>8. Passes'
  BY <1>1, <1>2, <1>3 DEF OwnInv, Parts, Passes, Launching, Recovering, Owned, Active, Launches, Runs
<1>9. Launched'
  BY <1>1, <1>2, <1>3 DEF OwnInv, Parts, Launched, LaunchOK, Owned, Launches, Named
<1>10. LeaseOK'
  BY <1>1, <1>2, <1>3 DEF OwnInv, Parts, LeaseOK, Launching, Runs
<1>11. OwnedOK'
  BY <1>1, <1>2, <1>3 DEF OwnInv, Parts, OwnedOK, Owned, Named, Active, Launches, Runs
<1> QED
  BY <1>4, <1>5, <1>6, <1>7, <1>8, <1>9, <1>10, <1>11 DEF Parts

\* A resume finds no hub active, and no provider that is owned.
LEMMA ResumeKeeps ==
  ASSUME OwnInv, Secured, NEW h \in Hubs, Resume(h)
  PROVE  Parts'
<1>1. LaunchType /\ SessionType /\ PassType /\ ClosingType /\ FileTypes /\ ProcessTypes
  BY TypeParts DEF OwnInv
<1>2. /\ custody = "closed" /\ custody' = "live" /\ launch[h].at = "no" /\ mirror \in Over
      /\ launch'[h].at = "open" /\ launch'[h].provider = launch[h].provider
      /\ \A g \in Hubs \ {h} : launch'[g] = launch[g]
      /\ h \in up /\ ~Recovering /\ (\A g \in Hubs : closing[g] = "no")
      /\ UNCHANGED <<mirror, lease, processes, session, closing, pass>>
  BY <1>1, LaunchMoves DEF Resume, MayReopen, MayLaunch, LaunchPlaces, Secured
<1>3. mirror # "absent" /\ ~Launching /\ \A g \in Hubs : launch[g].at = "no" /\ launch[g].provider = None
  BY <1>2 DEF OwnInv, Parts, Passes, Launching, Launched, LaunchOK, Over
<1>4. lease # None => lease.provider \notin living
  BY <1>2 DEF Resume, MayReopen, ProvenDead
<1>5. \A g \in Hubs : ~Runs(g)
  <2> SUFFICES ASSUME NEW g \in Hubs, Runs(g) PROVE FALSE
    OBVIOUS
  <2>1. lease = [provider |-> session[g].provider, hub |-> g] /\ g \in up
    BY <1>2 DEF OwnInv, Parts, LeaseOK, OneActive, Active, Runs
  <2>2. lease # None
    <3>1. session[g].provider \in MaybeProvider /\ session[g].provider # None
      BY <1>1, OwnershipAssumption DEF SessionType, ProcessTypes, OwnInv, Parts, LeaseOK, Runs
    <3> QED
      BY <2>1, <3>1, NoneIsNoLease
  <2> QED
    BY <1>2, <2>1, <2>2 DEF Resume, MayReopen, ProvenDead, MayLaunch, Runs
<1>6. Owned = {}
  BY <1>2, <1>3, <1>4, OwnershipAssumption DEF OwnInv, Parts, OwnedOK, Named, Owned, ProcessTypes, TypeOK
<1>7. Untouched'
  BY <1>1, <1>2, <1>3, <1>4, <1>5, <1>6 DEF OwnInv, Parts, Untouched
<1>8. OneActive'
  BY <1>1, <1>2, <1>3, <1>4, <1>5, <1>6 DEF OwnInv, Parts, OneActive, Active, Launches, Runs
<1>9. Closes'
  BY <1>1, <1>2, <1>3, <1>4, <1>5, <1>6 DEF OwnInv, Parts, Closes
<1>10. MirrorOK'
  BY <1>1, <1>2, <1>3, <1>4, <1>5, <1>6 DEF OwnInv, Parts, MirrorOK, Runs
<1>11. Passes'
  BY <1>1, <1>2, <1>3, <1>4, <1>5, <1>6 DEF OwnInv, Parts, Passes, Launching, Recovering, Owned, Active, Launches, Runs
<1>12. Launched'
  BY <1>1, <1>2, <1>3, <1>4, <1>5, <1>6 DEF OwnInv, Parts, Launched, LaunchOK, Owned, Launches, Named
<1>13. LeaseOK'
  BY <1>1, <1>2, <1>3, <1>4, <1>5, <1>6 DEF OwnInv, Parts, LeaseOK, Launching, Runs
<1>14. OwnedOK'
  BY <1>1, <1>2, <1>3, <1>4, <1>5, <1>6 DEF OwnInv, Parts, OwnedOK, Owned, Named, Active, Launches, Runs
<1> QED
  BY <1>7, <1>8, <1>9, <1>10, <1>11, <1>12, <1>13, <1>14 DEF Parts

\* A hub that launches the session is the only one that is active.
LEMMA LaunchesAlone ==
  ASSUME OwnInv, NEW h \in Hubs, launch[h].at # "no"
  PROVE  /\ h \in up /\ ~Runs(h) /\ \A g \in Hubs : closing[g] = "no"
         /\ \A g \in Hubs \ {h} : launch[g].at = "no" /\ launch[g].provider = None /\ ~Runs(g)
BY DEF OwnInv, Parts, OneActive, Active, Launches, Launched, LaunchOK

\* The provider of a launch is new, and the only one that is owned.
LEMMA SpawnKeeps ==
  ASSUME OwnInv, Secured, NEW h \in Hubs, Spawn(h)
  PROVE  Parts'
<1>1. LaunchType /\ SessionType /\ PassType /\ ClosingType /\ FileTypes /\ ProcessTypes
  BY TypeParts DEF OwnInv
<1>2. /\ launch[h].at = "open" /\ launch'[h].at = "spawned" /\ launch'[h].provider = spawned'
      /\ \A g \in Hubs \ {h} : launch'[g] = launch[g]
      /\ spawned' = spawned + 1 /\ living' = living \cup {spawned'} /\ spawned' \in MaybeProvider
      /\ UNCHANGED <<files, up, unowned, session, closing, pass>>
  <2>1. spawned + 1 \in Providers
    BY <1>1, OwnershipAssumption DEF Spawn, ProcessTypes, Providers
  <2> QED
    BY <1>1, <2>1, LaunchBecomes DEF Spawn, MaybeProvider, LaunchPlaces
<1>3. /\ h \in up /\ ~Runs(h) /\ \A g \in Hubs : closing[g] = "no"
      /\ \A g \in Hubs \ {h} : launch[g].at = "no" /\ launch[g].provider = None /\ ~Runs(g)
  BY <1>2, LaunchesAlone
<1>4. /\ custody = "live" /\ Owned = {} /\ (\A g \in Hubs : pass[g].at # "dead")
      /\ (mirror = "absent" => lease = None)
  <2>1. Owned \subseteq {None} /\ None \notin living
    BY <1>1, <1>2, OwnershipAssumption DEF OwnInv, Parts, Launched, LaunchOK, ProcessTypes
  <2> QED
    BY <1>2, <2>1 DEF OwnInv, Parts, Launched, LaunchOK, Passes, Launches, Owned
<1>5. /\ spawned \in Nat /\ unowned \subseteq 1 .. spawned /\ living \subseteq 1 .. spawned
      /\ spawned' \notin unowned /\ spawned' # None /\ Owned' = {spawned'}
      /\ \A g \in Hubs : lease # None => lease.provider # spawned' 
  <2>1. spawned \in Nat /\ unowned \subseteq 1 .. spawned /\ living \subseteq 1 .. spawned
    BY <1>1, OwnershipAssumption DEF ProcessTypes
  <2>2. spawned' \in Nat /\ spawned' \notin 1 .. spawned /\ spawned' <= MaxSpawns /\ spawned' >= 1
    BY <1>2, <2>1, OwnershipAssumption DEF Spawn
  <2>3. spawned' # None
    BY <2>2, OwnershipAssumption
  <2>4. lease # None => lease.provider \in 1 .. spawned
    BY DEF OwnInv, Parts, LeaseOK
  <2> QED
    BY <1>2, <1>4, <2>1, <2>2, <2>3, <2>4 DEF Owned
<1>6. Untouched'
  BY <1>1, <1>2, <1>3, <1>4, <1>5 DEF OwnInv, Parts, Untouched
<1>7. OneActive'
  BY <1>1, <1>2, <1>3, <1>4, <1>5 DEF OwnInv, Parts, OneActive, Active, Launches, Runs
<1>8. Closes'
  BY <1>1, <1>2, <1>3, <1>4, <1>5 DEF OwnInv, Parts, Closes
<1>9. MirrorOK'
  BY <1>1, <1>2, <1>3, <1>4, <1>5 DEF OwnInv, Parts, MirrorOK, Runs
<1>10. Passes'
  BY <1>1, <1>2, <1>3, <1>4, <1>5 DEF OwnInv, Parts, Passes, Launching, Recovering, Owned, Active, Launches, Runs
<1>11. Launched'
  BY <1>1, <1>2, <1>3, <1>4, <1>5 DEF OwnInv, Parts, Launched, LaunchOK, Owned, Launches, Named
<1>12. LeaseOK'
  BY <1>1, <1>2, <1>3, <1>4, <1>5 DEF OwnInv, Parts, LeaseOK, Launching, Runs
<1>13. OwnedOK'
  BY <1>1, <1>2, <1>3, <1>4, <1>5 DEF OwnInv, Parts, OwnedOK, Owned, Named, Active, Launches, Runs
<1> QED
  BY <1>6, <1>7, <1>8, <1>9, <1>10, <1>11, <1>12, <1>13 DEF Parts

\* A lease is recorded for the provider of the launch, where there is none.
LEMMA RecordLeaseKeeps ==
  ASSUME OwnInv, Secured, NEW h \in Hubs, RecordLease(h)
  PROVE  Parts'
<1>1. LaunchType /\ SessionType /\ PassType /\ ClosingType /\ FileTypes /\ ProcessTypes
  BY TypeParts DEF OwnInv
<1>2. /\ launch[h].at = "spawned" /\ launch'[h].provider = launch[h].provider
      /\ \A g \in Hubs \ {h} : launch'[g] = launch[g]
      /\ UNCHANGED <<custody, mirror, processes, session, closing, pass>>
      /\ \/ /\ lease = None /\ lease' = [provider |-> launch[h].provider, hub |-> h]
            /\ launch'[h].at = "leased"
         \/ lease # None /\ UNCHANGED lease /\ launch'[h].at = "conflict"
  BY <1>1, LaunchMoves DEF RecordLease, LaunchPlaces
<1>3. /\ h \in up /\ ~Runs(h) /\ \A g \in Hubs : closing[g] = "no"
      /\ \A g \in Hubs \ {h} : launch[g].at = "no" /\ launch[g].provider = None /\ ~Runs(g)
  BY <1>2, LaunchesAlone
<1>4. /\ custody = "live" /\ launch[h].provider # None /\ launch[h].provider \in 1 .. spawned
      /\ launch[h].provider \notin unowned /\ Owned \subseteq {launch[h].provider}
      /\ [provider |-> launch[h].provider, hub |-> h] # None
      /\ (mirror = "absent" => lease = None)
      /\ (lease = None => \A g \in Hubs : session[g].at \notin {"running", "orphaned"})
  <2>1. /\ custody = "live" /\ launch[h].provider # None /\ launch[h].provider \in 1 .. spawned
        /\ launch[h].provider \notin unowned /\ Owned \subseteq {launch[h].provider}
        /\ (mirror = "absent" => lease = None)
    BY <1>2 DEF OwnInv, Parts, Launched, LaunchOK, Launches
  <2>2. [provider |-> launch[h].provider, hub |-> h] # None
    BY <1>1, <2>1, NoneIsNoLease DEF LaunchType
  <2>3. ASSUME lease = None, NEW g \in Hubs PROVE session[g].at \notin {"running", "orphaned"}
    <3> SUFFICES ASSUME session[g].at \in {"running", "orphaned"} PROVE FALSE
      OBVIOUS
    <3>1. lease = [provider |-> session[g].provider, hub |-> g]
      BY <2>1 DEF OwnInv, Parts, LeaseOK
    <3>2. session[g].provider \in MaybeProvider /\ session[g].provider # None
      BY <1>1, OwnershipAssumption DEF SessionType, ProcessTypes, OwnInv, Parts, LeaseOK
    <3> QED
      BY <2>3, <3>1, <3>2, NoneIsNoLease
  <2> QED
    BY <2>1, <2>2, <2>3
<1>5. Untouched'
  BY <1>1, <1>2, <1>3, <1>4 DEF OwnInv, Parts, Untouched
<1>6. OneActive'
  BY <1>1, <1>2, <1>3, <1>4 DEF OwnInv, Parts, OneActive, Active, Launches, Runs
<1>7. Closes'
  BY <1>1, <1>2, <1>3, <1>4 DEF OwnInv, Parts, Closes
<1>8. MirrorOK'
  BY <1>1, <1>2, <1>3, <1>4 DEF OwnInv, Parts, MirrorOK, Runs
<1>9. Passes'
  BY <1>1, <1>2, <1>3, <1>4 DEF OwnInv, Parts, Passes, Launching, Recovering, Owned, Active, Launches, Runs
<1>10. Launched'
  BY <1>1, <1>2, <1>3, <1>4 DEF OwnInv, Parts, Launched, LaunchOK, Owned, Launches, Named
<1>11. LeaseOK'
  BY <1>1, <1>2, <1>3, <1>4 DEF OwnInv, Parts, LeaseOK, Launching, Runs
<1>12. OwnedOK'
  BY <1>1, <1>2, <1>3, <1>4 DEF OwnInv, Parts, OwnedOK, Owned, Named, Active, Launches, Runs
<1> QED
  BY <1>5, <1>6, <1>7, <1>8, <1>9, <1>10, <1>11, <1>12 DEF Parts

\* The session that is attached runs under the lease of its launch.
LEMMA AttachKeeps ==
  ASSUME OwnInv, Secured, NEW h \in Hubs, Attach(h)
  PROVE  Parts'
<1>1. LaunchType /\ SessionType /\ PassType /\ ClosingType /\ FileTypes /\ ProcessTypes
  BY TypeParts DEF OwnInv
<1>2. /\ launch[h].at = "leased" /\ launch'[h].at = "no" /\ launch'[h].provider = None
      /\ \A g \in Hubs \ {h} : launch'[g] = launch[g]
      /\ session'[h].at = "running" /\ session'[h].provider = launch[h].provider
      /\ \A g \in Hubs \ {h} : session'[g] = session[g]
      /\ mirror' = "active" /\ UNCHANGED <<custody, lease, processes, closing, pass>>
  <2>1. /\ launch[h].at = "leased" /\ mirror' = "active"
        /\ launch' = [launch EXCEPT ![h] = [at |-> "no", provider |-> None]]
        /\ session' = [session EXCEPT ![h] = [at |-> "running", provider |-> launch[h].provider]]
        /\ UNCHANGED <<custody, lease, processes, closing, pass>>
    BY DEF Attach, NoLaunch
  <2>2. /\ launch'[h].at = "no" /\ launch'[h].provider = None
        /\ \A g \in Hubs \ {h} : launch'[g] = launch[g]
    BY <1>1, <2>1, LaunchBecomes DEF LaunchPlaces, MaybeProvider
  <2>3. /\ session'[h] = [at |-> "running", provider |-> launch[h].provider]
        /\ \A g \in Hubs \ {h} : session'[g] = session[g]
    BY <1>1, <2>1 DEF SessionType
  <2> QED
    BY <2>1, <2>2, <2>3
<1>3. /\ h \in up /\ ~Runs(h) /\ \A g \in Hubs : closing[g] = "no"
      /\ \A g \in Hubs \ {h} : launch[g].at = "no" /\ launch[g].provider = None /\ ~Runs(g)
  BY <1>2, LaunchesAlone
<1>4. /\ launch[h].provider \in 1 .. spawned /\ launch[h].provider \notin unowned
      /\ Owned \subseteq {launch[h].provider}
      /\ custody = "deleted" \/ lease = [provider |-> launch[h].provider, hub |-> h]
      /\ custody # "absent" /\ \A g \in Hubs : pass[g].at # "closed" 
  BY <1>2 DEF OwnInv, Parts, Launched, LaunchOK, Passes, Active, Launches, Untouched
<1>5. \A p \in Owned : Named(p) /\ p = launch[h].provider
  <2>1. launch[h].provider \in MaybeProvider /\ launch[h].provider # None
    BY <1>1, <1>2 DEF LaunchType, OwnInv, Parts, Launched, LaunchOK
  <2>2. [provider |-> launch[h].provider, hub |-> h] # None
    BY <2>1, NoneIsNoLease
  <2>3. custody = "deleted" => Owned = {}
    BY DEF OwnInv, Parts, OwnedOK
  <2> QED
    BY <1>4, <2>2, <2>3 DEF Named
<1>6. Untouched'
  BY <1>1, <1>2, <1>3, <1>4, <1>5 DEF OwnInv, Parts, Untouched
<1>7. OneActive'
  BY <1>1, <1>2, <1>3, <1>4, <1>5 DEF OwnInv, Parts, OneActive, Active, Launches, Runs
<1>8. Closes'
  BY <1>1, <1>2, <1>3, <1>4, <1>5 DEF OwnInv, Parts, Closes
<1>9. MirrorOK'
  BY <1>1, <1>2, <1>3, <1>4, <1>5 DEF OwnInv, Parts, MirrorOK, Runs
<1>10. Passes'
  BY <1>1, <1>2, <1>3, <1>4, <1>5 DEF OwnInv, Parts, Passes, Launching, Recovering, Owned, Active, Launches, Runs
<1>11. Launched'
  BY <1>1, <1>2, <1>3, <1>4, <1>5 DEF OwnInv, Parts, Launched, LaunchOK, Owned, Launches, Named
<1>12. LeaseOK'
  BY <1>1, <1>2, <1>3, <1>4, <1>5 DEF OwnInv, Parts, LeaseOK, Launching, Runs
<1>13. OwnedOK'
  BY <1>1, <1>2, <1>3, <1>4, <1>5 DEF OwnInv, Parts, OwnedOK, Owned, Named, Active, Launches, Runs
<1> QED
  BY <1>6, <1>7, <1>8, <1>9, <1>10, <1>11, <1>12, <1>13 DEF Parts

\* A launch that fails keeps its provider until its stop.
LEMMA LaunchFailsKeeps ==
  ASSUME OwnInv, Secured, NEW h \in Hubs, LaunchFails(h)
  PROVE  Parts'
<1>1. LaunchType /\ SessionType /\ PassType /\ ClosingType /\ FileTypes /\ ProcessTypes
  BY TypeParts DEF OwnInv
<1>2. /\ launch[h].at \in {"open", "spawned", "leased", "conflict"} /\ launch'[h].at = "failing"
      /\ launch'[h].provider = launch[h].provider
      /\ \A g \in Hubs \ {h} : launch'[g] = launch[g]
      /\ UNCHANGED <<files, processes, session, closing, pass>>
  BY <1>1, LaunchMoves DEF LaunchFails, LaunchPlaces
<1>3. /\ h \in up /\ ~Runs(h) /\ \A g \in Hubs : closing[g] = "no"
      /\ \A g \in Hubs \ {h} : launch[g].at = "no" /\ launch[g].provider = None /\ ~Runs(g)
  BY <1>2, LaunchesAlone
<1>4. Untouched'
  BY <1>1, <1>2, <1>3 DEF OwnInv, Parts, Untouched
<1>5. OneActive'
  BY <1>1, <1>2, <1>3 DEF OwnInv, Parts, OneActive, Active, Launches, Runs
<1>6. Closes'
  BY <1>1, <1>2, <1>3 DEF OwnInv, Parts, Closes
<1>7. MirrorOK'
  BY <1>1, <1>2, <1>3 DEF OwnInv, Parts, MirrorOK, Runs
<1>8. Passes'
  BY <1>1, <1>2, <1>3 DEF OwnInv, Parts, Passes, Launching, Recovering, Owned, Active, Launches, Runs
<1>9. Launched'
  BY <1>1, <1>2, <1>3 DEF OwnInv, Parts, Launched, LaunchOK, Owned, Launches, Named
<1>10. LeaseOK'
  BY <1>1, <1>2, <1>3 DEF OwnInv, Parts, LeaseOK, Launching, Runs
<1>11. OwnedOK'
  BY <1>1, <1>2, <1>3 DEF OwnInv, Parts, OwnedOK, Owned, Named, Active, Launches, Runs
<1> QED
  BY <1>4, <1>5, <1>6, <1>7, <1>8, <1>9, <1>10, <1>11 DEF Parts

\* A failed resume leaves no provider; that of a failed start is named by its lease, or lost.
LEMMA LaunchStoppedKeeps ==
  ASSUME OwnInv, Secured, NEW h \in Hubs, NEW proven \in BOOLEAN, LaunchStopped(h, proven)
  PROVE  Parts'
<1>1. LaunchType /\ SessionType /\ PassType /\ ClosingType /\ FileTypes /\ ProcessTypes
  BY TypeParts DEF OwnInv
<1>2. /\ launch[h].at = "failing" /\ launch'[h].provider = None
      /\ mirror = "absent" => launch'[h].at = "abandon"
      /\ mirror # "absent" => launch'[h].at = "no" /\ proven
      /\ \A g \in Hubs \ {h} : launch'[g] = launch[g]
      /\ living' = IF proven THEN living \ {launch[h].provider} ELSE living
      /\ unowned' = IF (proven \/ launch[h].provider = None) \/ Named(launch[h].provider)
                    THEN unowned ELSE unowned \cup {launch[h].provider}
      /\ UNCHANGED <<files, up, spawned, session, closing, pass>>
  BY <1>1, LaunchBecomes DEF LaunchStopped, NoLaunch, LaunchPlaces, MaybeProvider, Secured
<1>3. /\ h \in up /\ ~Runs(h) /\ \A g \in Hubs : closing[g] = "no"
      /\ \A g \in Hubs \ {h} : launch[g].at = "no" /\ launch[g].provider = None /\ ~Runs(g)
  BY <1>2, LaunchesAlone
<1>4. /\ Owned \subseteq {launch[h].provider} /\ Owned' \subseteq Owned
      /\ \A p \in Owned' : Named(p) /\ mirror = "absent"
      /\ lease # None => lease.provider \notin unowned' 
  <2>1. Owned \subseteq {launch[h].provider} /\ (lease # None => lease.provider \notin unowned)
    BY <1>2 DEF OwnInv, Parts, Launched, LaunchOK, LeaseOK
  <2>2. launch[h].provider = None => Owned = {}
    BY <1>1, <2>1, OwnershipAssumption DEF Owned, ProcessTypes
  <2> QED
    BY <1>2, <2>1, <2>2 DEF Owned, Named
<1>5. Untouched'
  BY <1>1, <1>2, <1>3, <1>4 DEF OwnInv, Parts, Untouched
<1>6. OneActive'
  BY <1>1, <1>2, <1>3, <1>4 DEF OwnInv, Parts, OneActive, Active, Launches, Runs
<1>7. Closes'
  BY <1>1, <1>2, <1>3, <1>4 DEF OwnInv, Parts, Closes
<1>8. MirrorOK'
  BY <1>1, <1>2, <1>3, <1>4 DEF OwnInv, Parts, MirrorOK, Runs
<1>9. Passes'
  BY <1>1, <1>2, <1>3, <1>4 DEF OwnInv, Parts, Passes, Launching, Recovering, Owned, Active, Launches, Runs
<1>10. Launched'
  BY <1>1, <1>2, <1>3, <1>4 DEF OwnInv, Parts, Launched, LaunchOK, Owned, Launches, Named
<1>11. LeaseOK'
  <2>1. (mirror # "absent" /\ lease # None) => lease.provider \notin living'
    BY <1>4 DEF Owned
  <2>2. \A g \in Hubs : Runs(g) => session[g].provider \notin unowned'
    BY <1>2, <1>3
  <2> QED
    BY <1>2, <1>3, <1>4, <2>1, <2>2 DEF OwnInv, Parts, LeaseOK, Runs
<1>12. OwnedOK'
  BY <1>1, <1>2, <1>3, <1>4 DEF OwnInv, Parts, OwnedOK, Owned, Named, Active, Launches, Runs
<1> QED
  BY <1>5, <1>6, <1>7, <1>8, <1>9, <1>10, <1>11, <1>12 DEF Parts

\* A start that is abandoned leaves the custody closed.
LEMMA AbandonKeeps ==
  ASSUME OwnInv, Secured, NEW h \in Hubs, Abandon(h)
  PROVE  Parts'
<1>1. LaunchType /\ SessionType /\ PassType /\ ClosingType /\ FileTypes /\ ProcessTypes
  BY TypeParts DEF OwnInv
<1>2. /\ launch[h].at = "abandon" /\ launch'[h].at = "no" /\ launch'[h].provider = None
      /\ \A g \in Hubs \ {h} : launch'[g] = launch[g]
      /\ custody' = IF custody = "live" THEN "closed" ELSE custody
      /\ UNCHANGED <<mirror, lease, processes, session, closing, pass>>
  BY <1>1, LaunchBecomes DEF Abandon, Finalize, NoLaunch, LaunchPlaces, MaybeProvider
<1>3. /\ h \in up /\ ~Runs(h) /\ \A g \in Hubs : closing[g] = "no"
      /\ \A g \in Hubs \ {h} : launch[g].at = "no" /\ launch[g].provider = None /\ ~Runs(g)
  BY <1>2, LaunchesAlone
<1>4. launch[h].provider = None /\ mirror = "absent" /\ custody # "absent"
  BY <1>2 DEF OwnInv, Parts, Launched, LaunchOK, MirrorOK, Untouched
<1>5. Untouched'
  BY <1>1, <1>2, <1>3, <1>4 DEF OwnInv, Parts, Untouched
<1>6. OneActive'
  BY <1>1, <1>2, <1>3, <1>4 DEF OwnInv, Parts, OneActive, Active, Launches, Runs
<1>7. Closes'
  BY <1>1, <1>2, <1>3, <1>4 DEF OwnInv, Parts, Closes
<1>8. MirrorOK'
  BY <1>1, <1>2, <1>3, <1>4 DEF OwnInv, Parts, MirrorOK, Runs
<1>9. Passes'
  BY <1>1, <1>2, <1>3, <1>4 DEF OwnInv, Parts, Passes, Launching, Recovering, Owned, Active, Launches, Runs
<1>10. Launched'
  BY <1>1, <1>2, <1>3, <1>4 DEF OwnInv, Parts, Launched, LaunchOK, Owned, Launches, Named
<1>11. LeaseOK'
  <2>1. (custody' = "deleted") = (custody = "deleted")
    BY <1>2
  <2> QED
    BY <1>2, <1>4, <2>1 DEF OwnInv, Parts, LeaseOK, Runs
<1>12. OwnedOK'
  BY <1>1, <1>2, <1>3, <1>4 DEF OwnInv, Parts, OwnedOK, Owned, Named, Active, Launches, Runs
<1> QED
  BY <1>5, <1>6, <1>7, <1>8, <1>9, <1>10, <1>11, <1>12 DEF Parts

-----------------------------------------------------------------------------
(* The session, its crash and its close.                                   *)

\* No provider is none.
LEMMA NoneLivesNot == ASSUME ProcessTypes PROVE None \notin living
<1>1. living \subseteq 1 .. spawned /\ spawned \in 0 .. MaxSpawns
  BY DEF ProcessTypes
<1>2. 1 .. spawned \subseteq 1 .. MaxSpawns
  BY <1>1, OwnershipAssumption
<1> QED
  BY <1>1, <1>2, OwnershipAssumption

\* A hub that runs the session is the only one that is active.
LEMMA RunsAlone ==
  ASSUME OwnInv, NEW h \in Hubs, Runs(h)
  PROVE  /\ h \in up /\ custody # "absent" /\ mirror # "absent"
         /\ \A g \in Hubs : closing[g] = "no" /\ launch[g].at = "no" /\ launch[g].provider = None
                            /\ pass[g].at # "closed"
         /\ \A g \in Hubs \ {h} : ~Runs(g)
<1>1. /\ h \in up /\ \A g \in Hubs : closing[g] = "no" /\ launch[g].at = "no" /\ pass[g].at # "closed"
      /\ \A g \in Hubs \ {h} : ~Runs(g)
  BY DEF OwnInv, Parts, OneActive, Active, Launches, Passes
<1>2. \A g \in Hubs : launch[g].provider = None
  BY <1>1 DEF OwnInv, Parts, Launched, LaunchOK
<1>3. custody # "absent" /\ mirror # "absent"
  BY DEF OwnInv, Parts, Untouched, MirrorOK, Runs
<1> QED
  BY <1>1, <1>2, <1>3

\* While a hub closes the session, nobody is active.
LEMMA ClosesAlone ==
  ASSUME OwnInv, NEW h \in Hubs, closing[h] # "no"
  PROVE  /\ custody # "absent"
         /\ \A g \in Hubs : launch[g].at = "no" /\ launch[g].provider = None /\ ~Runs(g)
<1>1. custody # "absent" /\ \A g \in Hubs : launch[g].at = "no" /\ ~Runs(g)
  BY DEF OwnInv, Parts, OneActive, Active, Launches, Untouched
<1> QED
  BY <1>1 DEF OwnInv, Parts, Launched, LaunchOK

\* A turn of a running session writes the mirror alone.
LEMMA TurnKeeps ==
  ASSUME OwnInv, Secured, NEW h \in Hubs, Turn(h)
  PROVE  Parts'
<1>1. LaunchType /\ SessionType /\ PassType /\ ClosingType /\ FileTypes /\ ProcessTypes
  BY TypeParts DEF OwnInv
<1>2. /\ session[h].at = "running" /\ mirror' = "active"
      /\ UNCHANGED <<custody, lease, processes, launch, session, closing, pass>>
  BY DEF Turn
<1>3. /\ h \in up /\ custody # "absent" /\ mirror # "absent"
      /\ \A g \in Hubs : closing[g] = "no" /\ launch[g].at = "no" /\ launch[g].provider = None
                         /\ pass[g].at # "closed"
      /\ \A g \in Hubs \ {h} : ~Runs(g)
  BY <1>2, RunsAlone DEF Runs
<1>4. Untouched'
  BY <1>1, <1>2, <1>3 DEF OwnInv, Parts, Untouched
<1>5. OneActive'
  BY <1>1, <1>2, <1>3 DEF OwnInv, Parts, OneActive, Active, Launches, Runs
<1>6. Closes'
  BY <1>1, <1>2, <1>3 DEF OwnInv, Parts, Closes
<1>7. MirrorOK'
  BY <1>1, <1>2, <1>3 DEF OwnInv, Parts, MirrorOK, Runs
<1>8. Passes'
  BY <1>1, <1>2, <1>3 DEF OwnInv, Parts, Passes, Launching, Recovering, Owned, Active, Launches, Runs
<1>9. Launched'
  BY <1>1, <1>2, <1>3 DEF OwnInv, Parts, Launched, LaunchOK, Owned, Launches, Named
<1>10. LeaseOK'
  BY <1>1, <1>2, <1>3 DEF OwnInv, Parts, LeaseOK, Launching, Runs
<1>11. OwnedOK'
  BY <1>1, <1>2, <1>3 DEF OwnInv, Parts, OwnedOK, Owned, Named, Active, Launches, Runs
<1> QED
  BY <1>4, <1>5, <1>6, <1>7, <1>8, <1>9, <1>10, <1>11 DEF Parts

\* A crash leaves custody and lease to the close, and nobody active.
LEMMA CrashSeenKeeps ==
  ASSUME OwnInv, Secured, NEW h \in Hubs, NEW proven \in BOOLEAN, CrashSeen(h, proven)
  PROVE  Parts'
<1>1. LaunchType /\ SessionType /\ PassType /\ ClosingType /\ FileTypes /\ ProcessTypes
  BY TypeParts DEF OwnInv
<1>2. /\ session[h].at = "running" /\ session'[h].at \in {"error", "orphaned"}
      /\ session'[h].provider = session[h].provider /\ mirror' \in {"error", "orphaned"}
      /\ \A g \in Hubs \ {h} : session'[g] = session[g]
      /\ living' = IF proven THEN living \ {session[h].provider} ELSE living
      /\ UNCHANGED <<custody, lease, up, spawned, unowned, launch, closing, pass>>
  BY <1>1, SessionMoves DEF CrashSeen, Over
<1>3. /\ h \in up /\ custody # "absent" /\ mirror # "absent"
      /\ \A g \in Hubs : closing[g] = "no" /\ launch[g].at = "no" /\ launch[g].provider = None
                         /\ pass[g].at # "closed"
      /\ \A g \in Hubs \ {h} : ~Runs(g)
  BY <1>2, RunsAlone DEF Runs
<1>4. \A g \in Hubs : ~Runs(g)'
  BY <1>2, <1>3 DEF Runs
<1>5. Owned' \subseteq Owned
  BY <1>2 DEF Owned
<1>6. Untouched'
  BY <1>1, <1>2, <1>3, <1>4, <1>5 DEF OwnInv, Parts, Untouched
<1>7. OneActive'
  BY <1>1, <1>2, <1>3, <1>4, <1>5 DEF OwnInv, Parts, OneActive, Active, Launches, Runs
<1>8. Closes'
  BY <1>1, <1>2, <1>3, <1>4, <1>5 DEF OwnInv, Parts, Closes
<1>9. MirrorOK'
  BY <1>1, <1>2, <1>3, <1>4, <1>5 DEF OwnInv, Parts, MirrorOK, Runs
<1>10. Passes'
  BY <1>1, <1>2, <1>3, <1>4, <1>5 DEF OwnInv, Parts, Passes, Launching, Recovering, Owned, Active, Launches, Runs
<1>11. Launched'
  BY <1>1, <1>2, <1>3, <1>4, <1>5 DEF OwnInv, Parts, Launched, LaunchOK, Owned, Launches, Named
<1>12. LeaseOK'
  BY <1>1, <1>2, <1>3, <1>4, <1>5 DEF OwnInv, Parts, LeaseOK, Launching, Runs
<1>13. OwnedOK'
  BY <1>1, <1>2, <1>3, <1>4, <1>5 DEF OwnInv, Parts, OwnedOK, Owned, Named, Active, Launches, Runs
<1> QED
  BY <1>6, <1>7, <1>8, <1>9, <1>10, <1>11, <1>12, <1>13 DEF Parts

\* A stop that is proven leaves no provider that the lease names; one that is not leaves the lease.
LEMMA StopKeeps ==
  ASSUME OwnInv, Secured, NEW h \in Hubs, NEW proven \in BOOLEAN, Stop(h, proven)
  PROVE  Parts'
<1>1. LaunchType /\ SessionType /\ PassType /\ ClosingType /\ FileTypes /\ ProcessTypes
  BY TypeParts DEF OwnInv
<1>2. /\ session[h].at \in {"running", "orphaned"}
      /\ session'[h].provider = session[h].provider
      /\ \/ /\ session'[h].at = "closed" /\ mirror' = "closed" /\ living' = living \ {session[h].provider}
            /\ closing'[h] = "finalizeClosed"
         \/ /\ session'[h].at = "orphaned" /\ mirror' = "orphaned" /\ living' = living
            /\ closing'[h] = "finalizeOther"
      /\ \A g \in Hubs \ {h} : session'[g] = session[g] /\ closing'[g] = closing[g]
      /\ UNCHANGED <<custody, lease, up, spawned, unowned, launch, pass>>
  <2>1. /\ session'[h].at = IF proven THEN "closed" ELSE "orphaned"
        /\ session'[h].provider = session[h].provider
        /\ \A g \in Hubs \ {h} : session'[g] = session[g]
        /\ mirror' = IF proven THEN "closed" ELSE "orphaned"
    BY <1>1, SessionMoves DEF Stop, Over
  <2>2. /\ closing'[h] = IF proven THEN "finalizeClosed" ELSE "finalizeOther"
        /\ \A g \in Hubs \ {h} : closing'[g] = closing[g]
    BY <1>1, ClosingMoves DEF Stop, ClosePlaces
  <2>3. /\ session[h].at \in {"running", "orphaned"}
        /\ living' = IF proven THEN living \ {session[h].provider} ELSE living
        /\ UNCHANGED <<custody, lease, up, spawned, unowned, launch, pass>>
    BY DEF Stop
  <2> QED
    BY <2>1, <2>2, <2>3
<1>3. /\ custody # "absent" /\ \A g \in Hubs : launch[g].at = "no" /\ launch[g].provider = None
      /\ \A g \in Hubs \ {h} : ~Runs(g)
  <2>1. CASE Runs(h)
    BY <2>1, RunsAlone
  <2>2. CASE ~Runs(h)
    <3>1. \A g \in Hubs : launch[g].at = "no" /\ ~Runs(g)
      BY <2>2 DEF Stop, MayClose, Launching, Secured, Runs
    <3> QED
      BY <1>2, <3>1 DEF OwnInv, Parts, Launched, LaunchOK, Untouched
  <2> QED
    BY <2>1, <2>2
<1>4. \A g \in Hubs : ~Runs(g)' /\ launch'[g].at = "no"
  BY <1>2, <1>3 DEF Runs
<1>5. /\ Owned' \subseteq Owned
      /\ mirror' = "closed" /\ lease # None => lease.provider \notin living' 
  <2>1. custody = "deleted" \/ lease = [provider |-> session[h].provider, hub |-> h]
    BY <1>2 DEF OwnInv, Parts, LeaseOK
  <2>2. custody = "deleted" => lease = None
    BY DEF OwnInv, Parts, OwnedOK
  <2> QED
    BY <1>2, <2>1, <2>2 DEF Owned
<1>6. Untouched'
  BY <1>1, <1>2, <1>3, <1>4, <1>5 DEF OwnInv, Parts, Untouched
<1>7. OneActive'
  BY <1>1, <1>2, <1>3, <1>4, <1>5 DEF OwnInv, Parts, OneActive, Active, Launches, Runs
<1>8. Closes'
  BY <1>1, <1>2, <1>3, <1>4, <1>5 DEF OwnInv, Parts, Closes
<1>9. MirrorOK'
  BY <1>1, <1>2, <1>3, <1>4, <1>5 DEF OwnInv, Parts, MirrorOK, Runs
<1>10. Passes'
  BY <1>1, <1>2, <1>3, <1>4, <1>5 DEF OwnInv, Parts, Passes, Launching, Recovering, Owned, Active, Launches, Runs
<1>11. Launched'
  BY <1>1, <1>2, <1>3, <1>4, <1>5 DEF OwnInv, Parts, Launched, LaunchOK, Owned, Launches, Named
<1>12. LeaseOK'
  BY <1>1, <1>2, <1>3, <1>4, <1>5 DEF OwnInv, Parts, LeaseOK, Launching, Runs
<1>13. OwnedOK'
  BY <1>1, <1>2, <1>3, <1>4, <1>5 DEF OwnInv, Parts, OwnedOK, Owned, Named, Active, Launches, Runs
<1> QED
  BY <1>6, <1>7, <1>8, <1>9, <1>10, <1>11, <1>12, <1>13 DEF Parts

\* The close of a session that is over finds nobody active.
LEMMA CloseOverKeeps ==
  ASSUME OwnInv, Secured, NEW h \in Hubs, CloseOver(h)
  PROVE  Parts'
<1>1. LaunchType /\ SessionType /\ PassType /\ ClosingType /\ FileTypes /\ ProcessTypes
  BY TypeParts DEF OwnInv
<1>2. /\ session[h].at \in Over /\ closing'[h] \in {"finalizeClosed", "finalizeOther"}
      /\ closing'[h] = "finalizeClosed" => session[h].at = "closed"
      /\ \A g \in Hubs \ {h} : closing'[g] = closing[g]
      /\ UNCHANGED <<files, processes, launch, session, pass>>
  BY <1>1, ClosingMoves DEF CloseOver, ClosePlaces
<1>3. custody # "absent"
  BY <1>2 DEF OwnInv, Parts, Untouched, Over
<1>4. \A g \in Hubs : ~Active(g)
  BY <1>2 DEF CloseOver, MayClose, Secured, Launching, Active, Launches, Runs, Over
<1>5. Untouched'
  BY <1>1, <1>2, <1>3, <1>4 DEF OwnInv, Parts, Untouched
<1>6. OneActive'
  BY <1>1, <1>2, <1>3, <1>4 DEF OwnInv, Parts, OneActive, Active, Launches, Runs
<1>7. Closes'
  BY <1>1, <1>2, <1>3, <1>4 DEF OwnInv, Parts, Closes
<1>8. MirrorOK'
  BY <1>1, <1>2, <1>3, <1>4 DEF OwnInv, Parts, MirrorOK, Runs
<1>9. Passes'
  BY <1>1, <1>2, <1>3, <1>4 DEF OwnInv, Parts, Passes, Launching, Recovering, Owned, Active, Launches, Runs
<1>10. Launched'
  BY <1>1, <1>2, <1>3, <1>4 DEF OwnInv, Parts, Launched, LaunchOK, Owned, Launches, Named
<1>11. LeaseOK'
  BY <1>1, <1>2, <1>3, <1>4 DEF OwnInv, Parts, LeaseOK, Launching, Runs
<1>12. OwnedOK'
  BY <1>1, <1>2, <1>3, <1>4 DEF OwnInv, Parts, OwnedOK, Owned, Named, Active, Launches, Runs
<1> QED
  BY <1>5, <1>6, <1>7, <1>8, <1>9, <1>10, <1>11, <1>12 DEF Parts

\* A close that finalizes custody finds nobody active.
LEMMA FinalizeCloseKeeps ==
  ASSUME OwnInv, Secured, NEW h \in Hubs, FinalizeClose(h)
  PROVE  Parts'
<1>1. LaunchType /\ SessionType /\ PassType /\ ClosingType /\ FileTypes /\ ProcessTypes
  BY TypeParts DEF OwnInv
<1>2. /\ closing[h] \in {"finalizeClosed", "finalizeOther"}
      /\ closing'[h] = IF closing[h] = "finalizeClosed" THEN "release" ELSE "no"
      /\ \A g \in Hubs \ {h} : closing'[g] = closing[g]
      /\ custody' = IF custody = "live" THEN "closed" ELSE custody
      /\ UNCHANGED <<mirror, lease, processes, launch, session, pass>>
  BY <1>1, ClosingMoves DEF FinalizeClose, Finalize, ClosePlaces
<1>3. /\ custody # "absent"
      /\ \A g \in Hubs : launch[g].at = "no" /\ launch[g].provider = None /\ ~Runs(g)
  BY <1>2, ClosesAlone
<1>4. (custody' = "deleted") = (custody = "deleted")
  BY <1>2
<1>5. Untouched'
  BY <1>1, <1>2, <1>3, <1>4 DEF OwnInv, Parts, Untouched
<1>6. OneActive'
  BY <1>1, <1>2, <1>3, <1>4 DEF OwnInv, Parts, OneActive, Active, Launches, Runs
<1>7. Closes'
  BY <1>1, <1>2, <1>3, <1>4 DEF OwnInv, Parts, Closes
<1>8. MirrorOK'
  BY <1>1, <1>2, <1>3, <1>4 DEF OwnInv, Parts, MirrorOK, Runs
<1>9. Passes'
  BY <1>1, <1>2, <1>3, <1>4 DEF OwnInv, Parts, Passes, Launching, Recovering, Owned, Active, Launches, Runs
<1>10. Launched'
  BY <1>1, <1>2, <1>3, <1>4 DEF OwnInv, Parts, Launched, LaunchOK, Owned, Launches, Named
<1>11. LeaseOK'
  BY <1>1, <1>2, <1>3, <1>4 DEF OwnInv, Parts, LeaseOK, Launching, Runs
<1>12. OwnedOK'
  BY <1>1, <1>2, <1>3, <1>4 DEF OwnInv, Parts, OwnedOK, Owned, Named, Active, Launches, Runs
<1> QED
  BY <1>5, <1>6, <1>7, <1>8, <1>9, <1>10, <1>11, <1>12 DEF Parts

\* The lease that is released is that of a dead provider.
LEMMA ReleaseKeeps ==
  ASSUME OwnInv, Secured, NEW h \in Hubs, Release(h)
  PROVE  Parts'
<1>1. LaunchType /\ SessionType /\ PassType /\ ClosingType /\ FileTypes /\ ProcessTypes
  BY TypeParts DEF OwnInv
<1>2. /\ h \in up /\ closing[h] = "release" /\ closing'[h] = "no"
      /\ \A g \in Hubs \ {h} : closing'[g] = closing[g]
      /\ lease' = IF (lease # None /\ lease.hub = h) /\ mirror = "closed" THEN None ELSE lease
      /\ UNCHANGED <<custody, mirror, processes, launch, session, pass>>
  BY <1>1, ClosingMoves DEF Release, ClosePlaces
<1>3. /\ custody # "absent"
      /\ \A g \in Hubs : launch[g].at = "no" /\ launch[g].provider = None /\ ~Runs(g)
  BY <1>2, ClosesAlone
<1>4. session[h].at = "closed"
  BY <1>2 DEF OwnInv, Parts, Closes
<1>5. lease' # lease => /\ lease' = None /\ Owned = {}
                      /\ \A g \in Hubs : session[g].at \notin {"running", "orphaned"} \/ custody = "deleted"
  <2> SUFFICES ASSUME lease # None, lease.hub = h, mirror = "closed"
               PROVE  /\ Owned = {}
                      /\ \A g \in Hubs : session[g].at \notin {"running", "orphaned"} \/ custody = "deleted"
    BY <1>2
  <2>1. lease.provider \notin living
    BY <1>2, <1>3 DEF OwnInv, Parts, LeaseOK, Launching
  <2>2. None \notin living
    BY <1>1, NoneLivesNot
  <2>3. Owned = {}
    BY <1>3, <2>1, <2>2 DEF OwnInv, Parts, OwnedOK, Owned, Named
  <2>4. ASSUME NEW g \in Hubs, session[g].at \in {"running", "orphaned"} PROVE custody = "deleted"
    BY <1>4, <2>4 DEF OwnInv, Parts, LeaseOK
  <2> QED
    BY <2>3, <2>4
<1>6. Untouched'
  BY <1>1, <1>2, <1>3, <1>4, <1>5 DEF OwnInv, Parts, Untouched
<1>7. OneActive'
  BY <1>1, <1>2, <1>3, <1>4, <1>5 DEF OwnInv, Parts, OneActive, Active, Launches, Runs
<1>8. Closes'
  BY <1>1, <1>2, <1>3, <1>4, <1>5 DEF OwnInv, Parts, Closes
<1>9. MirrorOK'
  BY <1>1, <1>2, <1>3, <1>4, <1>5 DEF OwnInv, Parts, MirrorOK, Runs
<1>10. Passes'
  BY <1>1, <1>2, <1>3, <1>4, <1>5 DEF OwnInv, Parts, Passes, Launching, Recovering, Owned, Active, Launches, Runs
<1>11. Launched'
  BY <1>1, <1>2, <1>3, <1>4, <1>5 DEF OwnInv, Parts, Launched, LaunchOK, Owned, Launches, Named
<1>12. LeaseOK'
  BY <1>1, <1>2, <1>3, <1>4, <1>5 DEF OwnInv, Parts, LeaseOK, Launching, Runs
<1>13. OwnedOK'
  BY <1>1, <1>2, <1>3, <1>4, <1>5 DEF OwnInv, Parts, OwnedOK, Owned, Named, Active, Launches, Runs
<1> QED
  BY <1>6, <1>7, <1>8, <1>9, <1>10, <1>11, <1>12, <1>13 DEF Parts

\* A decision changes custody that is closed.
LEMMA HandoffKeeps ==
  ASSUME OwnInv, Secured, Handoff
  PROVE  Parts'
<1>1. LaunchType /\ SessionType /\ PassType /\ ClosingType /\ FileTypes /\ ProcessTypes
  BY TypeParts DEF OwnInv
<1>2. /\ custody = "closed" /\ custody' = "decided"
      /\ UNCHANGED <<mirror, lease, processes, launch, session, closing, pass>>
  BY DEF Handoff
<1>3. Untouched'
  BY <1>1, <1>2 DEF OwnInv, Parts, Untouched
<1>4. OneActive'
  BY <1>1, <1>2 DEF OwnInv, Parts, OneActive, Active, Launches, Runs
<1>5. Closes'
  BY <1>1, <1>2 DEF OwnInv, Parts, Closes
<1>6. MirrorOK'
  BY <1>1, <1>2 DEF OwnInv, Parts, MirrorOK, Runs
<1>7. Passes'
  BY <1>1, <1>2 DEF OwnInv, Parts, Passes, Launching, Recovering, Owned, Active, Launches, Runs
<1>8. Launched'
  BY <1>1, <1>2 DEF OwnInv, Parts, Launched, LaunchOK, Owned, Launches, Named
<1>9. LeaseOK'
  BY <1>1, <1>2 DEF OwnInv, Parts, LeaseOK, Launching, Runs
<1>10. OwnedOK'
  BY <1>1, <1>2 DEF OwnInv, Parts, OwnedOK, Owned, Named, Active, Launches, Runs
<1> QED
  BY <1>3, <1>4, <1>5, <1>6, <1>7, <1>8, <1>9, <1>10 DEF Parts

-----------------------------------------------------------------------------
(* Recovery and gc.                                                        *)

\* A session of which there is nothing is not recovered.
LEMMA RecoversSomething ==
  ASSUME OwnInv, NEW h \in Hubs, pass[h].at \notin {"no", "load", "gc"} PROVE custody # "absent"
BY DEF OwnInv, Parts, Untouched

\* A pass begins with nothing read.
LEMMA BeginPassKeeps ==
  ASSUME OwnInv, Secured, NEW h \in Hubs, BeginPass(h)
  PROVE  Parts'
<1>1. LaunchType /\ SessionType /\ PassType /\ ClosingType /\ FileTypes /\ ProcessTypes
  BY TypeParts DEF OwnInv
<1>2. /\ pass'[h].at = "load" /\ ~pass'[h].mirrored
      /\ \A g \in Hubs \ {h} : pass'[g] = pass[g]
      /\ UNCHANGED <<files, processes, launch, session, closing>>
  BY <1>1 DEF BeginPass, PassType
<1>3. Untouched'
  BY <1>1, <1>2 DEF OwnInv, Parts, Untouched
<1>4. OneActive'
  BY <1>1, <1>2 DEF OwnInv, Parts, OneActive, Active, Launches, Runs
<1>5. Closes'
  BY <1>1, <1>2 DEF OwnInv, Parts, Closes
<1>6. MirrorOK'
  BY <1>1, <1>2 DEF OwnInv, Parts, MirrorOK, Runs
<1>7. Passes'
  BY <1>1, <1>2 DEF OwnInv, Parts, Passes, Launching, Recovering, Owned, Active, Launches, Runs
<1>8. Launched'
  BY <1>1, <1>2 DEF OwnInv, Parts, Launched, LaunchOK, Owned, Launches, Named
<1>9. LeaseOK'
  BY <1>1, <1>2 DEF OwnInv, Parts, LeaseOK, Launching, Runs
<1>10. OwnedOK'
  BY <1>1, <1>2 DEF OwnInv, Parts, OwnedOK, Owned, Named, Active, Launches, Runs
<1> QED
  BY <1>3, <1>4, <1>5, <1>6, <1>7, <1>8, <1>9, <1>10 DEF Parts

\* Live custody is recovered while no resume launches the session.
LEMMA LoadCustodyKeeps ==
  ASSUME OwnInv, Secured, NEW h \in Hubs, LoadCustody(h)
  PROVE  Parts'
<1>1. LaunchType /\ SessionType /\ PassType /\ ClosingType /\ FileTypes /\ ProcessTypes
  BY TypeParts DEF OwnInv
<1>2. /\ pass[h].at = "load" /\ pass'[h].at \in {"mirror", "gc"}
      /\ pass'[h].mirrored = pass[h].mirrored
      /\ \A g \in Hubs \ {h} : pass'[g] = pass[g]
      /\ pass'[h].at = "mirror" => custody = "live"
      /\ mirror = "absent" \/ ~Launching
      /\ UNCHANGED <<files, processes, launch, session, closing>>
  BY <1>1, PassMoves DEF LoadCustody, PassPlaces, Secured
<1>3. Untouched'
  BY <1>1, <1>2 DEF OwnInv, Parts, Untouched
<1>4. OneActive'
  BY <1>1, <1>2 DEF OwnInv, Parts, OneActive, Active, Launches, Runs
<1>5. Closes'
  BY <1>1, <1>2 DEF OwnInv, Parts, Closes
<1>6. MirrorOK'
  BY <1>1, <1>2 DEF OwnInv, Parts, MirrorOK, Runs
<1>7. Passes'
  BY <1>1, <1>2 DEF OwnInv, Parts, Passes, Launching, Recovering, Owned, Active, Launches, Runs
<1>8. Launched'
  BY <1>1, <1>2 DEF OwnInv, Parts, Launched, LaunchOK, Owned, Launches, Named
<1>9. LeaseOK'
  BY <1>1, <1>2 DEF OwnInv, Parts, LeaseOK, Launching, Runs
<1>10. OwnedOK'
  BY <1>1, <1>2 DEF OwnInv, Parts, OwnedOK, Owned, Named, Active, Launches, Runs
<1> QED
  BY <1>3, <1>4, <1>5, <1>6, <1>7, <1>8, <1>9, <1>10 DEF Parts

\* A mirror that says closed is that of a session nobody runs or resumes.
LEMMA ReadMirrorKeeps ==
  ASSUME OwnInv, Secured, NEW h \in Hubs, ReadMirror(h)
  PROVE  Parts'
<1>1. LaunchType /\ SessionType /\ PassType /\ ClosingType /\ FileTypes /\ ProcessTypes
  BY TypeParts DEF OwnInv
<1>2. /\ pass[h].at = "mirror" /\ pass'[h].mirrored = (mirror # "absent")
      /\ pass'[h].at = IF mirror = "closed" THEN "closed" ELSE "lease"
      /\ \A g \in Hubs \ {h} : pass'[g] = pass[g]
      /\ UNCHANGED <<files, processes, launch, session, closing>>
  BY <1>1 DEF ReadMirror, PassType
<1>3. Recovering /\ custody # "absent"
  BY <1>2, RecoversSomething DEF Recovering
<1>4. mirror = "closed" => \A g \in Hubs : ~Active(g)
  BY <1>3 DEF OwnInv, Parts, Passes, MirrorOK, Launching, Active, Launches
<1>5. Untouched'
  BY <1>1, <1>2, <1>3, <1>4 DEF OwnInv, Parts, Untouched
<1>6. OneActive'
  BY <1>1, <1>2, <1>3, <1>4 DEF OwnInv, Parts, OneActive, Active, Launches, Runs
<1>7. Closes'
  BY <1>1, <1>2, <1>3, <1>4 DEF OwnInv, Parts, Closes
<1>8. MirrorOK'
  BY <1>1, <1>2, <1>3, <1>4 DEF OwnInv, Parts, MirrorOK, Runs
<1>9. Passes'
  BY <1>1, <1>2, <1>3, <1>4 DEF OwnInv, Parts, Passes, Launching, Recovering, Owned, Active, Launches, Runs
<1>10. Launched'
  BY <1>1, <1>2, <1>3, <1>4 DEF OwnInv, Parts, Launched, LaunchOK, Owned, Launches, Named
<1>11. LeaseOK'
  BY <1>1, <1>2, <1>3, <1>4 DEF OwnInv, Parts, LeaseOK, Launching, Runs
<1>12. OwnedOK'
  BY <1>1, <1>2, <1>3, <1>4 DEF OwnInv, Parts, OwnedOK, Owned, Named, Active, Launches, Runs
<1> QED
  BY <1>5, <1>6, <1>7, <1>8, <1>9, <1>10, <1>11, <1>12 DEF Parts

\* A lease that is proven dead leaves no provider that is owned.
LEMMA ReadLeaseKeeps ==
  ASSUME OwnInv, Secured, NEW h \in Hubs, ReadLease(h)
  PROVE  Parts'
<1>1. LaunchType /\ SessionType /\ PassType /\ ClosingType /\ FileTypes /\ ProcessTypes
  BY TypeParts DEF OwnInv
<1>2. /\ pass[h].at = "lease" /\ pass'[h].at = IF lease # None /\ ProvenDead(h) THEN "dead" ELSE "gc"
      /\ pass'[h].mirrored = pass[h].mirrored
      /\ \A g \in Hubs \ {h} : pass'[g] = pass[g]
      /\ UNCHANGED <<files, processes, launch, session, closing>>
  BY <1>1, PassMoves DEF ReadLease, PassPlaces
<1>3. Recovering /\ custody # "absent" /\ None \notin living
  BY <1>1, <1>2, RecoversSomething, NoneLivesNot DEF Recovering
<1>4. lease # None /\ ProvenDead(h) =>
        Owned = {} /\ \A g \in Hubs : launch[g].at \notin {"open", "spawned"}
  <2> SUFFICES ASSUME lease # None, lease.provider \notin living
               PROVE  Owned = {} /\ \A g \in Hubs : launch[g].at \notin {"open", "spawned"}
    BY DEF ProvenDead
  <2>1. \A g \in Hubs : launch[g].at # "no" =>
          launch[g].at = "abandon" \/ (launch[g].at \in {"leased", "failing"} /\ launch[g].provider = lease.provider)
    BY <1>3 DEF OwnInv, Parts, Passes, Launched, LaunchOK, Launches, Launching
  <2>2. \A g \in Hubs : launch[g].provider \notin Owned
    BY <1>3, <2>1 DEF OwnInv, Parts, Launched, LaunchOK, Owned
  <2>3. \A p \in Owned : ~Named(p)
    BY DEF Named, Owned
  <2> QED
    BY <2>1, <2>2, <2>3 DEF OwnInv, Parts, OwnedOK
<1>5. Untouched'
  BY <1>1, <1>2, <1>3, <1>4 DEF OwnInv, Parts, Untouched
<1>6. OneActive'
  BY <1>1, <1>2, <1>3, <1>4 DEF OwnInv, Parts, OneActive, Active, Launches, Runs
<1>7. Closes'
  BY <1>1, <1>2, <1>3, <1>4 DEF OwnInv, Parts, Closes
<1>8. MirrorOK'
  BY <1>1, <1>2, <1>3, <1>4 DEF OwnInv, Parts, MirrorOK, Runs
<1>9. Passes'
  BY <1>1, <1>2, <1>3, <1>4 DEF OwnInv, Parts, Passes, Launching, Recovering, Owned, Active, Launches, Runs
<1>10. Launched'
  BY <1>1, <1>2, <1>3, <1>4 DEF OwnInv, Parts, Launched, LaunchOK, Owned, Launches, Named
<1>11. LeaseOK'
  BY <1>1, <1>2, <1>3, <1>4 DEF OwnInv, Parts, LeaseOK, Launching, Runs
<1>12. OwnedOK'
  BY <1>1, <1>2, <1>3, <1>4 DEF OwnInv, Parts, OwnedOK, Owned, Named, Active, Launches, Runs
<1> QED
  BY <1>5, <1>6, <1>7, <1>8, <1>9, <1>10, <1>11, <1>12 DEF Parts

\* The custody of a session that nobody runs is closed.
LEMMA RecoverClosedKeeps ==
  ASSUME OwnInv, Secured, NEW h \in Hubs, RecoverClosed(h)
  PROVE  Parts'
<1>1. LaunchType /\ SessionType /\ PassType /\ ClosingType /\ FileTypes /\ ProcessTypes
  BY TypeParts DEF OwnInv
<1>2. /\ pass[h].at = "closed" /\ pass'[h].at = "gc"
      /\ pass'[h].mirrored = pass[h].mirrored
      /\ \A g \in Hubs \ {h} : pass'[g] = pass[g]
      /\ custody' = IF custody = "live" THEN "closed" ELSE custody
      /\ UNCHANGED <<mirror, lease, processes, launch, session, closing>>
  BY <1>1, PassMoves DEF RecoverClosed, Finalize, PassPlaces
<1>3. /\ custody # "absent" /\ (custody' = "deleted") = (custody = "deleted")
      /\ \A g \in Hubs : ~Active(g) /\ launch[g].at = "no"
  BY <1>2, RecoversSomething DEF OwnInv, Parts, Passes, Active, Launches
<1>4. Untouched'
  BY <1>1, <1>2, <1>3 DEF OwnInv, Parts, Untouched
<1>5. OneActive'
  BY <1>1, <1>2, <1>3 DEF OwnInv, Parts, OneActive, Active, Launches, Runs
<1>6. Closes'
  BY <1>1, <1>2, <1>3 DEF OwnInv, Parts, Closes
<1>7. MirrorOK'
  BY <1>1, <1>2, <1>3 DEF OwnInv, Parts, MirrorOK, Runs
<1>8. Passes'
  BY <1>1, <1>2, <1>3 DEF OwnInv, Parts, Passes, Launching, Recovering, Owned, Active, Launches, Runs
<1>9. Launched'
  BY <1>1, <1>2, <1>3 DEF OwnInv, Parts, Launched, LaunchOK, Owned, Launches, Named
<1>10. LeaseOK'
  BY <1>1, <1>2, <1>3 DEF OwnInv, Parts, LeaseOK, Launching, Runs
<1>11. OwnedOK'
  BY <1>1, <1>2, <1>3 DEF OwnInv, Parts, OwnedOK, Owned, Named, Active, Launches, Runs
<1> QED
  BY <1>4, <1>5, <1>6, <1>7, <1>8, <1>9, <1>10, <1>11 DEF Parts

\* Custody is closed when no provider is owned, and no launch has yet to spawn or record one.
LEMMA RecoverDeadKeeps ==
  ASSUME OwnInv, Secured, NEW h \in Hubs, RecoverDead(h)
  PROVE  Parts'
<1>1. LaunchType /\ SessionType /\ PassType /\ ClosingType /\ FileTypes /\ ProcessTypes
  BY TypeParts DEF OwnInv
<1>2. /\ pass[h].at = "dead" /\ pass'[h].at = IF pass[h].mirrored THEN "rewrite" ELSE "gc"
      /\ pass'[h].mirrored = pass[h].mirrored
      /\ \A g \in Hubs \ {h} : pass'[g] = pass[g]
      /\ custody' = IF custody = "live" THEN "closed" ELSE custody
      /\ UNCHANGED <<mirror, lease, processes, launch, session, closing>>
  BY <1>1, PassMoves DEF RecoverDead, Finalize, PassPlaces
<1>3. /\ custody # "absent" /\ (custody' = "deleted") = (custody = "deleted")
      /\ Owned = {} /\ (\A g \in Hubs : launch[g].at \notin {"open", "spawned"})
      /\ ~(Launching /\ mirror # "absent")
  BY <1>2, RecoversSomething DEF OwnInv, Parts, Passes, Recovering
<1>4. Untouched'
  BY <1>1, <1>2, <1>3 DEF OwnInv, Parts, Untouched
<1>5. OneActive'
  BY <1>1, <1>2, <1>3 DEF OwnInv, Parts, OneActive, Active, Launches, Runs
<1>6. Closes'
  BY <1>1, <1>2, <1>3 DEF OwnInv, Parts, Closes
<1>7. MirrorOK'
  BY <1>1, <1>2, <1>3 DEF OwnInv, Parts, MirrorOK, Runs
<1>8. Passes'
  BY <1>1, <1>2, <1>3 DEF OwnInv, Parts, Passes, Launching, Recovering, Owned, Active, Launches, Runs
<1>9. Launched'
  BY <1>1, <1>2, <1>3 DEF OwnInv, Parts, Launched, LaunchOK, Owned, Launches, Named
<1>10. LeaseOK'
  BY <1>1, <1>2, <1>3 DEF OwnInv, Parts, LeaseOK, Launching, Runs
<1>11. OwnedOK'
  BY <1>1, <1>2, <1>3 DEF OwnInv, Parts, OwnedOK, Owned, Named, Active, Launches, Runs
<1> QED
  BY <1>4, <1>5, <1>6, <1>7, <1>8, <1>9, <1>10, <1>11 DEF Parts

\* A mirror is rewritten where there was one.
LEMMA RewriteKeeps ==
  ASSUME OwnInv, Secured, NEW h \in Hubs, Rewrite(h)
  PROVE  Parts'
<1>1. LaunchType /\ SessionType /\ PassType /\ ClosingType /\ FileTypes /\ ProcessTypes
  BY TypeParts DEF OwnInv
<1>2. /\ pass[h].at = "rewrite" /\ pass'[h].at = "gc"
      /\ pass'[h].mirrored = pass[h].mirrored
      /\ \A g \in Hubs \ {h} : pass'[g] = pass[g]
      /\ mirror' = "orphaned"
      /\ UNCHANGED <<custody, lease, processes, launch, session, closing>>
  BY <1>1, PassMoves DEF Rewrite, PassPlaces
<1>3. mirror # "absent" /\ custody # "absent"
  BY <1>2, RecoversSomething DEF OwnInv, Parts, MirrorOK
<1>4. Untouched'
  BY <1>1, <1>2, <1>3 DEF OwnInv, Parts, Untouched
<1>5. OneActive'
  BY <1>1, <1>2, <1>3 DEF OwnInv, Parts, OneActive, Active, Launches, Runs
<1>6. Closes'
  BY <1>1, <1>2, <1>3 DEF OwnInv, Parts, Closes
<1>7. MirrorOK'
  BY <1>1, <1>2, <1>3 DEF OwnInv, Parts, MirrorOK, Runs
<1>8. Passes'
  BY <1>1, <1>2, <1>3 DEF OwnInv, Parts, Passes, Launching, Recovering, Owned, Active, Launches, Runs
<1>9. Launched'
  BY <1>1, <1>2, <1>3 DEF OwnInv, Parts, Launched, LaunchOK, Owned, Launches, Named
<1>10. LeaseOK'
  BY <1>1, <1>2, <1>3 DEF OwnInv, Parts, LeaseOK, Launching, Runs
<1>11. OwnedOK'
  BY <1>1, <1>2, <1>3 DEF OwnInv, Parts, OwnedOK, Owned, Named, Active, Launches, Runs
<1> QED
  BY <1>4, <1>5, <1>6, <1>7, <1>8, <1>9, <1>10, <1>11 DEF Parts

\* A worktree is collected when no provider is owned.
LEMMA CollectKeeps ==
  ASSUME OwnInv, Secured, NEW h \in Hubs, Collect(h)
  PROVE  Parts'
<1>1. LaunchType /\ SessionType /\ PassType /\ ClosingType /\ FileTypes /\ ProcessTypes
  BY TypeParts DEF OwnInv
<1>2. /\ pass[h].at = "gc" /\ pass'[h].at = "no" /\ pass'[h].mirrored = pass[h].mirrored
      /\ \A g \in Hubs \ {h} : pass'[g] = pass[g]
      /\ custody = "decided" /\ custody' = "deleted" /\ lease' = None
      /\ lease # None => lease.provider \notin living
      /\ UNCHANGED <<mirror, processes, launch, session, closing>>
  BY <1>1, PassMoves DEF Collect, Collectable, ProvenDead, PassPlaces
<1>3. Owned = {}
  <2>1. \A g \in Hubs : Launches(g) => Owned = {}
    BY <1>2 DEF OwnInv, Parts, OwnedOK, Active
  <2>2. \A g \in Hubs : ~Launches(g) => launch[g].provider = None
    BY DEF OwnInv, Parts, Launched, LaunchOK, Launches
  <2>3. \A p \in Owned : p # None /\ ~Named(p)
    BY <1>1, <1>2, NoneLivesNot DEF Owned, Named
  <2> QED
    BY <2>1, <2>2, <2>3 DEF OwnInv, Parts, OwnedOK
<1>4. Untouched'
  BY <1>1, <1>2, <1>3 DEF OwnInv, Parts, Untouched
<1>5. OneActive'
  BY <1>1, <1>2, <1>3 DEF OwnInv, Parts, OneActive, Active, Launches, Runs
<1>6. Closes'
  BY <1>1, <1>2, <1>3 DEF OwnInv, Parts, Closes
<1>7. MirrorOK'
  BY <1>1, <1>2, <1>3 DEF OwnInv, Parts, MirrorOK, Runs
<1>8. Passes'
  BY <1>1, <1>2, <1>3 DEF OwnInv, Parts, Passes, Launching, Recovering, Owned, Active, Launches, Runs
<1>9. Launched'
  BY <1>1, <1>2, <1>3 DEF OwnInv, Parts, Launched, LaunchOK, Owned, Launches, Named
<1>10. LeaseOK'
  BY <1>1, <1>2, <1>3 DEF OwnInv, Parts, LeaseOK, Launching, Runs
<1>11. OwnedOK'
  BY <1>1, <1>2, <1>3 DEF OwnInv, Parts, OwnedOK, Owned, Named, Active, Launches, Runs
<1> QED
  BY <1>4, <1>5, <1>6, <1>7, <1>8, <1>9, <1>10, <1>11 DEF Parts

\* A pass that is over has nothing left to do.
LEMMA EndPassKeeps ==
  ASSUME OwnInv, Secured, NEW h \in Hubs, EndPass(h)
  PROVE  Parts'
<1>1. LaunchType /\ SessionType /\ PassType /\ ClosingType /\ FileTypes /\ ProcessTypes
  BY TypeParts DEF OwnInv
<1>2. /\ pass[h].at = "gc" /\ pass'[h].at = "no"
      /\ pass'[h].mirrored = pass[h].mirrored
      /\ \A g \in Hubs \ {h} : pass'[g] = pass[g]
      /\ UNCHANGED <<files, processes, launch, session, closing>>
  BY <1>1, PassMoves DEF EndPass, PassPlaces
<1>3. Untouched'
  BY <1>1, <1>2 DEF OwnInv, Parts, Untouched
<1>4. OneActive'
  BY <1>1, <1>2 DEF OwnInv, Parts, OneActive, Active, Launches, Runs
<1>5. Closes'
  BY <1>1, <1>2 DEF OwnInv, Parts, Closes
<1>6. MirrorOK'
  BY <1>1, <1>2 DEF OwnInv, Parts, MirrorOK, Runs
<1>7. Passes'
  BY <1>1, <1>2 DEF OwnInv, Parts, Passes, Launching, Recovering, Owned, Active, Launches, Runs
<1>8. Launched'
  BY <1>1, <1>2 DEF OwnInv, Parts, Launched, LaunchOK, Owned, Launches, Named
<1>9. LeaseOK'
  BY <1>1, <1>2 DEF OwnInv, Parts, LeaseOK, Launching, Runs
<1>10. OwnedOK'
  BY <1>1, <1>2 DEF OwnInv, Parts, OwnedOK, Owned, Named, Active, Launches, Runs
<1> QED
  BY <1>3, <1>4, <1>5, <1>6, <1>7, <1>8, <1>9, <1>10 DEF Parts

-----------------------------------------------------------------------------
(* What the processes may suffer.                                          *)

\* A failed finalization leaves custody to a later close or pass.
LEMMA FinalizeFailsKeeps ==
  ASSUME OwnInv, Secured, NEW h \in Hubs, FinalizeFails(h)
  PROVE  Parts'
<1>1. LaunchType /\ SessionType /\ PassType /\ ClosingType /\ FileTypes /\ ProcessTypes
  BY TypeParts DEF OwnInv
<1>2. UNCHANGED <<files, processes, session>>
  BY DEF FinalizeFails

<1>3. CASE /\ pass[h].at \in {"closed", "dead"} /\ PassGoes(h, "no")
         /\ UNCHANGED <<launch, closing>>
  <2>1. /\ pass'[h].at = "no" /\ pass'[h].mirrored = pass[h].mirrored
        /\ \A g \in Hubs \ {h} : pass'[g] = pass[g]
        /\ UNCHANGED <<launch, closing>>
    BY <1>1, <1>3, PassMoves DEF PassPlaces
  <2>2. Untouched'
    BY <1>1, <1>2, <2>1 DEF OwnInv, Parts, Untouched
  <2>3. OneActive'
    BY <1>1, <1>2, <2>1 DEF OwnInv, Parts, OneActive, Active, Launches, Runs
  <2>4. Closes'
    BY <1>1, <1>2, <2>1 DEF OwnInv, Parts, Closes
  <2>5. MirrorOK'
    BY <1>1, <1>2, <2>1 DEF OwnInv, Parts, MirrorOK, Runs
  <2>6. Passes'
    BY <1>1, <1>2, <2>1 DEF OwnInv, Parts, Passes, Launching, Recovering, Owned, Active, Launches, Runs
  <2>7. Launched'
    BY <1>1, <1>2, <2>1 DEF OwnInv, Parts, Launched, LaunchOK, Owned, Launches, Named
  <2>8. LeaseOK'
    BY <1>1, <1>2, <2>1 DEF OwnInv, Parts, LeaseOK, Launching, Runs
  <2>9. OwnedOK'
    BY <1>1, <1>2, <2>1 DEF OwnInv, Parts, OwnedOK, Owned, Named, Active, Launches, Runs
  <2> QED
    BY <2>2, <2>3, <2>4, <2>5, <2>6, <2>7, <2>8, <2>9 DEF Parts
<1>4. CASE /\ closing[h] \in {"finalizeClosed", "finalizeOther"}
         /\ closing' = [closing EXCEPT ![h] = "no"] /\ UNCHANGED <<launch, pass>>
  <2>1. /\ closing'[h] = "no" /\ \A g \in Hubs \ {h} : closing'[g] = closing[g]
        /\ UNCHANGED <<launch, pass>>
    BY <1>1, <1>4, ClosingMoves DEF ClosePlaces
  <2>2. Untouched'
    BY <1>1, <1>2, <2>1 DEF OwnInv, Parts, Untouched
  <2>3. OneActive'
    BY <1>1, <1>2, <2>1 DEF OwnInv, Parts, OneActive, Active, Launches, Runs
  <2>4. Closes'
    BY <1>1, <1>2, <2>1 DEF OwnInv, Parts, Closes
  <2>5. MirrorOK'
    BY <1>1, <1>2, <2>1 DEF OwnInv, Parts, MirrorOK, Runs
  <2>6. Passes'
    BY <1>1, <1>2, <2>1 DEF OwnInv, Parts, Passes, Launching, Recovering, Owned, Active, Launches, Runs
  <2>7. Launched'
    BY <1>1, <1>2, <2>1 DEF OwnInv, Parts, Launched, LaunchOK, Owned, Launches, Named
  <2>8. LeaseOK'
    BY <1>1, <1>2, <2>1 DEF OwnInv, Parts, LeaseOK, Launching, Runs
  <2>9. OwnedOK'
    BY <1>1, <1>2, <2>1 DEF OwnInv, Parts, OwnedOK, Owned, Named, Active, Launches, Runs
  <2> QED
    BY <2>2, <2>3, <2>4, <2>5, <2>6, <2>7, <2>8, <2>9 DEF Parts
<1>5. CASE /\ launch[h].at = "abandon" /\ launch' = [launch EXCEPT ![h] = NoLaunch]
         /\ UNCHANGED <<closing, pass>>
  <2>1. /\ launch'[h].at = "no" /\ launch'[h].provider = None
        /\ \A g \in Hubs \ {h} : launch'[g] = launch[g]
        /\ UNCHANGED <<closing, pass>>
    BY <1>1, <1>5, LaunchBecomes DEF NoLaunch, LaunchPlaces, MaybeProvider
  <2>2. /\ launch[h].provider = None /\ mirror = "absent"
        /\ ~Runs(h) /\ \A g \in Hubs \ {h} : launch[g].at = "no" /\ launch[g].provider = None /\ ~Runs(g)
    BY <1>5, LaunchesAlone DEF OwnInv, Parts, Launched, LaunchOK, MirrorOK
  <2>3. Untouched'
    BY <1>1, <1>2, <2>1, <2>2 DEF OwnInv, Parts, Untouched
  <2>4. OneActive'
    BY <1>1, <1>2, <2>1, <2>2 DEF OwnInv, Parts, OneActive, Active, Launches, Runs
  <2>5. Closes'
    BY <1>1, <1>2, <2>1, <2>2 DEF OwnInv, Parts, Closes
  <2>6. MirrorOK'
    BY <1>1, <1>2, <2>1, <2>2 DEF OwnInv, Parts, MirrorOK, Runs
  <2>7. Passes'
    BY <1>1, <1>2, <2>1, <2>2 DEF OwnInv, Parts, Passes, Launching, Recovering, Owned, Active, Launches, Runs
  <2>8. Launched'
    BY <1>1, <1>2, <2>1, <2>2 DEF OwnInv, Parts, Launched, LaunchOK, Owned, Launches, Named
  <2>9. LeaseOK'
    BY <1>1, <1>2, <2>1, <2>2 DEF OwnInv, Parts, LeaseOK, Launching, Runs
  <2>10. OwnedOK'
    BY <1>1, <1>2, <2>1, <2>2 DEF OwnInv, Parts, OwnedOK, Owned, Named, Active, Launches, Runs
  <2> QED
    BY <2>3, <2>4, <2>5, <2>6, <2>7, <2>8, <2>9, <2>10 DEF Parts
<1> QED
  BY <1>3, <1>4, <1>5 DEF FinalizeFails

\* Death frees what a provider owned.
LEMMA ProviderDiesKeeps ==
  ASSUME OwnInv, Secured, NEW q \in Providers, ProviderDies(q)
  PROVE  Parts'
<1>1. LaunchType /\ SessionType /\ PassType /\ ClosingType /\ FileTypes /\ ProcessTypes
  BY TypeParts DEF OwnInv
<1>2. /\ living' = living \ {q}
      /\ UNCHANGED <<files, up, spawned, unowned, launch, session, closing, pass>>
  BY DEF ProviderDies
<1>3. Owned' \subseteq Owned
  BY <1>2 DEF Owned
<1>4. Untouched'
  BY <1>1, <1>2, <1>3 DEF OwnInv, Parts, Untouched
<1>5. OneActive'
  BY <1>1, <1>2, <1>3 DEF OwnInv, Parts, OneActive, Active, Launches, Runs
<1>6. Closes'
  BY <1>1, <1>2, <1>3 DEF OwnInv, Parts, Closes
<1>7. MirrorOK'
  BY <1>1, <1>2, <1>3 DEF OwnInv, Parts, MirrorOK, Runs
<1>8. Passes'
  BY <1>1, <1>2, <1>3 DEF OwnInv, Parts, Passes, Launching, Recovering, Owned, Active, Launches, Runs
<1>9. Launched'
  BY <1>1, <1>2, <1>3 DEF OwnInv, Parts, Launched, LaunchOK, Owned, Launches, Named
<1>10. LeaseOK'
  BY <1>1, <1>2, <1>3 DEF OwnInv, Parts, LeaseOK, Launching, Runs
<1>11. OwnedOK'
  BY <1>1, <1>2, <1>3 DEF OwnInv, Parts, OwnedOK, Owned, Named, Active, Launches, Runs
<1> QED
  BY <1>4, <1>5, <1>6, <1>7, <1>8, <1>9, <1>10, <1>11 DEF Parts

\* The provider of a hub that is gone is named by its lease, or lost.
LEMMA HubDiesKeeps ==
  ASSUME OwnInv, Secured, NEW h \in Hubs, HubDies(h)
  PROVE  Parts'
<1>1. LaunchType /\ SessionType /\ PassType /\ ClosingType /\ FileTypes /\ ProcessTypes
  BY TypeParts DEF OwnInv
<1>2. /\ launch'[h].at = "no" /\ launch'[h].provider = None
      /\ session'[h].at = "none" /\ session'[h].provider = None
      /\ closing'[h] = "no" /\ pass'[h].at = "no" /\ ~pass'[h].mirrored
      /\ \A g \in Hubs \ {h} : /\ launch'[g] = launch[g] /\ session'[g] = session[g]
                               /\ closing'[g] = closing[g] /\ pass'[g] = pass[g]
      /\ up' = up \ {h} /\ UNCHANGED <<files, living, spawned>>
  BY <1>1 DEF HubDies, NoLaunch, NoSession, NoPass, LaunchType, SessionType, ClosingType, PassType
<1>3. unowned' = IF launch[h].provider = None \/ Named(launch[h].provider)
                  THEN unowned ELSE unowned \cup {launch[h].provider}
  BY DEF HubDies
<1>4. launch[h].at # "no" => /\ ~Runs(h)
                             /\ \A g \in Hubs \ {h} : launch[g].at = "no" /\ launch[g].provider = None /\ ~Runs(g)
  BY LaunchesAlone
<1>5. launch[h].at = "no" => launch[h].provider = None /\ unowned' = unowned
  BY <1>3 DEF OwnInv, Parts, Launched, LaunchOK
<1>6. /\ Owned' \subseteq Owned /\ unowned \subseteq unowned'
      /\ (lease # None => lease.provider \notin unowned')
      /\ \A p \in Owned' : Named(p) \/ p # launch[h].provider
  <2>1. lease # None => lease.provider \notin unowned
    BY DEF OwnInv, Parts, LeaseOK
  <2>2. None \notin living
    BY <1>1, NoneLivesNot
  <2> QED
    BY <1>2, <1>3, <2>1, <2>2 DEF Owned, Named
<1>7. \A g \in Hubs \ {h} : launch[g].provider # None => launch[g].provider \notin unowned' 
  BY <1>4, <1>5 DEF OwnInv, Parts, Launched, LaunchOK
<1>8. launch[h].at # "no" /\ mirror # "absent" /\ lease # None /\ lease.hub # h => lease.provider \notin living
  <2> SUFFICES ASSUME launch[h].at # "no", mirror # "absent", lease # None, lease.hub # h, lease.provider \in living
               PROVE  FALSE
    OBVIOUS
  <2>1. launch[h].at # "abandon"
    BY DEF OwnInv, Parts, MirrorOK
  <2>2. lease.provider \in Owned /\ Owned \subseteq {launch[h].provider}
    BY <2>1 DEF OwnInv, Parts, Launched, LaunchOK, LeaseOK, Owned
  <2>3. lease.provider # None
    BY <1>1, NoneLivesNot
  <2> QED
    BY <2>2, <2>3 DEF OwnInv, Parts, Launched, LaunchOK, Named
<1>9. Untouched'
  BY <1>1, <1>2, <1>3, <1>4, <1>5, <1>6, <1>7, <1>8 DEF OwnInv, Parts, Untouched
<1>10. OneActive'
  BY <1>1, <1>2, <1>3, <1>4, <1>5, <1>6, <1>7, <1>8 DEF OwnInv, Parts, OneActive, Active, Launches, Runs
<1>11. Closes'
  BY <1>1, <1>2, <1>3, <1>4, <1>5, <1>6, <1>7, <1>8 DEF OwnInv, Parts, Closes
<1>12. MirrorOK'
  BY <1>1, <1>2, <1>3, <1>4, <1>5, <1>6, <1>7, <1>8 DEF OwnInv, Parts, MirrorOK, Runs
<1>13. Passes'
  BY <1>1, <1>2, <1>3, <1>4, <1>5, <1>6, <1>7, <1>8 DEF OwnInv, Parts, Passes, Launching, Recovering, Owned, Active, Launches, Runs
<1>14. Launched'
  BY <1>1, <1>2, <1>3, <1>4, <1>5, <1>6, <1>7, <1>8 DEF OwnInv, Parts, Launched, LaunchOK, Owned, Launches, Named
<1>15. LeaseOK'
  BY <1>1, <1>2, <1>3, <1>4, <1>5, <1>6, <1>7, <1>8 DEF OwnInv, Parts, LeaseOK, Launching, Runs
<1>16. OwnedOK'
  BY <1>1, <1>2, <1>3, <1>4, <1>5, <1>6, <1>7, <1>8 DEF OwnInv, Parts, OwnedOK, Owned, Named, Active, Launches, Runs
<1> QED
  BY <1>9, <1>10, <1>11, <1>12, <1>13, <1>14, <1>15, <1>16 DEF Parts

\* A step that changes nothing keeps the invariant.
LEMMA StutterKeeps == ASSUME OwnInv, UNCHANGED vars PROVE OwnInv'
BY DEF OwnInv, TypeOK, Parts, Untouched, OneActive, Closes, MirrorOK, Passes, Launched, LaunchOK, LeaseOK, OwnedOK,
   Launching, Recovering, Owned, Named, Active, Launches, Runs, vars

\* The invariant holds before anything was launched.
LEMMA OwnInit == ASSUME Init PROVE OwnInv
<1>1. \A h \in Hubs : launch[h] = NoLaunch /\ session[h] = NoSession /\ closing[h] = "no" /\ pass[h] = NoPass
  BY DEF Init
<1>2. TypeOK
  <2>1. /\ NoLaunch \in [at : LaunchPlaces, provider : MaybeProvider]
        /\ NoSession \in [at : Over \cup {"none", "running"}, provider : MaybeProvider]
        /\ NoPass \in [at : PassPlaces, attached : BOOLEAN, mirrored : BOOLEAN]
    BY DEF NoLaunch, NoSession, NoPass, LaunchPlaces, MaybeProvider, PassPlaces
  <2> QED
    BY <2>1, OwnershipAssumption DEF Init, TypeOK, Custodies, Mirrors, Over, ClosePlaces
<1>3. Untouched /\ OneActive /\ Closes /\ MirrorOK /\ Passes
  BY <1>1 DEF Init, Untouched, OneActive, Closes, MirrorOK, Passes, Launching, Recovering, Owned, Active,
     Launches, Runs, NoLaunch, NoSession, NoPass
<1>4. Launched /\ LeaseOK /\ OwnedOK
  BY <1>1 DEF Init, Launched, LaunchOK, LeaseOK, OwnedOK, Owned, Named, Active, Launches, Runs, NoLaunch, NoSession
<1> QED
  BY <1>2, <1>3, <1>4 DEF OwnInv, Parts

\* Every step keeps the invariant.
LEMMA OwnStep == ASSUME OwnInv, Secured, [Next]_vars PROVE OwnInv'
<1>1. ASSUME NEW h \in Hubs, HubStep(h) PROVE Parts'
  <2>1. CASE Start(h) \/ Resume(h)
    BY <2>1, StartKeeps, ResumeKeeps
  <2>2. CASE LaunchStep(h)
    BY <2>2, SpawnKeeps, RecordLeaseKeeps, AttachKeeps, LaunchFailsKeeps, LaunchStoppedKeeps, AbandonKeeps DEF LaunchStep
  <2>3. CASE Turn(h) \/ CloseOver(h) \/ CloseStep(h)
    BY <2>3, TurnKeeps, CloseOverKeeps, FinalizeCloseKeeps, ReleaseKeeps DEF CloseStep
  <2>4. ASSUME NEW proven \in BOOLEAN, CrashSeen(h, proven) \/ Stop(h, proven) PROVE Parts'
    BY <2>4, CrashSeenKeeps, StopKeeps
  <2>5. CASE PassStep(h)
    BY <2>5, BeginPassKeeps, LoadCustodyKeeps, ReadMirrorKeeps, ReadLeaseKeeps, RecoverClosedKeeps, RecoverDeadKeeps,
       RewriteKeeps, CollectKeeps, EndPassKeeps DEF PassStep
  <2>6. CASE FinalizeFails(h) \/ HubDies(h)
    BY <2>6, FinalizeFailsKeeps, HubDiesKeeps
  <2> QED
    BY <1>1, <2>1, <2>2, <2>3, <2>4, <2>5, <2>6 DEF HubStep
<1>2. CASE Next
  <2>1. TypeOK'
    BY <1>2, TypeSteps DEF OwnInv, Parts
  <2>2. Parts'
    BY <1>1, <1>2, HandoffKeeps, ProviderDiesKeeps DEF Next
  <2> QED
    BY <2>1, <2>2 DEF OwnInv
<1> QED
  BY <1>2, StutterKeeps

\* The invariant of ownership, for any hubs and any number of spawned providers.
THEOREM OwnInvariant == ASSUME Secured PROVE Spec => []OwnInv
<1>1. Init => OwnInv
  BY OwnInit
<1>2. OwnInv /\ [Next]_vars => OwnInv'
  BY OwnStep
<1> QED
  BY <1>1, <1>2, PTL DEF Spec

\* At most one provider writes, and its hub or the lease accounts for it
\* (recordWorkspaceLease, releaseClosedLease, recover, gcOne, reopenForResume).
THEOREM AccountedAlways == ASSUME Secured PROVE Spec => []Accounted
<1>1. ASSUME OwnInv PROVE Accounted
  <2>1. Cardinality(Owned) <= 1
    <3>1. CASE Owned = {}
      BY <3>1, FS_EmptySet
    <3>2. CASE Owned # {}
      <4>1. PICK p \in Owned : Owned = {p}
        BY <1>1, <3>2 DEF OwnInv, Parts, OwnedOK
      <4> QED
        BY <4>1, FS_Singleton
    <3> QED
      BY <3>1, <3>2
  <2>2. ASSUME NEW p \in Owned, ~Named(p) PROVE \E h \in up : launch[h].provider = p
    <3>1. None \notin living
      BY <1>1, NoneLivesNot, TypeParts DEF OwnInv
    <3>2. PICK h \in Hubs : launch[h].provider = p
      BY <1>1, <2>2 DEF OwnInv, Parts, OwnedOK
    <3>3. launch[h].at # "no"
      BY <1>1, <3>1, <3>2 DEF OwnInv, Parts, Launched, LaunchOK, Owned
    <3> QED
      BY <1>1, <3>2, <3>3, LaunchesAlone
  <2> QED
    BY <1>1, <2>1, <2>2 DEF Accounted, Owned, OwnInv
<1> QED
  BY <1>1, OwnInvariant, PTL

\* A running session whose provider lives has its custody and its lease
\* (reopenForResume, recover, closeSession).
THEOREM RunningOwnsAlways == ASSUME Secured PROVE Spec => []RunningOwns
<1>1. ASSUME OwnInv PROVE RunningOwns
  <2> SUFFICES ASSUME NEW h \in Hubs, Runs(h), session[h].provider \in living
               PROVE  custody = "live" /\ lease = [provider |-> session[h].provider, hub |-> h]
    BY DEF RunningOwns, Runs
  <2>1. session[h].provider \in Owned
    BY <1>1 DEF OwnInv, Parts, LeaseOK, Owned
  <2> QED
    BY <1>1, <2>1 DEF OwnInv, Parts, LeaseOK, OwnedOK, Active, Runs
<1> QED
  BY <1>1, OwnInvariant, PTL

\* The worktree is never collected under a provider (gcOne).
THEOREM NeverUnderProviderAlways == ASSUME Secured PROVE Spec => []NeverUnderProvider
<1>1. ASSUME OwnInv PROVE NeverUnderProvider
  BY <1>1 DEF OwnInv, Parts, OwnedOK, Owned, NeverUnderProvider
<1> QED
  BY <1>1, OwnInvariant, PTL

=============================================================================
