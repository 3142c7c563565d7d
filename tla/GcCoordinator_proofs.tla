------------------------ MODULE GcCoordinator_proofs ------------------------
(***************************************************************************)
(* Proofs about GcCoordinator, for any number of sessions, windows, hubs   *)
(* and faults: a deadline is always served, and it is kept for each        *)
(* session it was armed for.                                               *)
(***************************************************************************)
EXTENDS GcCoordinator, FiniteSetTheorems, WellFoundedInduction, TLAPS

\* What the steps need of the types: waiting counts, each handoff has a place.
Places == waiting \in Nat /\ caller \in [Sessions -> CallerPlaces]

Served == Places /\ ScheduleServed

\* A handoff hands its deadline from "spawning" to a worker that waits.
LEMMA CallerStepServes ==
  ASSUME Served, CallerStep
  PROVE  Served'
<1> USE DEF Served, Places, CallerPlaces, ScheduleServed, sessionVars, workerVars
<1>1. PICK s \in Sessions : Arm(s) \/ ArmSpawns(s)
  BY DEF CallerStep
<1>2. CASE Arm(s)
  <2>1. /\ UNCHANGED <<waiting, worker, dropped>>
        /\ caller' = [caller EXCEPT ![s] = "spawning"]
    BY <1>2 DEF Arm
  <2>2. caller'[s] = "spawning"
    BY <2>1
  <2> QED
    BY <2>1, <2>2
<1>3. CASE ArmSpawns(s)
  <2>1. /\ UNCHANGED <<schedule, worker>>
        /\ waiting' = waiting + 1
        /\ caller' = [caller EXCEPT ![s] = "idle"]
    BY <1>3 DEF ArmSpawns, SpawnWorker
  <2> QED
    BY <2>1
<1> QED
  BY <1>1, <1>2, <1>3

\* A worker goes from waiting to its loop, and leaves it without a schedule only.
LEMMA WorkerStepServes ==
  ASSUME Served, WorkerStep
  PROVE  Served'
<1> USE DEF Served, Places, ScheduleServed, sessionVars
<1>1. CASE WorkerLocks
  BY <1>1 DEF WorkerLocks
<1>2. CASE WorkerLeaves
  BY <1>2 DEF WorkerLeaves
<1>3. CASE WorkerReleases
  BY <1>3 DEF WorkerReleases
<1>4. CASE BeginPass
  BY <1>4 DEF BeginPass
<1>5. CASE EndPass
  BY <1>5 DEF EndPass
<1>6. CASE UpdateAfterPass
  BY <1>6 DEF UpdateAfterPass
<1>7. CASE \E s \in Sessions : PassOne(s)
  BY <1>7 DEF PassOne
<1> QED
  BY <1>1, <1>2, <1>3, <1>4, <1>5, <1>6, <1>7 DEF WorkerStep

\* A hub starts a worker where there is a schedule, and takes none away.
LEMMA HubStepServes ==
  ASSUME Served, HubStep
  PROVE  Served'
<1> USE DEF Served, Places, ScheduleServed, sessionVars, workerVars
<1>1. CASE HubCleaned
  BY <1>1 DEF HubCleaned
<1>2. CASE EnsureWorker
  BY <1>2 DEF EnsureWorker, SpawnWorker
<1>3. CASE \E s \in Sessions : HubCleans(s)
  BY <1>3 DEF HubCleans
<1> QED
  BY <1>1, <1>2, <1>3 DEF HubStep

\* A fault is what the property excuses, a failing pass leaves the worker at it.
LEMMA FaultServes ==
  ASSUME Served, Faults
  PROVE  Served'
<1> USE DEF Served, Places, CallerPlaces, ScheduleServed, sessionVars, workerVars
<1>1. CASE WorkerFails
  BY <1>1 DEF WorkerFails, Fault
<1>2. CASE HubFails
  BY <1>2 DEF HubFails, Fault
<1>3. CASE PassFails
  BY <1>3 DEF PassFails
<1>4. CASE \E s \in Sessions : CallerFails(s)
  BY <1>4 DEF CallerFails, Fault
<1> QED
  BY <1>1, <1>2, <1>3, <1>4 DEF Faults

\* What others do touches no schedule and no worker; a handoff that begins was
\* not about to start one.
LEMMA EnvironmentServes ==
  ASSUME Served, Environment
  PROVE  Served'
<1> USE DEF Served, Places, CallerPlaces, ScheduleServed, sessionVars, workerVars
<1>1. CASE HubStarts
  BY <1>1 DEF HubStarts
<1>2. ASSUME NEW s \in Sessions, Handoff(s)
      PROVE  Served'
  <2>1. /\ UNCHANGED <<schedule, waiting, worker, dropped>>
        /\ caller[s] = "idle" /\ caller' = [caller EXCEPT ![s] = "arming"]
    BY <1>2 DEF Handoff
  <2>2. \A t \in Sessions : caller[t] = "spawning" => caller'[t] = "spawning"
    BY <2>1
  <2> QED
    BY <2>1, <2>2
<1>3. ASSUME NEW s \in Sessions,
             \/ Close(s) \/ Reopen(s) \/ Unblock(s)
             \/ Block(s, "retry") \/ Block(s, "final")
      PROVE  Served'
  BY <1>3 DEF Close, Reopen, Unblock, Block
<1> QED
  BY <1>1, <1>2, <1>3 DEF Environment

\* Every step keeps the deadline served.
LEMMA ServedStep ==
  ASSUME Served, [Next]_vars
  PROVE  Served'
<1>1. CASE Tick
  <2>1. UNCHANGED <<waiting, caller, worker, dropped>> /\ (schedule = None => schedule' = None)
    BY <1>1 DEF Tick, workerVars
  <2> QED
    BY <2>1 DEF Served, Places, ScheduleServed
<1>2. CASE UNCHANGED vars
  BY <1>2 DEF vars, workerVars, Served, Places, ScheduleServed
<1> QED
  BY <1>1, <1>2, CallerStepServes, WorkerStepServes, HubStepServes, FaultServes,
     EnvironmentServes DEF Next

\* A deadline on disk has a worker, or a process about to start one, unless a
\* process died or failed since the last start (GcCoordinator.arm, runGcWorker,
\* ensureWorker).
THEOREM DeadlineServed == Spec => []ScheduleServed
<1>1. Init => Served
  BY DEF Init, Served, Places, CallerPlaces, ScheduleServed
<1>2. Served /\ [Next]_vars => Served'
  BY ServedStep
<1>3. Served => ScheduleServed
  BY DEF Served
<1> QED
  BY <1>1, <1>2, <1>3, PTL DEF Spec

-----------------------------------------------------------------------------
(* The deadline itself.                                                    *)

\* Any set of naturals has a least one.
LEMMA LeastNatural ==
  ASSUME NEW S, S \subseteq Nat, S # {}
  PROVE  \E least \in S : \A n \in S : least <= n
<1>1. PICK m \in S : \A n \in S : <<n, m>> \notin OpToRel(<, Nat)
  BY WFMin, NatLessThanWellFounded, Zenon
<1>2. \A n \in S : n \in Nat /\ m \in Nat
  OBVIOUS
<1>3. \A n \in S : ~(n < m)
  BY <1>1, <1>2, Zenon DEF OpToRel
<1> QED
  BY <1>2, <1>3

\* Min of a set of naturals is its least one.
LEMMA MinIsLeast ==
  ASSUME NEW S, S \subseteq Nat, S # {}
  PROVE  Min(S) \in S /\ \A n \in S : Min(S) <= n
BY LeastNatural DEF Min

\* Max of a set that has a greatest element.
LEMMA MaxIsGreatest ==
  ASSUME NEW S, S \subseteq Nat, NEW m \in S, \A n \in S : n <= m
  PROVE  Max(S) = m
<1>1. m \in S /\ \A n \in S : m >= n
  OBVIOUS
<1>2. Max(S) \in S /\ \A n \in S : Max(S) >= n
  BY <1>1 DEF Max
<1>3. Max(S) \in Nat /\ m \in Nat /\ Max(S) >= m /\ m >= Max(S)
  BY <1>1, <1>2
<1> QED
  BY <1>3

\* Max of two, as the property uses it.
LEMMA MaxOfTwo ==
  ASSUME NEW a \in Nat, NEW b \in Nat
  PROVE  Max({a, b}) \in Nat /\ Max({a, b}) = IF a >= b THEN a ELSE b
<1>1. CASE a >= b
  BY <1>1, MaxIsGreatest
<1>2. CASE ~(a >= b)
  BY <1>2, MaxIsGreatest
<1> QED
  BY <1>1, <1>2

\* Windows and retries, and what is left of them, are ticks.
LEMMA TicksAre ==
  /\ Ticks \subseteq Nat /\ 0 \in Ticks /\ Retry \in Ticks /\ Windows \subseteq Ticks
  /\ \A t \in Ticks : Elapsed(t) \in Ticks
<1>1. PICK m \in Windows \cup {Retry} : \A t \in Windows \cup {Retry} : t <= m
  BY GcAssumption
<1>2. Windows \cup {Retry} \subseteq Nat
  BY GcAssumption
<1>3. Max(Windows \cup {Retry}) = m /\ m \in Nat
  BY <1>1, <1>2, MaxIsGreatest
<1>4. Ticks = 0 .. m
  BY <1>3 DEF Ticks
<1> QED
  BY <1>1, <1>2, <1>3, <1>4 DEF Elapsed

\* Revisions.
LEMMA RevisionsAre ==
  /\ 0 \in 0 .. (Revisions - 1) /\ 1 \in 0 .. (Revisions - 1)
  /\ \A r \in 0 .. (Revisions - 1) : NextRevision(r) \in 0 .. (Revisions - 1)
BY GcAssumption DEF NextRevision

\* A pass looks for the next wake-up: it is a tick, and none but the retry comes before it.
LEMMA WakesAre ==
  ASSUME GcTypeOK, Wakes # {}
  PROVE  Min(Wakes) \in Ticks /\ \A t \in Wakes : Min(Wakes) <= t
<1>1. Wakes \subseteq Ticks
  BY TicksAre DEF GcTypeOK, Wakes
<1> QED
  BY <1>1, TicksAre, MinIsLeast

\* The earlier of two deadlines.
LEMMA EarlierIsTick ==
  ASSUME NEW a \in Ticks, NEW b \in Ticks
  PROVE  Min({a, b}) \in Ticks /\ Min({a, b}) <= a /\ Min({a, b}) <= b
BY TicksAre, MinIsLeast

\* A step of time keeps the types.
LEMMA TickTypes == ASSUME GcTypeOK, Tick PROVE GcTypeOK'
<1>1. window' \in [Sessions -> Ticks]
  BY TicksAre DEF GcTypeOK, Tick
<1>2. schedule' \in Schedule \cup {None}
  <2>1. CASE schedule = None
    BY <2>1 DEF Tick
  <2>2. CASE schedule \in Schedule
    BY <2>2, TicksAre DEF Tick, Schedule
  <2> QED
    BY <2>1, <2>2 DEF GcTypeOK
<1> QED
  BY <1>1, <1>2 DEF GcTypeOK, Tick, workerVars

\* A fault counts.
LEMMA FaultTypes == ASSUME GcTypeOK, counts.faults < MaxFaults, counts' = [counts EXCEPT !.faults = @ + 1]
  PROVE counts' \in [arms : 0..MaxArms, starts : 0..MaxStarts, blocks : 0..MaxBlocks, faults : 0..MaxFaults]
        /\ counts'.arms = counts.arms
BY GcAssumption DEF GcTypeOK

\* So do a handoff and the arming of the deadline.
LEMMA CallerTypes ==
  ASSUME GcTypeOK, NEW s \in Sessions, Handoff(s) \/ Arm(s) \/ ArmSpawns(s) \/ CallerFails(s)
  PROVE  GcTypeOK'
<1>1. CASE Handoff(s)
  <2>1. /\ phase' \in [Sessions -> {"live", "closed", "decided", "gone"}]
        /\ window' \in [Sessions -> Ticks] /\ caller' \in [Sessions -> CallerPlaces]
    BY <1>1, TicksAre DEF GcTypeOK, Handoff, CallerPlaces
  <2>2. counts' \in [arms : 0..MaxArms, starts : 0..MaxStarts, blocks : 0..MaxBlocks, faults : 0..MaxFaults]
    BY <1>1, GcAssumption DEF GcTypeOK, Handoff
  <2> QED
    BY <1>1, <2>1, <2>2 DEF GcTypeOK, Handoff, workerVars
<1>2. CASE Arm(s)
  <2>1. schedule' \in Schedule
    <3>1. CASE schedule = None
      BY <1>2, <3>1, RevisionsAre DEF GcTypeOK, Arm, Schedule
    <3>2. CASE schedule \in Schedule
      BY <1>2, <3>2, RevisionsAre, EarlierIsTick, GcAssumption DEF GcTypeOK, Arm, Schedule
    <3> QED
      BY <3>1, <3>2 DEF GcTypeOK
  <2> QED
    BY <1>2, <2>1 DEF GcTypeOK, Arm, CallerPlaces, sessionVars, workerVars
<1>3. CASE ArmSpawns(s)
  <2>1. waiting' \in Nat /\ caller' \in [Sessions -> CallerPlaces]
    BY <1>3 DEF GcTypeOK, ArmSpawns, SpawnWorker, CallerPlaces
  <2>2. dropped' \in BOOLEAN
    BY <1>3 DEF ArmSpawns, SpawnWorker
  <2> QED
    BY <1>3, <2>1, <2>2 DEF GcTypeOK, ArmSpawns, sessionVars, workerVars
<1>4. CASE CallerFails(s)
  BY <1>4, FaultTypes DEF GcTypeOK, CallerFails, Fault, CallerPlaces, sessionVars, workerVars
<1> QED
  BY <1>1, <1>2, <1>3, <1>4

\* And what hubs and others do.
LEMMA OtherTypes == ASSUME GcTypeOK, HubStep \/ HubFails \/ Environment PROVE GcTypeOK'
<1>1. CASE HubStarts
  <2>1. counts' \in [arms : 0..MaxArms, starts : 0..MaxStarts, blocks : 0..MaxBlocks, faults : 0..MaxFaults]
    BY <1>1, GcAssumption DEF GcTypeOK, HubStarts
  <2> QED
    BY <1>1, <2>1 DEF GcTypeOK, HubStarts, HubPlaces, Known, sessionVars, workerVars
<1>2. CASE HubFails
  BY <1>2, FaultTypes DEF GcTypeOK, HubFails, Fault, NoHub, HubPlaces, sessionVars, workerVars
<1>3. CASE HubCleaned \/ EnsureWorker
  <2>1. waiting' \in Nat /\ hub' \in [place : HubPlaces, todo : SUBSET Sessions]
    BY <1>3 DEF GcTypeOK, HubCleaned, EnsureWorker, SpawnWorker, NoHub, HubPlaces
  <2>2. dropped' \in BOOLEAN
    BY <1>3 DEF GcTypeOK, HubCleaned, EnsureWorker, SpawnWorker
  <2> QED
    BY <1>3, <2>1, <2>2 DEF GcTypeOK, HubCleaned, EnsureWorker, sessionVars, workerVars
<1>4. ASSUME NEW s \in Sessions, HubCleans(s) PROVE GcTypeOK'
  BY <1>4 DEF GcTypeOK, HubCleans, GcOne, HubPlaces, workerVars
<1>5. ASSUME NEW s \in Sessions, Close(s) \/ Reopen(s) \/ Unblock(s) PROVE GcTypeOK'
  BY <1>5 DEF GcTypeOK, Close, Reopen, Unblock, workerVars
<1>6. ASSUME NEW s \in Sessions, NEW what \in {"retry", "final"}, Block(s, what) PROVE GcTypeOK'
  <2>1. counts' \in [arms : 0..MaxArms, starts : 0..MaxStarts, blocks : 0..MaxBlocks, faults : 0..MaxFaults]
    BY <1>6, GcAssumption DEF GcTypeOK, Block
  <2> QED
    BY <1>6, <2>1 DEF GcTypeOK, Block, workerVars
<1>7. ASSUME NEW s \in Sessions, Handoff(s) PROVE GcTypeOK'
  BY <1>7, CallerTypes
<1> QED
  BY <1>1, <1>2, <1>3, <1>4, <1>5, <1>6, <1>7 DEF HubStep, Environment

\* And a worker and its pass.
LEMMA WorkerTypes == ASSUME GcTypeOK, WorkerStep \/ WorkerFails \/ PassFails PROVE GcTypeOK'
<1> USE DEF GcTypeOK, sessionVars, workerVars, WorkerPlaces
<1>1. CASE WorkerLocks \/ WorkerLeaves \/ WorkerReleases
  BY <1>1 DEF WorkerLocks, WorkerLeaves, WorkerReleases
<1>2. CASE BeginPass
  <2>1. schedule \in Schedule
    BY <1>2 DEF BeginPass
  <2> QED
    BY <1>2, <2>1 DEF BeginPass, Schedule, Known, Reports
<1>3. ASSUME NEW s \in Sessions, PassOne(s) PROVE GcTypeOK'
  <2>1. phase' \in [Sessions -> {"live", "closed", "decided", "gone"}] /\ spurned' \in SUBSET Sessions
    BY <1>3 DEF PassOne, GcOne
  <2>2. PICK report \in Reports : pass' = [pass EXCEPT !.todo = pass.todo \ {s}, !.report = report]
    BY <1>3 DEF PassOne, Reports
  <2>3. pass' \in [revision : 0..(Revisions - 1), todo : SUBSET Sessions, report : Reports,
                   listed : SUBSET Sessions]
    BY <2>2
  <2> QED
    BY <1>3, <2>1, <2>3 DEF PassOne
<1>4. CASE EndPass
  BY <1>4 DEF EndPass
<1>5. CASE UpdateAfterPass
  <2>1. schedule' \in Schedule \cup {None}
    BY <1>5, WakesAre, RevisionsAre DEF UpdateAfterPass, Schedule
  <2>2. NoPass \in [revision : 0..(Revisions - 1), todo : SUBSET Sessions, report : Reports,
                    listed : SUBSET Sessions]
    BY RevisionsAre DEF NoPass, Reports
  <2> QED
    BY <1>5, <2>1, <2>2 DEF UpdateAfterPass
<1>6. CASE WorkerFails
  <2>1. NoPass \in [revision : 0..(Revisions - 1), todo : SUBSET Sessions, report : Reports,
                    listed : SUBSET Sessions]
    BY RevisionsAre DEF NoPass, Reports
  <2> QED
    BY <1>6, <2>1, FaultTypes DEF WorkerFails, Fault
<1>7. CASE PassFails
  BY <1>7, FaultTypes DEF PassFails, Reports
<1> QED
  BY <1>1, <1>2, <1>3, <1>4, <1>5, <1>6, <1>7 DEF WorkerStep

\* Every step keeps the types.
LEMMA GcTypeStep == ASSUME GcTypeOK, [Next]_vars PROVE GcTypeOK'
<1>1. CASE UNCHANGED vars
  BY <1>1 DEF GcTypeOK, vars, sessionVars, workerVars
<1> QED
  BY <1>1, TickTypes, CallerTypes, OtherTypes, WorkerTypes DEF Next, CallerStep, Faults

-----------------------------------------------------------------------------
(* Why no deadline is lost.  A pass overlaps with fewer arms than there    *)
(* are revisions, so that updateAfterPass finds the revision it has read   *)
(* only if nothing was armed meanwhile; and then every session that is     *)
(* owed a deadline was decided when the pass began, so that it has still   *)
(* to see it, or has given it up.                                          *)

\* What has been armed was decided.
Decisions ==
  \A s \in Sessions : s \in armed \/ caller[s] # "idle" => phase[s] \in {"decided", "gone"}

\* Each handoff that has yet to arm is counted.
Pending == {s \in Sessions : caller[s] = "arming"}
ArmsDone == counts.arms - Cardinality(Pending)
ArmsCounted == IsFiniteSet(Pending) /\ Cardinality(Pending) <= counts.arms

\* A pass that has found nothing to retry has given up what is owed, or will see it.
Seen == pass.report = "quiet" => \A s \in Sessions : Owed(s) => s \in pass.todo \/ s \in spurned

\* The revision that so many arms have made of another.
Later(r, arms) == IF r + arms < Revisions THEN r + arms ELSE r + arms - Revisions

\* A pass serves a deadline that is over; its revision is behind by the arms since.
Overlaps ==
  worker \in {"passing", "passed"} =>
    /\ schedule # None /\ schedule.due = 0
    /\ \E k \in 0 .. ArmsDone : schedule.revision = Later(pass.revision, k) /\ (k = 0 => Seen)

\* A pass that is over has seen every session it was to see.
Passed == worker = "passed" => pass.todo = {}

\* What DeadlineKept says besides the types.
InTime ==
  \A s \in Sessions : Owed(s) =>
    \/ schedule # None /\ schedule.due <= Max({window[s], Retry})
    \/ s \in spurned

KeptInv == GcTypeOK /\ Decisions /\ ArmsCounted /\ Overlaps /\ Passed /\ InTime

\* What an arm makes of a revision.
LEMMA NextIsLater ==
  ASSUME NEW r \in 0 .. (Revisions - 1), NEW k \in Nat, k + 1 < Revisions
  PROVE  /\ NextRevision(Later(r, k)) = Later(r, k + 1)
         /\ Later(r, k) \in 0 .. (Revisions - 1)
         /\ k # 0 => Later(r, k) # r
<1>1. Revisions \in Nat /\ Later(r, k) \in 0 .. (Revisions - 1) /\ (k # 0 => Later(r, k) # r)
  BY GcAssumption DEF Later
<1>2. ASSUME NEW x \in 0 .. (Revisions - 1)
      PROVE  (x + 1) % Revisions = IF x + 1 = Revisions THEN 0 ELSE x + 1
  BY GcAssumption
<1>3. NextRevision(Later(r, k)) = IF Later(r, k) + 1 = Revisions THEN 0 ELSE Later(r, k) + 1
  BY <1>1, <1>2 DEF NextRevision
<1>4. (IF Later(r, k) + 1 = Revisions THEN 0 ELSE Later(r, k) + 1) = Later(r, k + 1)
  BY <1>1 DEF Later
<1> QED
  BY <1>1, <1>3, <1>4

\* Handoffs that have yet to arm come with a handoff that is counted, and go when
\* they arm or fail.
LEMMA ArmsStep ==
  ASSUME GcTypeOK, ArmsCounted, [Next]_vars
  PROVE  /\ ArmsCounted' /\ ArmsDone \in Nat /\ ArmsDone' \in Nat
         /\ ArmsDone <= ArmsDone' /\ ArmsDone' <= MaxArms
         /\ \A s \in Sessions : Arm(s) => ArmsDone' = ArmsDone + 1
<1>1. /\ GcTypeOK' /\ Cardinality(Pending) \in Nat /\ counts.arms \in Nat
      /\ counts'.arms \in Nat /\ counts'.arms <= MaxArms /\ MaxArms \in Nat
  <2>1. GcTypeOK'
    BY GcTypeStep
  <2>2. counts.arms \in 0 .. MaxArms /\ counts'.arms \in 0 .. MaxArms
    BY <2>1 DEF GcTypeOK
  <2>3. Cardinality(Pending) \in Nat
    BY FS_CardinalityType DEF ArmsCounted
  <2> QED
    BY <2>1, <2>2, <2>3, GcAssumption
<1>2. ASSUME Pending' = Pending, counts'.arms = counts.arms
      PROVE  ArmsCounted' /\ ArmsDone' = ArmsDone
  BY <1>2 DEF ArmsCounted, ArmsDone
<1>3. ASSUME NEW s \in Sessions, Handoff(s)
      PROVE  ArmsCounted' /\ ArmsDone' = ArmsDone
  <2>1. caller[s] = "idle" /\ caller' = [caller EXCEPT ![s] = "arming"] /\ counts'.arms = counts.arms + 1
    BY <1>3, GcAssumption DEF Handoff, GcTypeOK
  <2>2. s \notin Pending /\ Pending' = Pending \cup {s}
    BY <2>1 DEF Pending, GcTypeOK
  <2>3. IsFiniteSet(Pending') /\ Cardinality(Pending') = Cardinality(Pending) + 1
    BY <2>2, FS_AddElement DEF ArmsCounted
  <2> QED
    BY <1>1, <2>1, <2>3 DEF ArmsCounted, ArmsDone
<1>4. ASSUME NEW s \in Sessions, caller[s] = "arming", caller'[s] # "arming", counts'.arms = counts.arms,
             \A t \in Sessions \ {s} : caller'[t] = caller[t]
      PROVE  ArmsCounted' /\ ArmsDone' = ArmsDone + 1
  <2>1. s \in Pending /\ Pending' = Pending \ {s}
    BY <1>4 DEF Pending
  <2>2. IsFiniteSet(Pending') /\ Cardinality(Pending') = Cardinality(Pending) - 1
    BY <2>1, FS_RemoveElement DEF ArmsCounted
  <2> QED
    BY <1>1, <1>4, <2>2 DEF ArmsCounted, ArmsDone
<1>5. ASSUME NEW s \in Sessions, Arm(s)
      PROVE  ArmsCounted' /\ ArmsDone' = ArmsDone + 1
  <2>1. caller[s] = "arming" /\ caller'[s] # "arming" /\ counts'.arms = counts.arms
        /\ \A t \in Sessions \ {s} : caller'[t] = caller[t]
    BY <1>5 DEF Arm, GcTypeOK
  <2> QED
    BY <1>4, <2>1
<1>6. ASSUME NEW s \in Sessions, CallerFails(s)
      PROVE  ArmsCounted' /\ (ArmsDone' = ArmsDone \/ ArmsDone' = ArmsDone + 1)
  <2>1. caller[s] # "idle" /\ caller' = [caller EXCEPT ![s] = "idle"] /\ counts'.arms = counts.arms
    BY <1>6, FaultTypes DEF CallerFails, Fault
  <2>2. CASE caller[s] = "arming"
    BY <1>4, <2>1, <2>2 DEF GcTypeOK
  <2>3. CASE caller[s] # "arming"
    <3>1. Pending' = Pending
      BY <2>1, <2>3 DEF Pending, GcTypeOK
    <3> QED
      BY <1>2, <2>1, <3>1
  <2> QED
    BY <2>2, <2>3
<1>7. ASSUME NEW s \in Sessions, ArmSpawns(s)
      PROVE  ArmsCounted' /\ ArmsDone' = ArmsDone
  <2>1. Pending' = Pending /\ counts'.arms = counts.arms
    BY <1>7 DEF ArmSpawns, Pending, GcTypeOK
  <2> QED
    BY <1>2, <2>1
<1>8. ASSUME UNCHANGED caller, counts'.arms = counts.arms
      PROVE  ArmsCounted' /\ ArmsDone' = ArmsDone
  BY <1>2, <1>8 DEF Pending
<1>9. ASSUME WorkerStep \/ HubStep \/ Tick \/ UNCHANGED vars
      PROVE  ArmsCounted' /\ ArmsDone' = ArmsDone
  <2>1. UNCHANGED <<caller, counts>>
    BY <1>9 DEF WorkerStep, WorkerLocks, WorkerLeaves, WorkerReleases, BeginPass, EndPass, UpdateAfterPass,
       PassOne, HubStep, HubCleaned, EnsureWorker, HubCleans, Tick, vars
  <2> QED
    BY <1>8, <2>1
<1>10. ASSUME WorkerFails \/ HubFails \/ PassFails
       PROVE  ArmsCounted' /\ ArmsDone' = ArmsDone
  <2>1. UNCHANGED caller /\ counts.faults < MaxFaults /\ counts' = [counts EXCEPT !.faults = @ + 1]
    BY <1>10 DEF WorkerFails, HubFails, PassFails, Fault
  <2>2. counts'.arms = counts.arms
    BY <2>1, FaultTypes
  <2> QED
    BY <1>8, <2>1, <2>2
<1>11. ASSUME NEW s \in Sessions, HubStarts \/ Close(s) \/ Reopen(s) \/ Block(s, "retry") \/ Block(s, "final") \/ Unblock(s)
       PROVE  ArmsCounted' /\ ArmsDone' = ArmsDone
  BY <1>8, <1>11 DEF HubStarts, Close, Reopen, Block, Unblock, GcTypeOK
<1>12. HubStarts => ArmsCounted' /\ ArmsDone' = ArmsDone
  BY <1>8 DEF HubStarts, GcTypeOK
<1>13. ArmsCounted' /\ (ArmsDone' = ArmsDone \/ ArmsDone' = ArmsDone + 1)
  BY <1>3, <1>5, <1>6, <1>7, <1>8, <1>9, <1>10, <1>11, <1>12 DEF Next, CallerStep, Faults, Environment
<1>14. Cardinality(Pending') \in Nat
  BY <1>13, FS_CardinalityType DEF ArmsCounted
<1> QED
  BY <1>1, <1>5, <1>13, <1>14 DEF ArmsCounted, ArmsDone

\* A decision is for good, and only a handoff makes one.
LEMMA PhaseMoves ==
  ASSUME GcTypeOK, [Next]_vars, NEW s \in Sessions
  PROVE  /\ phase[s] \in {"decided", "gone"} => phase'[s] \in {"decided", "gone"}
         /\ phase'[s] = "decided" => phase[s] = "decided" \/ (Handoff(s) /\ phase[s] = "closed")
<1> DEFINE Goal ==
      /\ phase[s] \in {"decided", "gone"} => phase'[s] \in {"decided", "gone"}
      /\ phase'[s] = "decided" => phase[s] = "decided" \/ (Handoff(s) /\ phase[s] = "closed")
<1>1. UNCHANGED phase => Goal
  OBVIOUS
<1>2. ASSUME NEW t \in Sessions, Handoff(t) PROVE Goal
  BY <1>2 DEF Handoff, GcTypeOK
<1>3. ASSUME NEW t \in Sessions, NEW code \in Codes, GcOne(t, code) PROVE Goal
  BY <1>3 DEF GcOne, GcTypeOK, Collectable
<1>4. ASSUME NEW t \in Sessions, Close(t) \/ Reopen(t) PROVE Goal
  BY <1>4 DEF Close, Reopen, GcTypeOK
<1>5. ASSUME NEW t \in Sessions, PassOne(t) \/ HubCleans(t) PROVE Goal
  BY <1>3, <1>5 DEF PassOne, HubCleans
<1> SUFFICES Goal
  OBVIOUS
<1> HIDE DEF Goal
<1>6. CASE Tick \/ UNCHANGED vars
  BY <1>1, <1>6 DEF Tick, vars, sessionVars
<1>7. CASE CallerStep
  BY <1>1, <1>7 DEF CallerStep, Arm, ArmSpawns, sessionVars
<1>8. CASE WorkerStep
  BY <1>1, <1>5, <1>8 DEF WorkerStep, WorkerLocks, WorkerLeaves, WorkerReleases, BeginPass, EndPass,
     UpdateAfterPass, sessionVars
<1>9. CASE HubStep
  BY <1>1, <1>5, <1>9 DEF HubStep, HubCleaned, EnsureWorker, sessionVars
<1>10. CASE Faults
  BY <1>1, <1>10 DEF Faults, WorkerFails, HubFails, PassFails, CallerFails, sessionVars
<1>11. CASE Environment
  BY <1>1, <1>2, <1>4, <1>11 DEF Environment, HubStarts, Block, Unblock, sessionVars
<1> QED
  BY <1>6, <1>7, <1>8, <1>9, <1>10, <1>11 DEF Next

\* What a step does to handoffs and to what is armed.
LEMMA ArmedMoves ==
  ASSUME GcTypeOK, [Next]_vars, NEW s \in Sessions
  PROVE  /\ s \in armed' => s \in armed \/ Arm(s)
         /\ caller'[s] # "idle" => caller[s] # "idle" \/ Handoff(s)
<1> DEFINE Goal ==
      /\ s \in armed' => s \in armed \/ Arm(s)
      /\ caller'[s] # "idle" => caller[s] # "idle" \/ Handoff(s)
<1>1. UNCHANGED <<armed, caller>> => Goal
  OBVIOUS
<1>2. ASSUME NEW t \in Sessions, Handoff(t) \/ Arm(t) \/ ArmSpawns(t) \/ CallerFails(t) PROVE Goal
  BY <1>2 DEF Handoff, Arm, ArmSpawns, CallerFails, GcTypeOK
<1> SUFFICES Goal
  OBVIOUS
<1> HIDE DEF Goal
<1>3. CASE Tick \/ UNCHANGED vars
  BY <1>1, <1>3 DEF Tick, vars
<1>4. CASE CallerStep
  BY <1>2, <1>4 DEF CallerStep
<1>5. CASE WorkerStep
  BY <1>1, <1>5 DEF WorkerStep, WorkerLocks, WorkerLeaves, WorkerReleases, BeginPass, EndPass,
     UpdateAfterPass, PassOne
<1>6. CASE HubStep
  BY <1>1, <1>6 DEF HubStep, HubCleaned, EnsureWorker, HubCleans
<1>7. CASE Faults
  BY <1>1, <1>2, <1>7 DEF Faults, WorkerFails, HubFails, PassFails
<1>8. CASE Environment
  BY <1>1, <1>2, <1>8 DEF Environment, HubStarts, Close, Reopen, Block, Unblock
<1> QED
  BY <1>3, <1>4, <1>5, <1>6, <1>7, <1>8 DEF Next

\* What is armed stays decided, and a deadline is newly owed by an arm only.
LEMMA DecisionsStep ==
  ASSUME GcTypeOK, Decisions, [Next]_vars
  PROVE  Decisions' /\ \A s \in Sessions : Owed(s)' => Owed(s) \/ Arm(s)
<1> SUFFICES ASSUME NEW s \in Sessions
             PROVE  /\ s \in armed' \/ caller'[s] # "idle" => phase'[s] \in {"decided", "gone"}
                    /\ Owed(s)' => Owed(s) \/ Arm(s)
  BY DEF Decisions
<1>1. Arm(s) => caller[s] # "idle"
  BY DEF Arm
<1>2. Handoff(s) => phase'[s] \in {"decided", "gone"}
  BY DEF Handoff, GcTypeOK
<1> QED
  BY <1>1, <1>2, PhaseMoves, ArmedMoves DEF Decisions, Owed

\* What the actions have to keep besides types and counts.
KeptParts == Overlaps /\ Passed /\ InTime

\* A pass that is where it was, over a deadline that is as it was, keeps it.
LEMMA DeadlineStays ==
  ASSUME KeptInv, [Next]_vars, UNCHANGED <<schedule, spurned>>,
         worker' \in {"passing", "passed"} => UNCHANGED <<worker, pass>>,
         \A s \in Sessions : Owed(s)' => Owed(s) /\ window'[s] = window[s]
  PROVE  KeptParts'
<1>1. ArmsDone \in Nat /\ ArmsDone' \in Nat /\ ArmsDone <= ArmsDone'
  BY ArmsStep DEF KeptInv
<1>2. InTime'
  BY DEF KeptInv, InTime
<1>3. Passed'
  BY DEF KeptInv, Passed
<1>4. Overlaps'
  <2> SUFFICES ASSUME worker' \in {"passing", "passed"}
               PROVE  \E k \in 0 .. ArmsDone' : schedule.revision = Later(pass.revision, k) /\ (k = 0 => Seen')
                      /\ schedule # None /\ schedule.due = 0
    BY DEF Overlaps
  <2>1. PICK k \in 0 .. ArmsDone : schedule.revision = Later(pass.revision, k) /\ (k = 0 => Seen)
    BY DEF KeptInv, Overlaps
  <2>2. Seen => Seen'
    BY DEF Seen
  <2>3. k \in 0 .. ArmsDone'
    BY <1>1
  <2> QED
    BY <2>1, <2>2, <2>3 DEF KeptInv, Overlaps
<1> QED
  BY <1>2, <1>3, <1>4 DEF KeptParts

\* Hubs, other processes and a worker outside of its pass.
LEMMA BystandersKeep ==
  ASSUME KeptInv, [Next]_vars,
         \/ HubStep \/ HubFails \/ Environment \/ UNCHANGED vars
         \/ WorkerLocks \/ WorkerLeaves \/ WorkerReleases
         \/ \E s \in Sessions : ArmSpawns(s) \/ CallerFails(s)
  PROVE  KeptParts'
<1>1. UNCHANGED <<schedule, spurned, armed>>
  BY DEF HubStep, HubCleaned, EnsureWorker, HubCleans, HubFails, Environment, HubStarts, Handoff, Close, Reopen,
     Block, Unblock, vars, WorkerLocks, WorkerLeaves, WorkerReleases, ArmSpawns, CallerFails, workerVars
<1>2. worker' \in {"passing", "passed"} => UNCHANGED <<worker, pass>>
  BY DEF HubStep, HubCleaned, EnsureWorker, HubCleans, HubFails, Environment, HubStarts, Handoff, Close, Reopen,
     Block, Unblock, vars, WorkerLocks, WorkerLeaves, WorkerReleases, ArmSpawns, CallerFails, workerVars
<1>3. ASSUME NEW s \in Sessions, Owed(s)'
      PROVE  Owed(s) /\ window'[s] = window[s]
  <2>1. s \in armed /\ phase'[s] = "decided"
    BY <1>1, <1>3 DEF Owed
  <2>2. phase[s] = "decided"
    BY <2>1, PhaseMoves DEF KeptInv, Decisions
  <2>3. ASSUME NEW t \in Sessions, Handoff(t) PROVE window'[s] = window[s]
    BY <2>2, <2>3 DEF Handoff, KeptInv, GcTypeOK
  <2>4. UNCHANGED window \/ \E t \in Sessions : Handoff(t)
    BY DEF HubStep, HubCleaned, EnsureWorker, HubCleans, HubFails, Environment, HubStarts, Close, Reopen,
       Block, Unblock, vars, WorkerLocks, WorkerLeaves, WorkerReleases, ArmSpawns, CallerFails, sessionVars
  <2> QED
    BY <2>1, <2>2, <2>3, <2>4 DEF Owed
<1> QED
  BY <1>1, <1>2, <1>3, DeadlineStays

\* Time takes from the deadline what it takes from the windows.
LEMMA TickKeeps == ASSUME KeptInv, Tick PROVE KeptParts'
<1>1. /\ \A s \in Sessions : window'[s] = Elapsed(window[s]) /\ (Owed(s)' <=> Owed(s))
      /\ UNCHANGED <<worker, pass, spurned>> /\ (schedule = None => schedule' = None)
  BY DEF Tick, workerVars, Owed
<1>2. ASSUME schedule # None
      PROVE  schedule' # None /\ schedule.due \in Nat /\ schedule'.due = Elapsed(schedule.due)
             /\ schedule'.revision = schedule.revision
  <2>1. schedule \in Schedule
    BY <1>2 DEF KeptInv, GcTypeOK
  <2>2. schedule' = [schedule EXCEPT !.due = Elapsed(schedule.due)]
    BY <1>2 DEF Tick
  <2>3. schedule' \in [due : Nat, revision : Nat] /\ schedule.due \in Nat
    BY <2>1, <2>2, TicksAre, GcAssumption DEF Schedule
  <2> QED
    BY <2>1, <2>2, <2>3, GcAssumption DEF Schedule
<1>3. ASSUME NEW s \in Sessions, Owed(s)'
      PROVE  \/ schedule' # None /\ schedule'.due <= Max({window'[s], Retry})
             \/ s \in spurned
  <2>1. window[s] \in Nat /\ window'[s] \in Nat /\ Retry \in Nat
    BY <1>1, TicksAre, GcAssumption DEF KeptInv, GcTypeOK, Elapsed
  <2>2. s \in spurned \/ (schedule # None /\ schedule.due <= Max({window[s], Retry}))
    BY <1>1, <1>3 DEF KeptInv, InTime
  <2> QED
    BY <1>1, <1>2, <2>1, <2>2, MaxOfTwo DEF Elapsed
<1>4. InTime'
  BY <1>1, <1>3 DEF InTime
<1>5. Passed'
  BY <1>1 DEF KeptInv, Passed
<1>6. ArmsDone' = ArmsDone /\ (Seen => Seen')
  BY <1>1 DEF Tick, ArmsDone, Pending, Seen
<1>7. Overlaps'
  BY <1>1, <1>2, <1>6 DEF KeptInv, Overlaps, Elapsed
<1> QED
  BY <1>4, <1>5, <1>7 DEF KeptParts

\* An arm keeps the earlier deadline, and makes a revision that no pass under way has read.
LEMMA ArmKeeps ==
  ASSUME KeptInv, [Next]_vars, NEW s \in Sessions, Arm(s)
  PROVE  KeptParts'
<1>1. GcTypeOK /\ window[s] \in Ticks /\ Retry \in Nat /\ Ticks \subseteq Nat
  BY TicksAre, GcAssumption DEF KeptInv, GcTypeOK
<1>2. /\ UNCHANGED <<phase, window, worker, pass, spurned>> /\ armed' = armed \cup {s}
      /\ schedule' = IF schedule = None THEN [due |-> window[s], revision |-> 1]
                     ELSE [due |-> Min({schedule.due, window[s]}), revision |-> NextRevision(schedule.revision)]
  BY DEF Arm, sessionVars, workerVars
<1>3. /\ schedule' # None /\ schedule'.due \in Nat /\ schedule'.due <= window[s]
      /\ schedule # None => /\ schedule.due \in Nat /\ schedule'.due <= schedule.due
                            /\ schedule'.revision = NextRevision(schedule.revision)
  <2>1. CASE schedule = None
    <3>1. schedule' \in [due : Nat, revision : Nat]
      BY <1>1, <1>2, <2>1
    <3> QED
      BY <1>1, <1>2, <2>1, <3>1, GcAssumption
  <2>2. CASE schedule # None
    <3>1. schedule.due \in Ticks /\ schedule.revision \in 0 .. (Revisions - 1)
      BY <1>1, <2>2 DEF GcTypeOK, Schedule
    <3>2. schedule' \in [due : Nat, revision : Nat]
      <4>1. Min({schedule.due, window[s]}) \in Nat
        BY <1>1, <3>1, EarlierIsTick
      <4>2. NextRevision(schedule.revision) \in Nat
        BY <3>1, RevisionsAre, GcAssumption
      <4> QED
        BY <1>2, <2>2, <4>1, <4>2
    <3> QED
      BY <1>1, <1>2, <2>2, <3>1, <3>2, EarlierIsTick, GcAssumption
  <2> QED
    BY <2>1, <2>2
<1>4. ASSUME NEW t \in Sessions, Owed(t)'
      PROVE  schedule'.due <= Max({window[t], Retry}) \/ t \in spurned
  <2>1. window[t] \in Nat
    BY <1>1 DEF GcTypeOK
  <2>2. t = s \/ Owed(t)
    BY <1>2, <1>4 DEF Owed
  <2>3. CASE t = s
    BY <1>1, <1>3, <2>1, <2>3, MaxOfTwo
  <2>4. CASE Owed(t)
    BY <1>1, <1>3, <2>1, <2>4, MaxOfTwo DEF KeptInv, InTime
  <2> QED
    BY <2>2, <2>3, <2>4
<1>5. InTime'
  BY <1>2, <1>3, <1>4 DEF InTime
<1>6. Passed'
  BY <1>2 DEF KeptInv, Passed
<1>7. Overlaps'
  <2> SUFFICES ASSUME worker \in {"passing", "passed"}
               PROVE  /\ schedule'.due = 0
                      /\ \E k \in 0 .. ArmsDone' : schedule'.revision = Later(pass.revision, k) /\ (k = 0 => Seen')
    BY <1>2, <1>3 DEF Overlaps
  <2>1. PICK k \in 0 .. ArmsDone : schedule.revision = Later(pass.revision, k) /\ schedule # None /\ schedule.due = 0
    BY DEF KeptInv, Overlaps
  <2>2. ArmsDone \in Nat /\ ArmsDone' = ArmsDone + 1 /\ ArmsDone' <= MaxArms /\ MaxArms + 1 < Revisions
    BY ArmsStep, GcAssumption DEF KeptInv
  <2>3. schedule'.revision = Later(pass.revision, k + 1)
    BY <1>1, <1>3, <2>1, <2>2, NextIsLater, GcAssumption DEF GcTypeOK
  <2>4. k + 1 \in 0 .. ArmsDone' /\ k + 1 # 0
    BY <2>2
  <2> QED
    BY <1>3, <2>1, <2>3, <2>4
<1> QED
  BY <1>5, <1>6, <1>7 DEF KeptParts

\* A pass begins with the revision it reads, and will see every session there is.
LEMMA BeginPassKeeps == ASSUME KeptInv, [Next]_vars, BeginPass PROVE KeptParts'
<1>1. /\ schedule # None /\ schedule.due = 0 /\ worker' = "passing" /\ pass'.revision = schedule.revision
      /\ pass'.todo = IF HubHasAdmin THEN {} ELSE Known
      /\ pass'.report = IF HubHasAdmin THEN "retry" ELSE "quiet"
      /\ UNCHANGED <<sessionVars, spurned, schedule, armed>>
  BY DEF BeginPass
<1>2. InTime'
  BY <1>1 DEF KeptInv, InTime, Owed, sessionVars
<1>3. Passed'
  BY <1>1 DEF Passed
<1>4. Seen'
  BY <1>1 DEF Seen, Known, Owed, sessionVars
<1>5. schedule.revision = Later(schedule.revision, 0)
  BY <1>1, GcAssumption DEF KeptInv, GcTypeOK, Schedule, Later
<1>6. ArmsDone' \in Nat
  BY ArmsStep DEF KeptInv
<1>7. Overlaps'
  BY <1>1, <1>4, <1>5, <1>6 DEF Overlaps
<1> QED
  BY <1>2, <1>3, <1>7 DEF KeptParts

\* A session that is owed its deadline is retried or given up once a pass has seen it.
LEMMA PassOneKeeps == ASSUME KeptInv, [Next]_vars, NEW s \in Sessions, PassOne(s) PROVE KeptParts'
<1>1. PICK code \in Codes :
        /\ GcOne(s, code)
        /\ spurned' = IF code = "final" THEN spurned \cup {s} ELSE spurned \ {s}
        /\ pass' = [pass EXCEPT !.todo = @ \ {s}, !.report = IF code = "retry" THEN "retry" ELSE @]
  BY DEF PassOne
<1>2. /\ worker = "passing" /\ UNCHANGED <<window, blocker, worker, schedule, armed>>
      /\ pass'.revision = pass.revision /\ pass'.todo = pass.todo \ {s}
      /\ pass'.report = IF code = "retry" THEN "retry" ELSE pass.report
  BY <1>1 DEF PassOne, KeptInv, GcTypeOK
<1>3. \A t \in Sessions : Owed(t)' => Owed(t)
  BY <1>2, PhaseMoves DEF KeptInv, Decisions, Owed
<1>4. Owed(s)' => code \in {"retry", "final"}
  <2> SUFFICES ASSUME Owed(s)' PROVE code \in {"retry", "final"}
    OBVIOUS
  <2>1. phase[s] = "decided" /\ phase'[s] = "decided"
    BY <1>3 DEF Owed
  <2>2. ~Collectable(s) /\ code \in Retained(s)
    BY <1>1, <2>1 DEF GcOne, KeptInv, GcTypeOK
  <2>3. blocker[s] \in {"none", "retry", "final"} /\ window[s] \in Nat
    BY TicksAre DEF KeptInv, GcTypeOK
  <2> QED
    BY <2>1, <2>2, <2>3 DEF Retained, Collectable
<1>5. schedule # None /\ schedule.due = 0
  BY <1>2 DEF KeptInv, Overlaps
<1>6. InTime'
  <2>1. ASSUME NEW t \in Sessions PROVE 0 <= Max({window[t], Retry})
    <3>1. window[t] \in Nat /\ Retry \in Nat
      BY TicksAre, GcAssumption DEF KeptInv, GcTypeOK
    <3> QED
      BY <3>1, MaxOfTwo
  <2> QED
    BY <1>2, <1>5, <2>1 DEF InTime
<1>7. Passed'
  BY <1>2 DEF Passed
<1>8. Seen => Seen'
  BY <1>1, <1>2, <1>3, <1>4 DEF Seen
<1>9. ArmsDone \in Nat /\ ArmsDone' \in Nat /\ ArmsDone <= ArmsDone'
  BY ArmsStep DEF KeptInv
<1>10. Overlaps'
  <2>1. PICK k \in 0 .. ArmsDone : schedule.revision = Later(pass.revision, k) /\ (k = 0 => Seen)
    BY <1>2 DEF KeptInv, Overlaps
  <2>2. k \in 0 .. ArmsDone'
    BY <1>9
  <2> QED
    BY <1>2, <1>5, <1>8, <2>1, <2>2 DEF Overlaps
<1> QED
  BY <1>6, <1>7, <1>10 DEF KeptParts

\* A pass that is over has seen all of them, or has no report.
LEMMA EndPassKeeps == ASSUME KeptInv, [Next]_vars, EndPass \/ PassFails PROVE KeptParts'
<1>1. /\ worker = "passing" /\ UNCHANGED <<sessionVars, spurned, schedule, armed>>
      /\ pass'.revision = pass.revision /\ pass'.todo = {}
      /\ pass'.report = "quiet" => pass.todo = {} /\ pass.report = "quiet"
  BY DEF EndPass, PassFails, KeptInv, GcTypeOK
<1>2. InTime'
  BY <1>1 DEF KeptInv, InTime, Owed, sessionVars
<1>3. Passed'
  BY <1>1 DEF Passed
<1>4. Seen => Seen'
  BY <1>1 DEF Seen, Owed, sessionVars
<1>5. ArmsDone \in Nat /\ ArmsDone' \in Nat /\ ArmsDone <= ArmsDone'
  BY ArmsStep DEF KeptInv
<1>6. Overlaps'
  <2>1. PICK k \in 0 .. ArmsDone : schedule.revision = Later(pass.revision, k) /\ (k = 0 => Seen)
    BY <1>1 DEF KeptInv, Overlaps
  <2>2. k \in 0 .. ArmsDone'
    BY <1>5
  <2> QED
    BY <1>1, <1>4, <2>1, <2>2 DEF KeptInv, Overlaps
<1> QED
  BY <1>2, <1>3, <1>6 DEF KeptParts

\* The revision that a pass has read means that nothing was armed since; what is
\* owed then is retried or given up.
LEMMA UpdateKeeps == ASSUME KeptInv, [Next]_vars, UpdateAfterPass PROVE KeptParts'
<1>1. worker = "passed" /\ worker' \in {"loop", "leaving"} /\ UNCHANGED <<sessionVars, spurned, armed>>
  BY DEF UpdateAfterPass
<1>2. schedule # None /\ pass.todo = {} /\ GcTypeOK
  BY <1>1 DEF KeptInv, Overlaps, Passed
<1>3. CASE UNCHANGED schedule
  BY <1>1, <1>3 DEF KeptParts, KeptInv, Overlaps, Passed, InTime, Owed, sessionVars
<1>4. CASE schedule.revision = pass.revision
  <2>1. Seen
    <3>1. PICK k \in 0 .. ArmsDone : schedule.revision = Later(pass.revision, k) /\ (k = 0 => Seen)
      BY <1>1 DEF KeptInv, Overlaps
    <3>2. ArmsDone \in Nat /\ ArmsDone <= MaxArms /\ MaxArms + 1 < Revisions /\ MaxArms \in Nat
      <4>1. ArmsDone \in Nat /\ ArmsDone <= ArmsDone' /\ ArmsDone' \in Nat /\ ArmsDone' <= MaxArms
        BY ArmsStep DEF KeptInv
      <4> QED
        BY <4>1, GcAssumption
    <3>3. k + 1 < Revisions /\ k \in Nat /\ pass.revision \in 0 .. (Revisions - 1)
      BY <1>2, <3>2, GcAssumption DEF GcTypeOK
    <3>4. k = 0
      BY <1>4, <3>1, <3>3, NextIsLater
    <3> QED
      BY <3>1, <3>4
  <2>2. pass.report = "quiet" => \A s \in Sessions : Owed(s) => s \in spurned
    BY <1>2, <2>1 DEF Seen
  <2>3. pass.report # "quiet" => Retry \in Wakes
    BY DEF Wakes
  <2>4. ASSUME pass.report # "quiet"
        PROVE  schedule' # None /\ schedule'.due <= Retry /\ schedule'.due \in Nat
    <3>1. Wakes # {} /\ schedule' = [due |-> Min(Wakes), revision |-> NextRevision(schedule.revision)]
      BY <1>2, <1>4, <2>3, <2>4 DEF UpdateAfterPass
    <3>2. Min(Wakes) \in Nat /\ Min(Wakes) <= Retry
      BY <1>2, <2>3, <2>4, <3>1, WakesAre, TicksAre
    <3>3. NextRevision(schedule.revision) \in Nat
      BY <1>2, RevisionsAre, GcAssumption DEF GcTypeOK, Schedule
    <3>4. schedule' \in [due : Nat, revision : Nat]
      BY <3>1, <3>2, <3>3
    <3> QED
      BY <3>1, <3>2, <3>4, GcAssumption
  <2>5. ASSUME NEW s \in Sessions, Owed(s)', s \notin spurned
        PROVE  schedule' # None /\ schedule'.due <= Max({window'[s], Retry})
    <3>1. Owed(s) /\ window'[s] \in Nat /\ Retry \in Nat
      BY <1>1, <1>2, <2>5, TicksAre, GcAssumption DEF Owed, sessionVars, GcTypeOK
    <3> QED
      BY <2>2, <2>4, <2>5, <3>1, MaxOfTwo
  <2>6. InTime'
    BY <1>1, <2>5 DEF InTime
  <2> QED
    BY <1>1, <2>6 DEF KeptParts, Overlaps, Passed
<1> QED
  BY <1>2, <1>3, <1>4 DEF UpdateAfterPass

\* A worker that fails leaves the deadline where it was.
LEMMA WorkerFailsKeeps == ASSUME KeptInv, WorkerFails PROVE KeptParts'
BY DEF WorkerFails, KeptParts, KeptInv, Overlaps, Passed, InTime, Owed, sessionVars

\* The invariant is inductive.
LEMMA KeptStep == ASSUME KeptInv, [Next]_vars PROVE KeptInv'
<1>1. GcTypeOK' /\ Decisions' /\ ArmsCounted'
  BY GcTypeStep, DecisionsStep, ArmsStep DEF KeptInv
<1>2. KeptParts'
  BY BystandersKeep, TickKeeps, ArmKeeps, BeginPassKeeps, PassOneKeeps, EndPassKeeps, UpdateKeeps, WorkerFailsKeeps
  DEF Next, CallerStep, WorkerStep, Faults
<1> QED
  BY <1>1, <1>2 DEF KeptInv, KeptParts

\* The deadline of a decided session is not lost, put off beyond its window or a
\* retry, or taken back by the pass of an older one (GcCoordinator.arm,
\* updateAfterPass), for any sessions and windows.
THEOREM DeadlineIsKept == Spec => []DeadlineKept
<1>1. Init => KeptInv
  <2> SUFFICES ASSUME Init PROVE KeptInv
    OBVIOUS
  <2>1. GcTypeOK
    <3>1. NoPass \in [revision : 0..(Revisions - 1), todo : SUBSET Sessions, report : Reports,
                      listed : SUBSET Sessions]
      BY RevisionsAre DEF NoPass, Reports
    <3>2. phase \in [Sessions -> {"live", "closed", "decided", "gone"}]
      BY DEF Init
    <3>3. window \in [Sessions -> Ticks] /\ schedule \in Schedule \cup {None}
      BY TicksAre DEF Init
    <3>4. counts \in [arms : 0..MaxArms, starts : 0..MaxStarts, blocks : 0..MaxBlocks, faults : 0..MaxFaults]
      BY GcAssumption DEF Init
    <3>5. NoHub \in [place : HubPlaces, todo : SUBSET Sessions]
      BY DEF NoHub, HubPlaces
    <3> QED
      BY <3>1, <3>2, <3>3, <3>4, <3>5 DEF Init, GcTypeOK, CallerPlaces, WorkerPlaces
  <2>2. Pending = {}
    BY DEF Init, Pending
  <2>3. ArmsCounted
    BY <2>2, FS_EmptySet DEF Init, ArmsCounted
  <2> QED
    BY <2>1, <2>3 DEF Init, KeptInv, Decisions, Overlaps, Passed, InTime, Owed
<1>2. KeptInv /\ [Next]_vars => KeptInv'
  BY KeptStep
<1>3. KeptInv => DeadlineKept
  BY DEF KeptInv, InTime, DeadlineKept
<1> QED
  BY <1>1, <1>2, <1>3, PTL DEF Spec

=============================================================================
