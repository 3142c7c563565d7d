--------------------------- MODULE GcCoordinator ---------------------------
(***************************************************************************)
(* The durable wake-up of garbage collection                               *)
(* (src/workspace/gc-coordinator.ts, src/gc-worker.ts) over one hub home:  *)
(* a file with a deadline, the processes that arm it when a consumer       *)
(* decides a session, the detached workers that serve it, and hubs that    *)
(* start and catch up.                                                     *)
(*                                                                         *)
(* Time is relative: a window, or the deadline, is the ticks that are left *)
(* of it.  A worker that sleeps polls, so it is merely slow.  What a pass  *)
(* finds of a session besides its window is its blocker; module Ownership  *)
(* says where blockers come from, module Custody how a deletion survives   *)
(* the death of the process that does it (here it is one step).  What runs *)
(* under the lock of the schedule (withStateLock) is one step as well; a   *)
(* process that finds it busy for two seconds throws, which is a fault.    *)
(***************************************************************************)
EXTENDS Integers, FiniteSets, FiniteSetsExt

CONSTANTS
  Sessions,   \* sessions of the home
  None,       \* no schedule
  Windows,    \* retention windows, in ticks (AGENT_HUB retentionMs)
  Retry,      \* RETRY_MS, in ticks
  Revisions,  \* revisions are counted modulo this
  MaxArms,    \* bound: handoffs, first tries and repeats
  MaxStarts,  \* bound: hubs that start
  MaxBlocks,  \* bound: times a decided session gets a blocker
  MaxFaults   \* bound: processes that die or fail

\* One of the windows is the longest; and a pass overlaps with fewer changes of the
\* file than there are revisions.
ASSUME GcAssumption ==
  /\ None \notin [due : Nat, revision : Nat]
  /\ Windows \subseteq Nat \ {0} /\ Retry \in Nat \ {0}
  /\ \E longest \in Windows \cup {Retry} : \A ticks \in Windows \cup {Retry} : ticks <= longest
  /\ MaxArms \in Nat /\ MaxStarts \in Nat /\ MaxBlocks \in Nat /\ MaxFaults \in Nat
  /\ Revisions \in Nat /\ Revisions > MaxArms + 1

VARIABLES
  phase,      \* of each session: "live", "closed", "decided" or "gone"
  window,     \* ticks left of its retention, from its decision on
  blocker,    \* what else keeps it: nothing, something to "retry", something "final"
  schedule,   \* gc/coordinator.json: the deadline and its revision
  caller,     \* where each session's handoff is
  waiting,    \* workers that wait for the worker lock
  worker,     \* where the worker that holds it is
  pass,       \* its pass: the revision it read, sessions to do, report, records
  hub,        \* a hub that starts: where it is, and sessions its cleanup has to do
  armed,      \* history: sessions whose handoff armed the deadline
  spurned,    \* history: decided sessions the last pass retained for good
  counts,     \* history: how much of each bound is used
  dropped     \* history: a fault since a worker was last started

sessionVars == <<phase, window, blocker>>
workerVars  == <<worker, pass, spurned>>
vars == <<sessionVars, workerVars, schedule, caller, waiting, hub, armed, counts, dropped>>

-----------------------------------------------------------------------------
WorkerPlaces == {"none", "loop", "passing", "passed", "leaving"}
CallerPlaces == {"idle", "arming", "spawning"}
HubPlaces    == {"none", "cleaning", "ensuring"}
Codes        == {"retry", "final", "undecided", "deleted"}
Reports      == {"null", "quiet", "retry"}
Ticks        == 0..Max(Windows \cup {Retry})

Schedule == [due : Ticks, revision : 0..(Revisions - 1)]

GcTypeOK ==
  /\ phase \in [Sessions -> {"live", "closed", "decided", "gone"}]
  /\ window \in [Sessions -> Ticks]
  /\ blocker \in [Sessions -> {"none", "retry", "final"}]
  /\ schedule \in Schedule \cup {None}
  /\ caller \in [Sessions -> CallerPlaces]
  /\ waiting \in Nat
  /\ worker \in WorkerPlaces
  /\ pass \in [revision : 0..(Revisions - 1), todo : SUBSET Sessions, report : Reports,
               listed : SUBSET Sessions]
  /\ hub \in [place : HubPlaces, todo : SUBSET Sessions]
  /\ armed \in SUBSET Sessions /\ spurned \in SUBSET Sessions /\ dropped \in BOOLEAN
  /\ counts \in [arms : 0..MaxArms, starts : 0..MaxStarts, blocks : 0..MaxBlocks,
                 faults : 0..MaxFaults]

NoPass == [revision |-> 0, todo |-> {}, report |-> "null", listed |-> {}]
NoHub  == [place |-> "none", todo |-> {}]

Init ==
  /\ phase \in [Sessions -> {"live", "closed"}]
  /\ window = [s \in Sessions |-> 0]
  /\ blocker = [s \in Sessions |-> "none"]
  /\ schedule = None
  /\ caller = [s \in Sessions |-> "idle"]
  /\ waiting = 0 /\ worker = "none" /\ pass = NoPass /\ hub = NoHub
  /\ armed = {} /\ spurned = {} /\ dropped = FALSE
  /\ counts = [arms |-> 0, starts |-> 0, blocks |-> 0, faults |-> 0]

-----------------------------------------------------------------------------
(* Time, the admin lock and processes.                                     *)

Elapsed(ticks) == IF ticks = 0 THEN 0 ELSE ticks - 1

Tick ==
  /\ window' = [s \in Sessions |-> Elapsed(window[s])]
  /\ schedule' = IF schedule = None THEN None
                 ELSE [schedule EXCEPT !.due = Elapsed(schedule.due)]
  /\ UNCHANGED <<phase, blocker, workerVars, caller, waiting, hub, armed, counts, dropped>>

\* withAdminLock with waitMs 0: two passes exclude each other.
WorkerHasAdmin == worker = "passing" /\ pass.report # "null"
HubHasAdmin    == hub.place = "cleaning"

\* spawnDetachedGcWorker
SpawnWorker == waiting' = waiting + 1 /\ dropped' = FALSE

NextRevision(r) == (r + 1) % Revisions

Fault ==
  /\ counts.faults < MaxFaults
  /\ counts' = [counts EXCEPT !.faults = @ + 1]
  /\ dropped' = TRUE

-----------------------------------------------------------------------------
(* A handoff: the decision, then arm.                                      *)

\* The decision is committed, or repeated, which returns the record as it is.
Handoff(s) ==
  /\ caller[s] = "idle" /\ counts.arms < MaxArms
  /\ \/ /\ phase[s] = "closed"
        /\ \E w \in Windows : window' = [window EXCEPT ![s] = w]
        /\ phase' = [phase EXCEPT ![s] = "decided"]
     \/ phase[s] = "decided" /\ UNCHANGED <<phase, window>>
  /\ counts' = [counts EXCEPT !.arms = @ + 1]
  /\ caller' = [caller EXCEPT ![s] = "arming"]
  /\ UNCHANGED <<blocker, workerVars, schedule, waiting, hub, armed, dropped>>

\* The earlier deadline stays; every write is a revision.
Arm(s) ==
  /\ caller[s] = "arming"
  /\ schedule' = IF schedule = None THEN [due |-> window[s], revision |-> 1]
                 ELSE [due |-> Min({schedule.due, window[s]}),
                       revision |-> NextRevision(schedule.revision)]
  /\ caller' = [caller EXCEPT ![s] = "spawning"]
  /\ armed' = armed \cup {s}
  /\ UNCHANGED <<sessionVars, workerVars, waiting, hub, counts, dropped>>

ArmSpawns(s) ==
  /\ caller[s] = "spawning" /\ SpawnWorker
  /\ caller' = [caller EXCEPT ![s] = "idle"]
  /\ UNCHANGED <<sessionVars, workerVars, schedule, hub, armed, counts>>

\* The caller dies, or arm throws: the lock of a caller that waits is busy for
\* two seconds, or a worker cannot be spawned.
CallerFails(s) ==
  /\ caller[s] # "idle" /\ Fault
  /\ caller' = [caller EXCEPT ![s] = "idle"]
  /\ UNCHANGED <<sessionVars, workerVars, schedule, waiting, hub, armed>>

-----------------------------------------------------------------------------
(* The gates of gcOne that matter here.                                    *)

Collectable(s) == phase[s] = "decided" /\ window[s] = 0 /\ blocker[s] = "none"

\* The code of a retained session: retryable, or not.  Some of the final codes
\* are found before the window is looked at, and some after.
Retained(s) ==
  CASE phase[s] = "live"   -> {"retry"}
    [] phase[s] = "closed" -> {"undecided"}
    [] OTHER -> IF blocker[s] = "final" /\ window[s] > 0 THEN {"retry", "final"}
                ELSE IF window[s] > 0 THEN {"retry"} ELSE {blocker[s]}

\* recover and gc have seen the session: it is gone, or retained with a code.
GcOne(s, code) ==
  \/ Collectable(s) /\ code = "deleted" /\ phase' = [phase EXCEPT ![s] = "gone"]
  \/ ~Collectable(s) /\ phase[s] # "gone" /\ code \in Retained(s) /\ UNCHANGED phase
  \/ phase[s] = "gone" /\ code = "deleted" /\ UNCHANGED phase

-----------------------------------------------------------------------------
(* The worker.                                                             *)

\* What a worker would do that gives up when another one holds the lock.
WorkerLocksOrLeaves ==
  /\ waiting > 0 /\ waiting' = waiting - 1
  /\ worker' = IF worker = "none" THEN "loop" ELSE worker
  /\ UNCHANGED <<sessionVars, pass, spurned, schedule, caller, hub, armed, counts, dropped>>

\* runGcWorker: the lock is waited for without a deadline.
WorkerLocks ==
  /\ worker = "none" /\ waiting > 0
  /\ worker' = "loop" /\ waiting' = waiting - 1
  /\ UNCHANGED <<sessionVars, pass, spurned, schedule, caller, hub, armed, counts, dropped>>

\* No schedule: the worker is done.  A deadline ahead: it sleeps and looks again.
WorkerLeaves ==
  /\ worker = "loop" /\ schedule = None
  /\ worker' = "leaving"
  /\ UNCHANGED <<sessionVars, pass, spurned, schedule, caller, waiting, hub, armed, counts, dropped>>

\* Between its last look at the schedule and the release of its lock.
WorkerReleases ==
  /\ worker = "leaving" /\ worker' = "none"
  /\ UNCHANGED <<sessionVars, pass, spurned, schedule, caller, waiting, hub, armed, counts, dropped>>

Known == {s \in Sessions : phase[s] # "gone"}

\* The deadline is over.  With the admin lock taken the whole pass is retained,
\* with a code that is retried.
BeginPass ==
  /\ worker = "loop" /\ schedule # None /\ schedule.due = 0
  /\ worker' = "passing"
  /\ pass' = [revision |-> schedule.revision, todo |-> IF HubHasAdmin THEN {} ELSE Known,
              report |-> IF HubHasAdmin THEN "retry" ELSE "quiet", listed |-> {}]
  /\ UNCHANGED <<sessionVars, spurned, schedule, caller, waiting, hub, armed, counts, dropped>>

PassOne(s) ==
  /\ worker = "passing" /\ s \in pass.todo
  /\ \E code \in Codes :
       /\ GcOne(s, code)
       /\ spurned' = IF code = "final" THEN spurned \cup {s} ELSE spurned \ {s}
       /\ pass' = [pass EXCEPT !.todo = @ \ {s},
                               !.report = IF code = "retry" THEN "retry" ELSE @]
  /\ UNCHANGED <<window, blocker, worker, schedule, caller, waiting, hub, armed, counts, dropped>>

\* list, after the pass.
EndPass ==
  /\ worker = "passing" /\ pass.todo = {}
  /\ worker' = "passed"
  /\ pass' = [pass EXCEPT !.listed = {s \in Sessions : phase[s] = "decided"}]
  /\ UNCHANGED <<sessionVars, spurned, schedule, caller, waiting, hub, armed, counts, dropped>>

\* recover, gc or list throws: there is no report, and there are no records.
PassFails ==
  /\ worker = "passing" /\ counts.faults < MaxFaults
  /\ counts' = [counts EXCEPT !.faults = @ + 1]
  /\ worker' = "passed"
  /\ pass' = [pass EXCEPT !.todo = {}, !.report = "null"]
  /\ UNCHANGED <<sessionVars, spurned, schedule, caller, waiting, hub, armed, dropped>>

\* What the wake-up would be without the retry.
WakesOfWindows == {window[s] : s \in {t \in pass.listed : window[t] > 0}}

\* The next wake-up: the first window that is still running, and the retry.
Wakes ==
  {window[s] : s \in {t \in pass.listed : window[t] > 0}}
    \cup (IF pass.report = "quiet" THEN {} ELSE {Retry})

\* What updateAfterPass would be without the revision.
UpdateAfterPassBlindly ==
  /\ worker = "passed" /\ pass' = NoPass
  /\ schedule' = IF Wakes = {} \/ schedule = None THEN None
                 ELSE [due |-> Min(Wakes), revision |-> NextRevision(schedule.revision)]
  /\ worker' = IF schedule' = None THEN "leaving" ELSE "loop"
  /\ UNCHANGED <<sessionVars, spurned, caller, waiting, hub, armed, counts, dropped>>

\* updateAfterPass: a schedule that changed since it was read is left alone.
UpdateAfterPass ==
  /\ worker = "passed" /\ pass' = NoPass
  /\ \/ /\ schedule = None
        /\ worker' = "leaving" /\ UNCHANGED schedule
     \/ /\ schedule # None /\ schedule.revision # pass.revision
        /\ worker' = "loop" /\ UNCHANGED schedule
     \/ /\ schedule # None /\ schedule.revision = pass.revision /\ Wakes # {}
        /\ schedule' = [due |-> Min(Wakes), revision |-> NextRevision(schedule.revision)]
        /\ worker' = "loop"
     \/ /\ schedule # None /\ schedule.revision = pass.revision /\ Wakes = {}
        /\ schedule' = None /\ worker' = "leaving"
  /\ UNCHANGED <<sessionVars, spurned, caller, waiting, hub, armed, counts, dropped>>

\* The worker dies, or the lock of the schedule is busy for two seconds after a
\* pass: runGcWorker throws, and the deadline is nobody's.
WorkerFails ==
  /\ worker # "none" /\ Fault
  /\ worker' = "none" /\ pass' = NoPass
  /\ UNCHANGED <<sessionVars, spurned, schedule, caller, waiting, hub, armed>>

-----------------------------------------------------------------------------
(* A hub that starts: a pass of its own, then ensureWorker.                *)

HubStarts ==
  /\ hub.place = "none" /\ counts.starts < MaxStarts
  /\ counts' = [counts EXCEPT !.starts = @ + 1]
  /\ hub' = IF WorkerHasAdmin THEN [place |-> "ensuring", todo |-> {}]
            ELSE [place |-> "cleaning", todo |-> Known]
  /\ UNCHANGED <<sessionVars, workerVars, schedule, caller, waiting, armed, dropped>>

HubCleans(s) ==
  /\ hub.place = "cleaning" /\ s \in hub.todo
  /\ \E code \in Codes : GcOne(s, code)
  /\ hub' = [hub EXCEPT !.todo = @ \ {s}]
  /\ UNCHANGED <<window, blocker, workerVars, schedule, caller, waiting, armed, counts, dropped>>

HubCleaned ==
  /\ hub.place = "cleaning" /\ hub.todo = {}
  /\ hub' = [hub EXCEPT !.place = "ensuring"]
  /\ UNCHANGED <<sessionVars, workerVars, schedule, caller, waiting, armed, counts, dropped>>

EnsureWorker ==
  /\ hub.place = "ensuring"
  /\ IF schedule = None THEN UNCHANGED <<waiting, dropped>> ELSE SpawnWorker
  /\ hub' = NoHub
  /\ UNCHANGED <<sessionVars, workerVars, schedule, caller, armed, counts>>

HubFails ==
  /\ hub.place # "none" /\ Fault
  /\ hub' = NoHub
  /\ UNCHANGED <<sessionVars, workerVars, schedule, caller, waiting, armed>>

-----------------------------------------------------------------------------
(* What others do to sessions.                                             *)

Close(s) ==
  /\ phase[s] = "live" /\ phase' = [phase EXCEPT ![s] = "closed"]
  /\ UNCHANGED <<window, blocker, workerVars, schedule, caller, waiting, hub, armed, counts, dropped>>

Reopen(s) ==
  /\ phase[s] = "closed" /\ phase' = [phase EXCEPT ![s] = "live"]
  /\ UNCHANGED <<window, blocker, workerVars, schedule, caller, waiting, hub, armed, counts, dropped>>

Block(s, what) ==
  /\ phase[s] = "decided" /\ blocker[s] = "none" /\ counts.blocks < MaxBlocks
  /\ blocker' = [blocker EXCEPT ![s] = what]
  /\ counts' = [counts EXCEPT !.blocks = @ + 1]
  /\ UNCHANGED <<phase, window, workerVars, schedule, caller, waiting, hub, armed, dropped>>

Unblock(s) ==
  /\ blocker[s] # "none" /\ blocker' = [blocker EXCEPT ![s] = "none"]
  /\ UNCHANGED <<phase, window, workerVars, schedule, caller, waiting, hub, armed, counts, dropped>>

-----------------------------------------------------------------------------
CallerStep == \E s \in Sessions : Arm(s) \/ ArmSpawns(s)

WorkerStep ==
  \/ WorkerLocks \/ WorkerLeaves \/ WorkerReleases \/ BeginPass \/ EndPass \/ UpdateAfterPass
  \/ \E s \in Sessions : PassOne(s)

HubStep ==
  \/ HubCleaned \/ EnsureWorker
  \/ \E s \in Sessions : HubCleans(s)

Faults == WorkerFails \/ HubFails \/ PassFails \/ \E s \in Sessions : CallerFails(s)

Environment ==
  \/ HubStarts
  \/ \E s \in Sessions :
       Handoff(s) \/ Close(s) \/ Reopen(s) \/ Block(s, "retry") \/ Block(s, "final") \/ Unblock(s)

Next == Tick \/ CallerStep \/ WorkerStep \/ HubStep \/ Faults \/ Environment

Spec == Init /\ [][Next]_vars

\* Processes that started go on, and clocks run.
Fairness == WF_vars(Tick) /\ WF_vars(CallerStep) /\ WF_vars(WorkerStep) /\ WF_vars(HubStep)

FairSpec == Spec /\ Fairness

-----------------------------------------------------------------------------
(* What the coordinator promises.                                          *)

Owed(s) == s \in armed /\ phase[s] = "decided"

\* A deadline has a worker, or a process about to start one, as long as none
\* died or failed since (spawnDetachedGcWorker after every arm, the lock without
\* a deadline, ensureWorker): a worker that is about to leave does not take the
\* place of the one a new handoff counts on.
ScheduleServed ==
  schedule # None /\ ~dropped =>
    \/ waiting > 0 \/ worker \in {"loop", "passing", "passed"}
    \/ \E s \in Sessions : caller[s] = "spawning"

\* Types; and the deadline of a decided session is not lost, put off beyond its window or a
\* retry, or taken back by the pass of an older one (arm, updateAfterPass), unless
\* a pass that saw it decided found what is not worth a retry.
DeadlineKept == GcTypeOK /\
  \A s \in Sessions : Owed(s) =>
    \/ schedule # None /\ schedule.due <= Max({window[s], Retry})
    \/ s \in spurned

\* A decided session that stays free of blockers is collected, whatever happens
\* to the others and with no hub in sight, barring faults (runGcWorker).
DecidedCollected ==
  \A s \in Sessions :
    \/ <>(phase[s] = "gone")
    \/ []<>(~Owed(s) \/ blocker[s] # "none" \/ s \in spurned \/ dropped)
=============================================================================
