------------------------------- MODULE HubHost -------------------------------
(***************************************************************************)
(* One host process: the supervisor that caches a hub for each repository  *)
(* (src/hub/supervisor.ts), the hubs (src/hub/agent-hub.ts) with their     *)
(* kernels, and the tool calls that use them (src/mcp.ts, src/cli.ts).     *)
(*                                                                         *)
(* A call is a chain of awaits: the repository's identity, the opening of  *)
(* a hub, a session's status, the launch, a stop, the publications that    *)
(* are pending, custody.  A step is what runs between two of them, and     *)
(* other calls, turns, crashes and sweeps come in between.                 *)
(*                                                                         *)
(* Left out: leases and the provider's process (Ownership), the files of   *)
(* custody (Custody), the turn and the queues of a session (Kernel): here  *)
(* a session runs at most one tracked command.                             *)
(***************************************************************************)
EXTENDS Naturals, FiniteSets

CONSTANTS
  Repos,     \* git common dirs
  Sessions,
  RepoOf,    \* the repository of each session
  Callers,   \* tool calls that may be under way at once
  Hubs,      \* identities of hub objects, reused once nothing refers to them
  None,
  Quota      \* HUB_PROCESS_SESSION_QUOTA

ASSUME HubHostAssumption ==
  /\ RepoOf \in [Sessions -> Repos]
  /\ IsFiniteSet(Sessions) /\ IsFiniteSet(Callers)
  /\ None \notin Hubs \cup Sessions
  /\ Quota \in Nat

VARIABLES
  ready,     \* supervisor.ready: the cached hub of each repository
  inFlight,  \* supervisor.inFlight: launches that reserved a slot
  timers,    \* the hubs whose sweep timer is armed
  home,      \* the hub whose kernel holds each session
  phase,     \* what that kernel says of it
  custody,   \* the session's custody, and what closed it
  command,   \* the session's tracked command
  call       \* where each call is: its place, operation, session and hub, and
             \* (history) whether what it ends is an earlier life of the session

hubVars == <<ready, inFlight, timers, home, phase, custody, command, call>>

Running    == {"attached", "closing"}
Phases     == Running \cup {"none", "launching"}
\* Closed by its own close or failed start, by a sweep, or by what ends an
\* earlier life of the session.
Closed     == {"closed", "swept", "overrun"}
Operations == {"start", "resume", "submit", "close"}
LaunchSteps == {"selecting", "reopening", "providing", "failing"}
CloseSteps  == {"stopping", "waiting", "finalized"}
Places == {"idle", "identity", "opening", "found", "statused"} \cup LaunchSteps \cup CloseSteps

Idle == [at |-> "idle", op |-> "submit", session |-> None, hub |-> None,
         late |-> FALSE]

HubInit ==
  /\ ready = [r \in Repos |-> None]
  /\ inFlight = 0
  /\ timers = {}
  /\ home = [s \in Sessions |-> None]
  /\ phase = [s \in Sessions |-> "none"]
  /\ custody = [s \in Sessions |-> "none"]
  /\ command = [s \in Sessions |-> "none"]
  /\ call = [c \in Callers |-> Idle]

-----------------------------------------------------------------------------
Cached == {ready[r] : r \in Repos} \ {None}

\* kernel.attached(): the sessions a hub's kernel still runs.
Attached(h) == {s \in Sessions : home[s] = h /\ phase[s] \in Running}

\* supervisor.activeCount: what the cached hubs run.
ActiveCount == Cardinality(UNION {Attached(h) : h \in Cached})

FreeHubs ==
  Hubs \ (Cached \cup timers \cup {home[s] : s \in Sessions} \cup {call[c].hub : c \in Callers})

RepoOfCall(c) == RepoOf[call[c].session]
GoesTo(c, place) == call' = [call EXCEPT ![c].at = place]
Ends(c) == call' = [call EXCEPT ![c] = Idle]
At(c, place) == call[c].at = place

\* Mutant: a retired hub is forgotten with its timer armed.
RetireIdleOnly(h, inFlightThen, attachedThen) ==
  IF attachedThen = {} /\ inFlightThen = 0
  THEN /\ ready' = [r \in Repos |-> IF ready[r] = h THEN None ELSE ready[r]]
       /\ UNCHANGED timers
  ELSE UNCHANGED <<ready, timers>>

\* retireIdle, given what is in flight and attached by then: a cached hub that
\* runs nothing is dropped and settled, which stops its sweep.
RetireIdle(h, inFlightThen, attachedThen) ==
  IF attachedThen = {} /\ inFlightThen = 0 /\ h \in Cached
  THEN /\ ready' = [r \in Repos |-> IF ready[r] = h THEN None ELSE ready[r]]
       /\ timers' = timers \ {h}
  ELSE UNCHANGED <<ready, timers>>

-----------------------------------------------------------------------------
(* A cleanup pass closes the custody of sessions that nothing runs, one    *)
(* that is being resumed included, whose mirror is still that of its       *)
(* earlier life; of which of them it does so is for Ownership to say.      *)

Sweepable == {s \in Sessions :
  /\ custody[s] = "live" /\ phase[s] \notin Running
  /\ phase[s] = "launching" => home[s] # None}

Sweeps == \E ss \in SUBSET Sweepable :
  custody' = [s \in Sessions |-> IF s \in ss THEN "swept" ELSE custody[s]]

TimerSweep ==
  /\ timers # {} /\ Sweepable # {}
  /\ Sweeps
  /\ UNCHANGED <<ready, inFlight, timers, home, phase, command, call>>

-----------------------------------------------------------------------------
(* hubFor.                                                                 *)

Call(c, op, s) ==
  /\ At(c, "idle")
  /\ op = "start" => custody[s] = "none" /\ \A d \in Callers : call[d].session # s
  /\ op # "start" => custody[s] # "none"
  /\ call' = [call EXCEPT ![c] = [at |-> "identity", op |-> op, session |-> s, hub |-> None,
                                  late |-> FALSE]]
  /\ UNCHANGED <<ready, inFlight, timers, home, phase, custody, command>>

\* The identity is known: the cached hub, or one that is to be opened.
FindHub(c) ==
  /\ At(c, "identity")
  /\ call' = [call EXCEPT ![c] =
       [@ EXCEPT !.at = IF ready[RepoOfCall(c)] = None THEN "opening" ELSE "found",
                 !.hub = ready[RepoOfCall(c)]]]
  /\ UNCHANGED <<ready, inFlight, timers, home, phase, custody, command>>

\* A hub that was opened is cached, unless another call was faster: then it is
\* settled and the other one used.
KeepHub(c, h) ==
  IF ready[RepoOfCall(c)] = None
  THEN /\ ready' = [ready EXCEPT ![RepoOfCall(c)] = h]
       /\ timers' = timers \cup {h}
  ELSE UNCHANGED <<ready, timers>>

\* AgentHub.open: a cleanup pass, then the sweep timer; it may fail in between.
OpenHub(c) ==
  /\ At(c, "opening")
  /\ Sweeps
  /\ \/ \E h \in FreeHubs :
          /\ KeepHub(c, h)
          /\ call' = [call EXCEPT ![c] =
               [@ EXCEPT !.at = "found",
                         !.hub = IF ready[RepoOfCall(c)] = None THEN h ELSE ready[RepoOfCall(c)]]]
     \/ Ends(c) /\ UNCHANGED <<ready, timers>>
  /\ UNCHANGED <<inFlight, home, phase, command>>

-----------------------------------------------------------------------------
(* start and resume, under supervisor.launch.                              *)

Launching(c) == call[c].at \in LaunchSteps

\* hub_resume reads the session's status before it launches.
ReadStatus(c) ==
  /\ At(c, "found") /\ call[c].op = "resume"
  /\ GoesTo(c, "statused")
  /\ UNCHANGED <<ready, inFlight, timers, home, phase, custody, command>>

MayLaunch(c) == (At(c, "found") /\ call[c].op = "start") \/ At(c, "statused")

\* Mutant: a slot is free as long as enough sessions run.
SlotIsFreeOfRunning == ActiveCount < Quota

\* The process's slot is checked and reserved in one step.
SlotIsFree == ActiveCount + inFlight < Quota

\* The synchronous checks of hub.start and hub.resume, after the reservation.
HubTakes(c) ==
  IF call[c].op = "start" THEN Cardinality(Attached(call[c].hub)) < Quota
  ELSE call[c].session \notin Attached(call[c].hub)

Launch(c) ==
  /\ MayLaunch(c) /\ SlotIsFree /\ HubTakes(c)
  /\ inFlight' = inFlight + 1
  /\ GoesTo(c, IF call[c].op = "start" THEN "selecting" ELSE "reopening")
  /\ UNCHANGED <<ready, timers, home, phase, custody, command>>

\* No slot; or the hub refuses at once, and the slot is given back.
RefuseLaunch(c) ==
  /\ MayLaunch(c)
  /\ \/ ~SlotIsFree /\ UNCHANGED <<ready, timers>>
     \/ /\ SlotIsFree /\ ~HubTakes(c)
        /\ RetireIdle(call[c].hub, inFlight, Attached(call[c].hub))
  /\ Ends(c)
  /\ UNCHANGED <<inFlight, home, phase, custody, command>>

\* The finally of launch: the slot is given back and the hub retired if idle.
EndLaunch(c, attachedThen) ==
  /\ inFlight' = inFlight - 1
  /\ RetireIdle(call[c].hub, inFlight - 1, attachedThen)
  /\ Ends(c)

\* start: the transport is selected, then the workspace provisioned.
Provision(c) ==
  /\ At(c, "selecting")
  /\ \/ /\ custody' = [custody EXCEPT ![call[c].session] = "live"]
        /\ phase' = [phase EXCEPT ![call[c].session] = "launching"]
        /\ GoesTo(c, "providing") /\ UNCHANGED <<ready, inFlight, timers>>
     \/ EndLaunch(c, Attached(call[c].hub)) /\ UNCHANGED <<custody, phase>>
  /\ UNCHANGED <<home, command>>

\* The calls that end an earlier life of a session are outrun by its new one.
Outrun(calls, s) ==
  [c \in Callers |-> IF calls[c].session = s /\ calls[c].at \in {"stopping", "waiting", "failing"}
                     THEN [calls[c] EXCEPT !.late = TRUE] ELSE calls[c]]

\* resume: custody is reopened, unless it is live or its session is leased.
Reopen(c) ==
  /\ At(c, "reopening")
  /\ \/ /\ custody[call[c].session] \in Closed /\ phase[call[c].session] = "none"
        /\ custody' = [custody EXCEPT ![call[c].session] = "live"]
        /\ phase' = [phase EXCEPT ![call[c].session] = "launching"]
        /\ call' = Outrun([call EXCEPT ![c].at = "providing"], call[c].session)
        /\ UNCHANGED <<ready, inFlight, timers>>
     \/ EndLaunch(c, Attached(call[c].hub)) /\ UNCHANGED <<custody, phase>>
  /\ UNCHANGED <<home, command>>

\* kernel.start and kernel.resume attach the session in their last step; they
\* check the kernel's quota in their first one, which the slot implies.
Attach(c) ==
  LET s == call[c].session
      h == call[c].hub IN
  /\ At(c, "providing")
  /\ home' = [home EXCEPT ![s] = h]
  /\ phase' = [phase EXCEPT ![s] = "attached"]
  /\ inFlight' = inFlight - 1
  /\ Ends(c)
  /\ UNCHANGED <<ready, timers, custody, command>>

\* A launch that fails: a start closes its custody first, a resume leaves it.
LaunchFails(c) ==
  /\ At(c, "providing")
  /\ phase' = [phase EXCEPT ![call[c].session] = "none"]
  /\ \/ call[c].op = "start" /\ GoesTo(c, "failing") /\ UNCHANGED <<ready, inFlight, timers>>
     \/ call[c].op = "resume" /\ EndLaunch(c, Attached(call[c].hub))
  /\ UNCHANGED <<home, custody, command>>

\* finalizeClosure asks whether custody is live, never whose life it closes.
Finalized(c) ==
  [custody EXCEPT ![call[c].session] =
     IF @ # "live" THEN @ ELSE IF call[c].late THEN "overrun" ELSE "closed"]

\* finalizeFailedLaunch, which may fail itself.
FinalizeFailedLaunch(c) ==
  /\ At(c, "failing")
  /\ custody' \in {custody, Finalized(c)}
  /\ EndLaunch(c, Attached(call[c].hub))
  /\ UNCHANGED <<home, phase, command>>

-----------------------------------------------------------------------------
(* Commands.                                                               *)

Unpublished == {"running", "settled"}

\* submitPrompt, submitFollowUp: the kernel of the hub accepts the command.
Accepted(h, s) ==
  home[s] = h /\ phase[s] = "attached" /\ command[s] \notin Unpublished

\* The command tools: what was accepted is tracked until it is published.
Submit(c) ==
  /\ At(c, "found") /\ call[c].op = "submit"
  /\ IF Accepted(call[c].hub, call[c].session)
     THEN command' = [command EXCEPT ![call[c].session] = "running"]
     ELSE UNCHANGED command
  /\ Ends(c)
  /\ UNCHANGED <<ready, inFlight, timers, home, phase, custody>>

TurnEnds(s) ==
  /\ phase[s] = "attached" /\ command[s] = "running"
  /\ command' = [command EXCEPT ![s] = "settled"]
  /\ UNCHANGED <<ready, inFlight, timers, home, phase, custody, call>>

\* publish: custody takes the result while it is live, and it is tracked no more.
Publish(s) ==
  /\ command[s] = "settled"
  /\ command' = [command EXCEPT ![s] = IF custody[s] = "live" THEN "none" ELSE "refused"]
  /\ UNCHANGED <<ready, inFlight, timers, home, phase, custody, call>>

\* The kernel is through with a session, and with its turn.
Finish(s) ==
  /\ phase' = [phase EXCEPT ![s] = "none"]
  /\ command' = [command EXCEPT ![s] = IF @ = "running" THEN "settled" ELSE @]

Crash(s) ==
  /\ phase[s] = "attached"
  /\ Finish(s)
  /\ UNCHANGED <<ready, inFlight, timers, home, custody, call>>

-----------------------------------------------------------------------------
(* hub_close.                                                              *)

\* kernel.close, up to its await; a session that is closing or over is told
\* again what its close says, one the kernel does not know is not found.
BeginClose(c) ==
  LET s == call[c].session IN
  /\ At(c, "found") /\ call[c].op = "close"
  /\ IF home[s] = call[c].hub
     THEN /\ phase' = [phase EXCEPT ![s] = IF @ = "attached" THEN "closing" ELSE @]
          /\ call' = [call EXCEPT ![c] = [@ EXCEPT !.at = "stopping", !.late = phase[s] = "launching"]]
     ELSE Ends(c) /\ UNCHANGED phase
  /\ UNCHANGED <<ready, inFlight, timers, home, custody, command>>

CloseStopped(c) ==
  /\ At(c, "stopping")
  /\ IF phase[call[c].session] = "closing" THEN Finish(call[c].session)
     ELSE UNCHANGED <<phase, command>>
  /\ GoesTo(c, "waiting")
  /\ UNCHANGED <<ready, inFlight, timers, home, custody>>

\* Mutant: a close does not wait for the commands that are being published.
NothingPendingEver(s) == TRUE

\* waitForPendingCommands is over.
NothingPending(s) == command[s] \notin Unpublished

FinalizeClosure(c) ==
  /\ At(c, "waiting") /\ NothingPending(call[c].session)
  /\ custody' = Finalized(c)
  /\ GoesTo(c, "finalized")
  /\ UNCHANGED <<ready, inFlight, timers, home, phase, command>>

EndClose(c) ==
  /\ At(c, "finalized")
  /\ RetireIdle(call[c].hub, inFlight, Attached(call[c].hub))
  /\ Ends(c)
  /\ UNCHANGED <<inFlight, home, phase, custody, command>>

-----------------------------------------------------------------------------
CallerStep(c) ==
  \/ FindHub(c) \/ OpenHub(c) \/ ReadStatus(c)
  \/ Launch(c) \/ RefuseLaunch(c) \/ Provision(c) \/ Reopen(c)
  \/ Attach(c) \/ LaunchFails(c) \/ FinalizeFailedLaunch(c)
  \/ Submit(c)
  \/ BeginClose(c) \/ CloseStopped(c) \/ FinalizeClosure(c) \/ EndClose(c)

HubNext ==
  \/ \E c \in Callers, op \in Operations, s \in Sessions : Call(c, op, s)
  \/ \E c \in Callers : CallerStep(c)
  \/ \E s \in Sessions : TurnEnds(s) \/ Publish(s) \/ Crash(s)
  \/ TimerSweep

HubSpec == HubInit /\ [][HubNext]_hubVars

-----------------------------------------------------------------------------
(* What the host promises.                                                 *)

HubTypeOK ==
  /\ ready \in [Repos -> Hubs \cup {None}] /\ timers \subseteq Hubs
  /\ inFlight \in 0..Cardinality(Callers)
  /\ home \in [Sessions -> Hubs \cup {None}]
  /\ phase \in [Sessions -> Phases]
  /\ custody \in [Sessions -> Closed \cup {"none", "live"}]
  /\ command \in [Sessions -> {"none", "running", "settled", "refused"}]
  /\ call \in [Callers -> [at : Places, op : Operations, session : Sessions \cup {None},
                           hub : Hubs \cup {None}, late : BOOLEAN]]

Launches == {c \in Callers : Launching(c)}

\* Types; every way out of a launch gives its slot back, once (launch); and the
\* cached hubs never run more sessions than the process may, with the launches
\* that are under way on them counted in (supervisor.ts:12-23).
QuotaKept ==
  /\ HubTypeOK
  /\ inFlight = Cardinality(Launches)
  /\ ActiveCount + Cardinality({c \in Launches : call[c].hub \in Cached}) <= Quota

\* Only a cached hub sweeps: neither a hub that was retired nor one that lost
\* the race to be cached keeps its timer, and with it itself (retireIdle).
TimersOwned == timers \subseteq Cached

\* A command that was accepted is published before its session's close ends
\* custody (closeSession, waitForPendingCommands).  It is refused only when
\* something else did: a sweep, or what ends an earlier life.
AckedPublished ==
  [][\A s \in Sessions : command[s] = "settled" /\ command'[s] = "refused"
        => custody[s] \in {"swept", "overrun"}]_hubVars

\* The hub that runs a session is the one later calls find.  The code does not
\* keep this: a hub may be retired between a resume's hubFor and its launch.
OwnerCached == \A s \in Sessions : phase[s] \in Running => home[s] \in Cached
=============================================================================
