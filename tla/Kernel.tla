------------------------------- MODULE Kernel -------------------------------
(***************************************************************************)
(* One live session of the interaction kernel                              *)
(* (src/kernel/interaction-kernel.ts) over an RPC transport                *)
(* (src/live/transports/rpc-base.ts) and its provider process.             *)
(*                                                                         *)
(* The kernel is one JavaScript thread, so a step is what runs between two *)
(* awaits.  Three activities share the session: the callers of its         *)
(* commands, the pump that reads the transport's events, and the close     *)
(* pipeline.  Each awaits the transport or the durable mirror, and what it *)
(* read before the await may have changed after it.                        *)
(*                                                                         *)
(* Left out: texts, usage, permissions and steering, which change no       *)
(* status and no queue; a status request, whose answer sets the status the *)
(* transport already has; byte bounds of the queue (one item counts one).  *)
(***************************************************************************)
EXTENDS Naturals, Sequences, FiniteSets, Functions

CONSTANTS
  Commands,              \* the prompt and follow-ups, each issued at most once
  None,                  \* no turn, no command
  Abort,                 \* the frame a cancel writes to the provider
  FollowUps,             \* the follow_up claim: "native" or "hub-queued"
  QueueMax,              \* follow-ups that may wait in all
  AnswersFirst,          \* the provider answers a command before ending its turn
  PromptAfterHandshake,  \* no command before the pump read the handshake's idle
  MaxFailures,           \* bound: mirror writes that fail
  MaxCancels             \* bound: turns that are cancelled

ASSUME KernelAssumption ==
  /\ None \notin Commands /\ Abort \notin Commands
  /\ FollowUps \in {"native", "hub-queued"}
  /\ QueueMax \in Nat /\ MaxFailures \in Nat /\ MaxCancels \in Nat
  /\ AnswersFirst \in BOOLEAN /\ PromptAfterHandshake \in BOOLEAN

VARIABLES
  status,           \* session.status, in memory
  turn,             \* the command of session.turn
  prompted,         \* the command session.prompt_accepted stands for
  queue,            \* session.queue: follow-ups not delivered yet
  providerQueued,   \* session.provider_queued: follow-ups delivered already
  cancelRequested,  \* commands whose turn has cancel_requested
  errorSeen,        \* commands whose turn has error_seen
  closing, finished, degraded,
  result,           \* what the future of each command says
  sending,          \* why each command's transport.send is awaited
  pump,             \* what the pump awaits, and for which turn and outcome
  closer,           \* what the close pipeline awaits
  record,           \* the committed record: status and revision
  writes,           \* record_tail: mirror writes in order, the first under way
  wire,             \* the transport: status, stop requested, stream ended
  stream,           \* events the pump has not read
  inbox,            \* frames on the provider's stdin
  held,             \* follow-ups the provider keeps for its next turns
  running,          \* the command the provider works on
  alive,            \* the provider's "leader", what is left of its "group", or "none"
  ran,              \* history: commands the provider worked through
  failures          \* history: mirror writes that failed

turnVars  == <<turn, prompted, cancelRequested, errorSeen>>
queueVars == <<queue, providerQueued>>
lifeVars  == <<closing, finished, degraded>>
mirror    == <<record, writes, failures>>
provider  == <<inbox, held, running, alive, ran>>
transport == <<wire, stream, provider>>
places    == <<pump, closer>>
vars == <<status, turnVars, queueVars, lifeVars, result, sending, places, mirror, transport>>

-----------------------------------------------------------------------------
Live     == {"idle", "running", "cancelling", "closing"}
Terminal == {"closed", "error", "orphaned"}
Statuses == Live \cup Terminal
Results  == {"none", "offered", "pending", "succeeded", "cancelled", "failed", "rejected"}
Settled  == {"succeeded", "cancelled", "failed", "rejected"}
PumpPlaces   == {"reading", "statusCommit", "turnCommit", "degradeCommit",
                 "crashStop", "crashCommit", "done"}
CloserPlaces == {"no", "stopping", "orphanCommit", "closedCommit", "degradeCommit",
                 "retrying", "retryCommit", "done"}
Writers == {"pump", "closer"}
Events  == {"idle", "running", "cancelling", "closing", "error", "exit"}

TypeOK ==
  /\ status \in Statuses
  /\ turn \in Commands \cup {None} /\ prompted \in Commands \cup {None}
  /\ queue \in Seq(Commands) /\ providerQueued \in Seq(Commands)
  /\ cancelRequested \subseteq Commands /\ errorSeen \subseteq Commands
  /\ closing \in BOOLEAN /\ finished \in BOOLEAN /\ degraded \in BOOLEAN
  /\ result \in [Commands -> Results]
  /\ sending \in [Commands -> {"no", "turn", "queue"}]
  /\ pump \in [place : PumpPlaces, turn : Commands \cup {None}, outcome : Results]
  /\ closer \in CloserPlaces
  /\ record \in [status : Statuses, revision : Nat]
  /\ writes \in Seq([by : Writers, status : Statuses, revision : Nat])
  /\ wire \in [status : Statuses, stopping : BOOLEAN, ended : BOOLEAN]
  /\ stream \in Seq(Events)
  /\ inbox \in Seq(Commands \cup {Abort}) /\ held \in Seq(Commands)
  /\ running \in Commands \cup {None}
  /\ alive \in {"leader", "group", "none"}
  /\ ran \subseteq Commands
  /\ failures \in 0..MaxFailures

Reading == [place |-> "reading", turn |-> None, outcome |-> "none"]

\* kernel.start has returned: the session is idle at revision 1, and its pump
\* has yet to read the idle that ended the transport's handshake.
Init ==
  /\ status = "idle"
  /\ turn = None /\ prompted = None /\ cancelRequested = {} /\ errorSeen = {}
  /\ queue = <<>> /\ providerQueued = <<>>
  /\ closing = FALSE /\ finished = FALSE /\ degraded = FALSE
  /\ result = [c \in Commands |-> "none"]
  /\ sending = [c \in Commands |-> "no"]
  /\ pump = Reading /\ closer = "no"
  /\ record = [status |-> "idle", revision |-> 1] /\ writes = <<>>
  /\ wire = [status |-> "idle", stopping |-> FALSE, ended |-> FALSE]
  /\ stream = IF PromptAfterHandshake THEN <<>> ELSE <<"idle">>
  /\ inbox = <<>> /\ held = <<>> /\ running = None /\ alive = "leader"
  /\ ran = {} /\ failures = 0

-----------------------------------------------------------------------------
(* The transport and the provider.                                         *)

\* setStatus: a change of status is an event, until the stream is over.
SetStatus(s) ==
  IF wire.ended \/ wire.status \in {"closed", "error", s}
  THEN UNCHANGED <<wire, stream>>
  ELSE /\ wire' = [wire EXCEPT !.status = s]
       /\ stream' = Append(stream, s)

WireOpen == ~wire.ended /\ wire.status \notin {"closed", "error"}

\* A provider that answers first has answered the command it works on before it
\* ends the turn.
Answered == AnswersFirst /\ running # None => sending[running] = "no"

\* The provider reads its next frame: an abort ends the turn it works on, a
\* command starts a turn or waits for the next one.
ProviderReads ==
  /\ alive = "leader" /\ inbox # <<>>
  /\ Head(inbox) = Abort => Answered
  /\ inbox' = Tail(inbox)
  /\ IF Head(inbox) = Abort
     THEN /\ running' = None
          /\ SetStatus(IF wire.status \in {"running", "cancelling"} THEN "idle" ELSE wire.status)
          /\ UNCHANGED held
     ELSE IF running = None /\ held = <<>>
     THEN running' = Head(inbox) /\ SetStatus("running") /\ UNCHANGED held
     ELSE held' = Append(held, Head(inbox)) /\ UNCHANGED <<running, wire, stream>>
  /\ UNCHANGED <<status, turnVars, queueVars, lifeVars, result, sending, places, mirror, alive,
                 ran>>

\* The provider takes up a follow-up it kept.
ProviderResumes ==
  /\ alive = "leader" /\ running = None /\ held # <<>>
  /\ running' = Head(held) /\ held' = Tail(held)
  /\ SetStatus("running")
  /\ UNCHANGED <<status, turnVars, queueVars, lifeVars, result, sending, places, mirror,
                 inbox, alive, ran>>

\* The end of a provider's turn.  A "native" provider goes on with what it
\* holds and reports one end for all of it (agent_settled, isTerminal).
ProviderEnds(ok) ==
  /\ alive = "leader" /\ running # None
  /\ Answered
  /\ ran' = ran \cup {running}
  /\ IF FollowUps = "native" /\ held # <<>>
     THEN /\ running' = Head(held) /\ held' = Tail(held)
          /\ UNCHANGED <<wire, stream>>
     ELSE /\ running' = None /\ UNCHANGED held
          /\ IF ok \/ ~WireOpen THEN SetStatus("idle")
             ELSE /\ wire' = [wire EXCEPT !.status = "idle"]
                  /\ stream' = stream \o <<"error", "idle">>
  /\ UNCHANGED <<status, turnVars, queueVars, lifeVars, result, sending, places, mirror,
                 inbox, alive>>

\* onExit: the leader is gone, of itself or because it was signalled.
ProviderExits(rest) ==
  /\ alive = "leader"
  /\ alive' = rest
  /\ wire' = [wire EXCEPT !.status = IF wire.stopping THEN "closed" ELSE "error", !.ended = TRUE]
  /\ stream' = stream \o (IF wire.stopping THEN <<"exit">> ELSE <<"error", "exit">>)
  /\ running' = None /\ inbox' = <<>> /\ held' = <<>>
  /\ UNCHANGED <<status, turnVars, queueVars, lifeVars, result, sending, places, mirror, ran>>

GroupDies ==
  /\ alive = "group"
  /\ alive' = "none"
  /\ UNCHANGED <<status, turnVars, queueVars, lifeVars, result, sending, places, mirror,
                 wire, stream, inbox, held, running, ran>>

\* stop: the transport says "closing" and has the process ended.
RequestStop ==
  IF wire.ended \/ wire.status \in {"closed", "error", "closing"}
  THEN /\ wire' = [wire EXCEPT !.stopping = TRUE]
       /\ UNCHANGED stream
  ELSE /\ wire' = [wire EXCEPT !.stopping = TRUE, !.status = "closing"]
       /\ stream' = Append(stream, "closing")

\* What stop may report: "closed" only of a group that is gone.
MayReport(proven) == proven => alive = "none"

-----------------------------------------------------------------------------
(* Commands.                                                               *)

\* must(): the session still takes commands.
Accepts == status \notin Terminal /\ ~closing

\* dispatchTurnAccepted, up to its await: the command is the turn, and sent.
\* A transport that is over refuses it at once, and the turn is cleared.
Dispatch(c) ==
  IF WireOpen
  THEN /\ turn' = c
       /\ result' = [result EXCEPT ![c] = "pending"]
       /\ sending' = [sending EXCEPT ![c] = "turn"]
       /\ inbox' = Append(inbox, c)
  ELSE /\ result' = [result EXCEPT ![c] = "rejected"]
       /\ UNCHANGED <<turn, sending, inbox>>

Prompt(c) ==
  /\ result[c] = "none" /\ Accepts
  /\ prompted = None /\ status = "idle" /\ turn = None
  /\ prompted' = IF WireOpen THEN c ELSE None
  /\ Dispatch(c)
  /\ UNCHANGED <<status, cancelRequested, errorSeen, queueVars, lifeVars, places, mirror,
                 wire, stream, held, running, alive, ran>>

\* acceptFollowUp on an idle session.
FollowUpNow(c) ==
  /\ result[c] = "none" /\ Accepts
  /\ turn = None /\ status = "idle"
  /\ Dispatch(c)
  /\ UNCHANGED <<status, prompted, cancelRequested, errorSeen, queueVars, lifeVars, places,
                 mirror, wire, stream, held, running, alive, ran>>

\* acceptFollowUp while a turn runs: queued here, or handed to a "native"
\* provider at once and queued when its answer has come.
FollowUpLater(c) ==
  /\ result[c] = "none" /\ Accepts
  /\ turn # None \/ status = "running"
  /\ Len(queue) + Len(providerQueued) < QueueMax
  /\ \/ /\ FollowUps = "native" /\ WireOpen
        /\ sending' = [sending EXCEPT ![c] = "queue"]
        /\ result' = [result EXCEPT ![c] = "offered"]
        /\ inbox' = Append(inbox, c)
        /\ UNCHANGED queue
     \/ /\ FollowUps = "native" /\ ~WireOpen
        /\ result' = [result EXCEPT ![c] = "rejected"]
        /\ UNCHANGED <<queue, sending, inbox>>
     \/ /\ FollowUps = "hub-queued"
        /\ queue' = Append(queue, c)
        /\ result' = [result EXCEPT ![c] = "pending"]
        /\ UNCHANGED <<sending, inbox>>
  /\ UNCHANGED <<status, turnVars, providerQueued, lifeVars, places, mirror,
                 wire, stream, held, running, alive, ran>>

\* The answer to a command: nothing follows a dispatch, and a handed
\* follow-up joins provider_queued, whatever became of the session meanwhile.
SendAnswered(c) ==
  /\ sending[c] # "no" /\ ~wire.ended
  /\ c \notin Range(inbox)
  /\ sending' = [sending EXCEPT ![c] = "no"]
  /\ IF sending[c] = "queue"
     THEN /\ providerQueued' = Append(providerQueued, c)
          /\ result' = [result EXCEPT ![c] = "pending"]
     ELSE UNCHANGED <<providerQueued, result>>
  /\ UNCHANGED <<status, turnVars, queue, lifeVars, places, mirror, transport>>

\* Why a send may fail: the provider refuses the command before it starts, it
\* does not answer in time, or it is gone.
SendMayFail(c) == c \in Range(inbox) \/ ~AnswersFirst \/ ~WireOpen

\* The inbox without the command, which is in it once at most.
Withdrawn(c) ==
  IF c \notin Range(inbox) THEN inbox
  ELSE LET at == CHOOSE i \in DOMAIN inbox : inbox[i] = c
       IN [i \in 1..Len(inbox) - 1 |-> IF i < at THEN inbox[i] ELSE inbox[i + 1]]

\* send rejects: the session's turn is cleared and the command's future
\* rejected (which changes nothing if it is settled).
SendFails(c) ==
  /\ sending[c] # "no" /\ SendMayFail(c)
  /\ sending' = [sending EXCEPT ![c] = "no"]
  /\ result' = [result EXCEPT ![c] = IF @ \in Settled THEN @ ELSE "rejected"]
  /\ turn' = IF sending[c] = "turn" THEN None ELSE turn
  /\ prompted' = IF prompted = c THEN None ELSE prompted
  /\ inbox' = Withdrawn(c)
  /\ UNCHANGED <<status, cancelRequested, errorSeen, queueVars, lifeVars, places, mirror,
                 wire, stream, held, running, alive, ran>>

\* cancel marks the turn before its frame is delivered.
Cancel ==
  /\ Accepts /\ turn # None
  /\ turn \notin cancelRequested /\ Cardinality(cancelRequested) < MaxCancels
  /\ cancelRequested' = cancelRequested \cup {turn}
  /\ inbox' = IF WireOpen THEN Append(inbox, Abort) ELSE inbox
  /\ IF wire.status = "running" THEN SetStatus("cancelling") ELSE UNCHANGED <<wire, stream>>
  /\ UNCHANGED <<status, turn, prompted, errorSeen, queueVars, lifeVars, result, sending,
                 places, mirror, held, running, alive, ran>>

-----------------------------------------------------------------------------
(* The mirror: commits are serialized, each computed from the record of    *)
(* the moment it is asked for.                                             *)

\* Mutant: the record is computed from the status in memory at the request.
CommitMemory(by, s) == [by |-> by, status |-> status, revision |-> record.revision + 1]

Commit(by, s) == [by |-> by, status |-> s, revision |-> record.revision + 1]

\* The first write under way is this activity's.
Writing(by) == writes # <<>> /\ Head(writes).by = by

Lands ==
  /\ record' = [status |-> Head(writes).status, revision |-> Head(writes).revision]
  /\ UNCHANGED failures

Fails ==
  /\ failures < MaxFailures
  /\ failures' = failures + 1
  /\ UNCHANGED record

Waiting == Range(queue) \cup Range(providerQueued)

\* The futures once these commands settle so (a settled future stays).
Settle(cs, outcome) ==
  [c \in Commands |-> IF c \in cs /\ result[c] \notin Settled THEN outcome ELSE result[c]]

\* Mutant: a cancelled turn that ended without an error succeeded.
OutcomeOfErrors(c) == IF c \in errorSeen THEN "failed" ELSE "succeeded"

\* settleTurn's outcome.
OutcomeOf(c) ==
  IF c \in cancelRequested THEN "cancelled"
  ELSE IF c \in errorSeen THEN "failed" ELSE "succeeded"

\* Mutant: the queues are dropped, and what waited in them is told nothing.
DegradeSilently(by, s, lost) ==
  /\ degraded' = TRUE
  /\ status' = s
  /\ turn' = None
  /\ result' = Settle(lost \cup ({turn} \ {None}), "failed")
  /\ queue' = <<>> /\ providerQueued' = <<>>
  /\ writes' = Append(Tail(writes), Commit(by, s))

\* degradeOnDurableFailure, up to its rewrite: the turn and all that waits
\* fail, and the session is over in memory.
Degrade(by, s, lost) ==
  /\ degraded' = TRUE
  /\ status' = s
  /\ turn' = None
  /\ result' = Settle(Waiting \cup lost \cup ({turn} \ {None}), "failed")
  /\ queue' = <<>> /\ providerQueued' = <<>>
  /\ writes' = Append(Tail(writes), Commit(by, s))

\* Its rewrite lands or not, and the session is finished either way.
Degraded(by) ==
  /\ Writing(by)
  /\ Lands \/ Fails
  /\ writes' = Tail(writes)
  /\ finished' = TRUE
  /\ UNCHANGED <<status, turnVars, queueVars, closing, degraded, result, sending, transport>>

-----------------------------------------------------------------------------
(* The pump.                                                               *)

PumpAt(place) == pump.place = place
PumpGoes(place) == pump' = [Reading EXCEPT !.place = place]

\* The end of a turn: the session has no turn while its commit is awaited.
ReadTurnEnd ==
  /\ PumpAt("reading") /\ stream # <<>> /\ Head(stream) = "idle" /\ turn # None
  /\ stream' = Tail(stream)
  /\ status' = "idle"
  /\ turn' = None
  /\ pump' = [place |-> "turnCommit", turn |-> turn, outcome |-> OutcomeOf(turn)]
  /\ writes' = Append(writes, Commit("pump", "idle"))
  /\ UNCHANGED <<prompted, cancelRequested, errorSeen, queueVars, lifeVars, result, sending,
                 closer, record, failures, wire, provider>>

NewStatus ==
  /\ Head(stream) \in Live /\ Head(stream) # status
  /\ ~closing /\ ~finished

ReadStatus ==
  /\ PumpAt("reading") /\ stream # <<>> /\ NewStatus
  /\ ~(Head(stream) = "idle" /\ turn # None)
  /\ stream' = Tail(stream)
  /\ status' = Head(stream)
  /\ PumpGoes("statusCommit")
  /\ writes' = Append(writes, Commit("pump", Head(stream)))
  /\ UNCHANGED <<turnVars, queueVars, lifeVars, result, sending, closer, record, failures,
                 wire, provider>>

\* handleCrash, up to its await.
Crash ==
  /\ ~closing /\ ~finished
  /\ closing' = TRUE
  /\ PumpGoes("crashStop")
  /\ wire' = [wire EXCEPT !.stopping = TRUE]

ReadExit ==
  /\ PumpAt("reading") /\ stream # <<>> /\ Head(stream) = "exit"
  /\ stream' = Tail(stream)
  /\ Crash
  /\ UNCHANGED <<status, turnVars, queueVars, finished, degraded, result, sending, closer,
                 mirror, provider>>

StreamExhausted ==
  /\ PumpAt("reading") /\ stream = <<>> /\ wire.ended
  /\ \/ Crash /\ UNCHANGED <<finished, degraded>>
     \/ /\ closing \/ finished
        /\ PumpGoes("done") /\ UNCHANGED <<lifeVars, wire>>
  /\ UNCHANGED <<status, turnVars, queueVars, result, sending, closer, mirror, stream, provider>>

\* Events that change nothing but, at most, the turn's error.
ReadOther ==
  /\ PumpAt("reading") /\ stream # <<>>
  /\ ~(Head(stream) = "idle" /\ turn # None) /\ ~NewStatus
  /\ Head(stream) = "exit" => closing \/ finished
  /\ stream' = Tail(stream)
  /\ errorSeen' = IF Head(stream) = "error" THEN errorSeen \cup ({turn} \ {None}) ELSE errorSeen
  /\ UNCHANGED <<status, turn, prompted, cancelRequested, queueVars, lifeVars, result, sending,
                 places, mirror, wire, provider>>

StatusCommitted ==
  /\ PumpAt("statusCommit") /\ Writing("pump")
  /\ \/ /\ Lands
        /\ writes' = Tail(writes)
        /\ status' = Head(writes).status
        /\ PumpGoes("reading")
        /\ UNCHANGED <<turn, queueVars, degraded, result>>
     \/ /\ Fails
        /\ Degrade("pump", "error", {})
        /\ PumpGoes("degradeCommit")
  /\ UNCHANGED <<prompted, cancelRequested, errorSeen, closing, finished, sending, closer,
                 transport>>

\* Mutant: the drain does not look for a turn taken up meanwhile.
MayDrainOver == ~closing /\ ~finished /\ ~degraded /\ Waiting # {}

\* finalizeTurn, the drain: what the provider holds already is the next turn,
\* else the first of the hub's queue is dispatched.
MayDrain == ~closing /\ ~finished /\ ~degraded /\ turn = None /\ Waiting # {}

DrainProvider ==
  /\ MayDrain /\ providerQueued # <<>>
  /\ turn' = Head(providerQueued) /\ providerQueued' = Tail(providerQueued)
  /\ result' = Settle({pump.turn}, pump.outcome)
  /\ UNCHANGED <<queue, sending, inbox>>

DrainQueue ==
  /\ MayDrain /\ providerQueued = <<>>
  /\ queue' = Tail(queue)
  /\ IF WireOpen
     THEN /\ turn' = Head(queue)
          /\ sending' = [sending EXCEPT ![Head(queue)] = "turn"]
          /\ inbox' = Append(inbox, Head(queue))
          /\ result' = Settle({pump.turn}, pump.outcome)
     ELSE /\ result' = [Settle({pump.turn}, pump.outcome) EXCEPT ![Head(queue)] = "rejected"]
          /\ UNCHANGED <<turn, sending, inbox>>
  /\ UNCHANGED providerQueued

NoDrain ==
  /\ ~MayDrain
  /\ result' = Settle({pump.turn}, pump.outcome)
  /\ UNCHANGED <<turn, queueVars, sending, inbox>>

\* The turn's result is told once its commit landed, or as failed.
TurnCommitted ==
  /\ PumpAt("turnCommit") /\ Writing("pump")
  /\ \/ /\ Lands
        /\ writes' = Tail(writes)
        /\ status' = Head(writes).status
        /\ DrainProvider \/ DrainQueue \/ NoDrain
        /\ PumpGoes("reading")
        /\ UNCHANGED degraded
     \/ /\ Fails
        /\ Degrade("pump", "error", {pump.turn})
        /\ PumpGoes("degradeCommit")
        /\ UNCHANGED <<sending, inbox>>
  /\ UNCHANGED <<prompted, cancelRequested, errorSeen, closing, finished, closer,
                 wire, stream, held, running, alive, ran>>

PumpDegraded ==
  /\ PumpAt("degradeCommit") /\ Degraded("pump")
  /\ PumpGoes("reading") /\ UNCHANGED closer

\* Mutant: the provider's exit proves that its group is gone.
CrashStoppedUnproven(proven) ==
  /\ PumpAt("crashStop") /\ MayReport(proven)
  /\ status' = "error"
  /\ turn' = None
  /\ result' = Settle(Waiting \cup ({turn} \ {None}), "failed")
  /\ queue' = <<>> /\ providerQueued' = <<>>
  /\ writes' = Append(writes, Commit("pump", status'))
  /\ PumpGoes("crashCommit")
  /\ UNCHANGED <<prompted, cancelRequested, errorSeen, lifeVars, sending, closer,
                 record, failures, transport>>

\* Mutant: a crash is not over before its stop is proven.
CrashStoppedWaiting(proven) == proven /\ CrashStoppedUnproven(proven)

\* handleCrash after the stop: an unproven end is "orphaned".
CrashStopped(proven) ==
  /\ PumpAt("crashStop") /\ MayReport(proven)
  /\ status' = IF proven THEN "error" ELSE "orphaned"
  /\ turn' = None
  /\ result' = Settle(Waiting \cup ({turn} \ {None}), "failed")
  /\ queue' = <<>> /\ providerQueued' = <<>>
  /\ writes' = Append(writes, Commit("pump", status'))
  /\ PumpGoes("crashCommit")
  /\ UNCHANGED <<prompted, cancelRequested, errorSeen, lifeVars, sending, closer,
                 record, failures, transport>>

CrashCommitted ==
  /\ PumpAt("crashCommit") /\ Writing("pump")
  /\ \/ Lands /\ status' = Head(writes).status
     \/ Fails /\ UNCHANGED status
  /\ writes' = Tail(writes)
  /\ finished' = TRUE
  /\ PumpGoes("reading")
  /\ UNCHANGED <<turnVars, queueVars, closing, degraded, result, sending, closer, transport>>

-----------------------------------------------------------------------------
(* The close pipeline.                                                     *)

\* runCloseAttempt, up to its await.
Close ==
  /\ closer = "no" /\ ~finished
  /\ closing' = TRUE
  /\ status' = "closing"
  /\ result' = Settle(Waiting, "failed")
  /\ queue' = <<>> /\ providerQueued' = <<>>
  /\ RequestStop
  /\ closer' = "stopping"
  /\ UNCHANGED <<turnVars, finished, degraded, sending, pump, mirror, provider>>

CloseStopped(proven) ==
  /\ closer = "stopping" /\ MayReport(proven)
  /\ turn' = None
  /\ result' = Settle({turn} \ {None}, IF proven THEN "cancelled" ELSE "failed")
  /\ status' = IF proven THEN "closed" ELSE "orphaned"
  /\ writes' = Append(writes, Commit("closer", status'))
  /\ closer' = IF proven THEN "closedCommit" ELSE "orphanCommit"
  /\ UNCHANGED <<prompted, cancelRequested, errorSeen, queueVars, lifeVars, sending, pump,
                 record, failures, transport>>

\* A commit that fails degrades the session: to "orphaned", or to "error" if
\* the stop was proven.
CloseCommitted ==
  /\ closer \in {"orphanCommit", "closedCommit"} /\ Writing("closer")
  /\ \/ /\ Lands
        /\ writes' = Tail(writes)
        /\ status' = Head(writes).status
        /\ finished' = TRUE
        /\ closer' = "done"
        /\ UNCHANGED <<turn, queueVars, degraded, result>>
     \/ /\ Fails
        /\ Degrade("closer", IF closer = "closedCommit" THEN "error" ELSE "orphaned", {})
        /\ closer' = "degradeCommit"
        /\ UNCHANGED finished
  /\ UNCHANGED <<prompted, cancelRequested, errorSeen, closing, sending, pump, transport>>

CloserDegraded ==
  /\ closer = "degradeCommit" /\ Degraded("closer")
  /\ closer' = "done" /\ UNCHANGED pump

\* close of a finished session: only a terminate retries an orphan.
RetryTerminate ==
  /\ closer \in {"no", "done"} /\ finished /\ record.status = "orphaned"
  /\ closer' = "retrying"
  /\ wire' = [wire EXCEPT !.stopping = TRUE]
  /\ UNCHANGED <<status, turnVars, queueVars, lifeVars, result, sending, pump, mirror, stream,
                 provider>>

RetryStopped(proven) ==
  /\ closer = "retrying" /\ MayReport(proven)
  /\ closer' = IF proven THEN "retryCommit" ELSE "done"
  /\ writes' = IF proven THEN Append(writes, Commit("closer", "closed")) ELSE writes
  /\ UNCHANGED <<status, turnVars, queueVars, lifeVars, result, sending, pump, record, failures,
                 transport>>

RetryCommitted ==
  /\ closer = "retryCommit" /\ Writing("closer")
  /\ \/ Lands /\ status' = Head(writes).status
     \/ Fails /\ UNCHANGED status
  /\ writes' = Tail(writes)
  /\ closer' = "done"
  /\ UNCHANGED <<turnVars, queueVars, lifeVars, result, sending, pump, transport>>

-----------------------------------------------------------------------------
CommandStep ==
  \/ \E c \in Commands : Prompt(c) \/ FollowUpNow(c) \/ FollowUpLater(c)
  \/ Cancel

SendStep == \E c \in Commands : SendAnswered(c) \/ SendFails(c)

PumpStep ==
  \/ ReadTurnEnd \/ ReadStatus \/ ReadExit \/ ReadOther \/ StreamExhausted
  \/ StatusCommitted \/ TurnCommitted \/ PumpDegraded
  \/ (\E proven \in BOOLEAN : CrashStopped(proven)) \/ CrashCommitted

CloserStep ==
  \/ (\E proven \in BOOLEAN : CloseStopped(proven) \/ RetryStopped(proven))
  \/ CloseCommitted \/ CloserDegraded \/ RetryCommitted

ProviderStep ==
  \/ ProviderReads \/ ProviderResumes \/ GroupDies
  \/ \E ok \in BOOLEAN : ProviderEnds(ok)
  \/ \E rest \in {"group", "none"} : ProviderExits(rest)

Next ==
  \/ CommandStep \/ SendStep \/ PumpStep \/ CloserStep \/ ProviderStep
  \/ Close \/ RetryTerminate

Spec == Init /\ [][Next]_vars

-----------------------------------------------------------------------------
(* What the kernel promises.                                               *)

\* The activity awaits a mirror write of its own.
Committing(by) ==
  IF by = "pump"
  THEN pump.place \in {"statusCommit", "turnCommit", "degradeCommit", "crashCommit"}
  ELSE closer \in {"orphanCommit", "closedCommit", "degradeCommit", "retryCommit"}

\* Types; each activity has at most the one write it awaits (durableWrite); and
\* an accepted command is never forgotten: until its future settles it is the
\* turn, the turn being committed, or in a queue (dispatchTurnAccepted,
\* acceptFollowUp, finalizeTurn), however sends, turn ends and closes interleave.
KernelInv ==
  /\ TypeOK
  /\ \A i, j \in DOMAIN writes : writes[i].by = writes[j].by => i = j
  /\ {writes[i].by : i \in DOMAIN writes} = {by \in Writers : Committing(by)}
  /\ \A c \in Commands : result[c] = "pending" => c \in Waiting \cup {turn, pump.turn}

AtRest ==
  /\ pump.place \in {"reading", "done"} /\ closer \in {"no", "done"}
  /\ \A c \in Commands : sending[c] = "no"

\* A finished session leaves no accepted command without its result, on any
\* path to its end (finishTerminal, failQueued, settleTurnResult).
FinishedSettlesAll == finished /\ AtRest => \A c \in Commands : result[c] # "pending"

\* A command is told it succeeded only when the provider worked through it
\* (settleTurn, finalizeTurn): no turn is settled by the end of another.
OwnResult == \A c \in Commands : result[c] = "succeeded" => c \in ran

\* The durable record says that the provider is gone only when it is: a
\* "closed" record always, an "error" record unless a write failed.
StopProven ==
  /\ record.status = "closed" => alive = "none"
  /\ record.status = "error" /\ ~degraded => alive = "none"

\* A finished session's record is terminal and says what memory says, unless
\* a mirror write failed: the race of the pump with a close does not end on
\* a stale commit.
RecordIsLast ==
  finished /\ AtRest /\ failures = 0 =>
    writes = <<>> /\ record.status \in Terminal /\ record.status = status

\* A close, or the crash of the provider, always ends the session.
Fairness == WF_vars(PumpStep) /\ WF_vars(CloserStep)

FairSpec == Spec /\ Fairness

ClosingFinishes == closing ~> finished
=============================================================================
