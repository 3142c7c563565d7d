------------------------------ MODULE Transport ------------------------------
(***************************************************************************)
(* What the four provider transports share: the provider's process group   *)
(* (live/child-process.ts), the pipes to it and from it, and the protocol  *)
(* of stop() with its ladder of signals.  AgyStreamJson, HermesAcp and     *)
(* RpcTransport add the dialects, Transports puts them together.           *)
(***************************************************************************)
EXTENDS Integers, Sequences

CONSTANT
    Launches  \* the launches of this instance: the class of the transport,
              \* whether it resumes a session, the permission policy, and the
              \* bounds of it: texts and commands sent, permissions asked,
              \* attempts of stop(), records in flight on stdout

Kinds == {"agy", "hermes", "omp", "pi"}
Line == {"agy", "hermes"}
Rpc == {"omp", "pi"}

ASSUME TransportAssumption ==
    Launches \subseteq [kind : Kinds, wants : BOOLEAN, policy : {"deny", "interactive"},
                        texts : Nat, sends : Nat, perms : Nat, stops : Nat, pipe : Nat]

VARIABLES
    plan,  \* the launch, and the class the factory created for it
    \* The process group: the leader, and whether a tool it started lives in
    \* the group too.  `killing`: a SIGKILL is on its way to the group.
    leader, helpers, killing,
    \* handleExit or onExit has run; hubSignalSent, shutdownInitiated for rpc;
    \* what the exit event said of the exit
    observed, signalled, exitSaid,
    stdin,
    \* stop(): the chain of attempts, the mode and the flag its cache is
    \* keyed by, the ladder of the attempt that runs
    attempts, stopMode, stopSettled, ladder,
    \* the kill that runs beside stop(): child.stop, failLaunch, failProtocol
    background,
    \* the launch, the stage of its handshake, the session the provider is in
    phase, stage, session,
    fatal, status, ended,
    \* stdin and stdout; continuations of awaits that are due
    inp, out, micro

kind == plan.kind
wants == plan.wants

process == <<leader, helpers, killing>>
stopping == <<attempts, stopMode, stopSettled, ladder>>
launch == <<phase, stage, session>>
surface == <<observed, signalled, exitSaid, fatal, status, ended>>
pipes == <<inp, out>>
base == <<plan, process, stopping, background, launch, surface, stdin, pipes, micro>>

Sessions == {"none", "fresh", "wanted", "other"}
Modes == {"graceful", "terminate"}
Resting == [at |-> "idle", step |-> 0]

GroupAlive == leader = "alive" \/ helpers
\* The event loop of the hub takes its next callback only when no
\* continuation of an await is due.  Until open() awaits it, a promise that
\* is resolved is no such continuation.
Turnover == micro = <<>> \/ phase = "spawned"

TransportInit ==
    /\ plan \in Launches
    /\ leader = "none" /\ helpers = FALSE /\ killing = FALSE
    /\ observed = FALSE /\ signalled = FALSE /\ exitSaid = "none"
    /\ stdin = "open"
    /\ attempts = <<>> /\ stopMode = "none" /\ stopSettled = FALSE
    /\ ladder = Resting /\ background = "none"
    /\ phase = "new" /\ stage = "none" /\ session = "none"
    /\ fatal = FALSE /\ status = "starting" /\ ended = FALSE
    /\ inp = <<>> /\ out = <<>> /\ micro = <<>>

\* launchLiveChild: the provider leads a process group of its own, its pipes
\* have their owners, and it may start a tool in the group.
Launched == leader' = "alive" /\ helpers' \in BOOLEAN

-----------------------------------------------------------------------------
(* The process group, whatever the hub does.                               *)

LeaderExits ==
    /\ leader = "alive"
    /\ leader' = "dead"
    /\ UNCHANGED <<helpers, killing>>

HelperExits ==
    /\ helpers
    /\ helpers' = FALSE
    /\ UNCHANGED <<leader, killing>>

\* The kill reaches the whole group.
KillLands ==
    /\ killing /\ GroupAlive
    /\ leader' = "dead" /\ helpers' = FALSE
    /\ UNCHANGED killing

ProcessStep ==
    /\ LeaderExits \/ HelperExits \/ KillLands
    /\ UNCHANGED <<plan, stopping, background, launch, surface, stdin, pipes, micro>>

-----------------------------------------------------------------------------
(* signalGroup: a SIGTERM or SIGINT is a request the provider may ignore.  *)

SignalGroup(sig) ==
    /\ killing' = (killing \/ (sig = "KILL" /\ GroupAlive))
    /\ signalled' = (signalled \/ sig # "none")
    /\ UNCHANGED <<leader, helpers>>

\* mutant: a graceful stop forces in the end
RpcRungsForce(mode) == <<"none", "TERM", "KILL">>

\* The signals shutdown sends while the leader lives, a bounded wait after each.
AgyRungs(mode) == IF mode = "graceful" THEN <<"INT", "TERM">> ELSE <<"TERM", "KILL">>
AcpRungs(mode) == IF mode = "graceful" THEN <<"TERM">> ELSE <<"TERM", "KILL">>

RpcRungs(mode) == <<"none", "TERM">> \o IF mode = "terminate" THEN <<"KILL">> ELSE <<>>

Rungs(mode) == CASE kind = "agy" -> AgyRungs(mode)
                 [] kind = "hermes" -> AcpRungs(mode)
                 [] OTHER -> RpcRungs(mode)

\* What a group that outlived its leader gets.
GroupRungs(mode) == IF mode = "terminate" THEN <<"TERM", "KILL">> ELSE <<"none">>

Unsettled(i) == attempts[i].result = "none"
Running(i) == Unsettled(i) /\ \A j \in 1 .. i - 1 : ~Unsettled(j)

\* setStatus of the rpc transports: the terminal statuses stay, and so does
\* everything once the pump has ended.
RpcStatus(next) == IF status \in {"closed", "error"} \/ ended THEN status ELSE next

\* shutdown(mode) up to its first await, for a child that exists.  No first
\* signal of a ladder is a SIGKILL.
Shutdown(mode) ==
    /\ stdin' = "closed"
    /\ status' = IF fatal \/ ended THEN status
                 ELSE IF kind \in Rpc THEN RpcStatus("closing") ELSE "closing"
    /\ IF observed
       THEN /\ ladder' = [at |-> "group", step |-> 0]
            /\ signalled' = (signalled \/ kind \in Rpc)
            /\ UNCHANGED process
       ELSE /\ ladder' = [at |-> "wait", step |-> 1]
            /\ signalled' = TRUE
            /\ UNCHANGED process

Settle(i, result) ==
    /\ attempts' = [attempts EXCEPT ![i].result = result]
    /\ ladder' = Resting
    /\ stopSettled' = (stopSettled \/ attempts[i].tracked)
    /\ status' = IF kind \in Rpc /\ result = "orphaned" THEN "orphaned" ELSE status

Attempt(mode, tracked) == [mode |-> mode, tracked |-> tracked, result |-> "none"]

(***************************************************************************)
(* stop(mode).  The first call runs shutdown; a graceful call takes        *)
(* whatever the attempt before established; a terminate call shares a      *)
(* terminate attempt in flight, else it is chained behind the attempt      *)
(* before it.  The callers stop a transport once open() has settled.       *)
(***************************************************************************)
Callable == Turnover /\ phase \in {"open", "failed"} /\ Len(attempts) < plan.stops

FirstStop(mode) ==
    /\ Callable /\ attempts = <<>>
    /\ stopMode' = mode
    /\ IF leader = "none"
       THEN /\ attempts' = <<[Attempt(mode, TRUE) EXCEPT !.result = "closed"]>>
            /\ stopSettled' = TRUE
            /\ status' = IF kind \in Rpc THEN "closed" ELSE status
            /\ UNCHANGED <<ladder, stdin, signalled, process>>
       ELSE /\ attempts' = <<Attempt(mode, TRUE)>>
            /\ Shutdown(mode)
            /\ UNCHANGED stopSettled
    /\ UNCHANGED <<plan, background, launch, observed, exitSaid, fatal, ended, pipes, micro>>

\* A call that shares an attempt changes nothing here.
SharesAttempt(mode) ==
    mode # "terminate" \/ (stopMode = "terminate" /\ ~stopSettled)

LaterStop(mode) ==
    /\ Callable /\ attempts # <<>> /\ ~SharesAttempt(mode)
    /\ stopMode' = "terminate"
    /\ attempts' = Append(attempts, Attempt("terminate", TRUE))
    /\ UNCHANGED <<plan, process, stopSettled, ladder, background, launch, surface, stdin, pipes, micro>>

\* The chained attempt, once the one before it has settled: closed is final.
ChainedStop(i) ==
    /\ Turnover /\ i > 1 /\ Running(i) /\ ladder = Resting
    /\ IF attempts[i - 1].result = "closed"
       THEN /\ attempts' = [attempts EXCEPT ![i].result = "closed"]
            /\ stopSettled' = TRUE
            /\ UNCHANGED <<ladder, stdin, status, signalled, process>>
       ELSE /\ Shutdown("terminate")
            /\ UNCHANGED <<attempts, stopSettled>>
    /\ UNCHANGED <<plan, stopMode, background, launch, observed, exitSaid, fatal, ended, pipes, micro>>

LadderRest == <<plan, stopMode, background, launch, observed, exitSaid, fatal, ended, stdin, pipes, micro>>

\* The bounded wait for the leader's exit ran out.
LadderTimer(i) ==
    /\ Turnover /\ Running(i) /\ ladder.at = "wait" /\ ~observed
    /\ LET rungs == Rungs(attempts[i].mode) IN
       IF ladder.step < Len(rungs)
       THEN /\ ladder' = [ladder EXCEPT !.step = @ + 1]
            /\ SignalGroup(rungs[ladder.step + 1])
            /\ UNCHANGED <<attempts, stopSettled, status>>
       ELSE Settle(i, "orphaned") /\ UNCHANGED <<process, signalled>>
    /\ UNCHANGED LadderRest

\* mutant: the leader's exit is taken for the end of the group
LadderExitTrusts(i) ==
    /\ Turnover /\ Running(i) /\ ladder.at = "wait" /\ observed
    /\ Settle(i, "closed")
    /\ UNCHANGED <<process, signalled>>
    /\ UNCHANGED LadderRest

\* The leader's exit was observed: the group decides.
LadderExit(i) ==
    /\ Turnover /\ Running(i) /\ ladder.at = "wait" /\ observed
    /\ ladder' = [at |-> "group", step |-> 0]
    /\ UNCHANGED <<attempts, stopSettled, status, process, signalled>>
    /\ UNCHANGED LadderRest

\* proveGroupGone answers TRUE: leader and group are gone.
LadderProven(i) ==
    /\ Turnover /\ Running(i) /\ ladder.at = "group" /\ ~GroupAlive
    /\ Settle(i, "closed")
    /\ UNCHANGED <<process, signalled>>
    /\ UNCHANGED LadderRest

\* mutant: the watch of a group that lives on is not bounded
LadderGroupWatches(i) ==
    /\ Turnover /\ Running(i) /\ ladder.at = "group" /\ GroupAlive
    /\ LET rungs == GroupRungs(attempts[i].mode) IN
         /\ ladder.step < Len(rungs)
         /\ ladder' = [ladder EXCEPT !.step = @ + 1]
         /\ SignalGroup(rungs[ladder.step + 1])
    /\ UNCHANGED <<attempts, stopSettled, status>>
    /\ UNCHANGED LadderRest

\* The group is alive at the probe, or still alive when the watch ends.
LadderGroup(i) ==
    /\ Turnover /\ Running(i) /\ ladder.at = "group" /\ GroupAlive
    /\ LET rungs == GroupRungs(attempts[i].mode) IN
       IF ladder.step < Len(rungs)
       THEN /\ ladder' = [ladder EXCEPT !.step = @ + 1]
            /\ SignalGroup(rungs[ladder.step + 1])
            /\ UNCHANGED <<attempts, stopSettled, status>>
       ELSE Settle(i, "orphaned") /\ UNCHANGED <<process, signalled>>
    /\ UNCHANGED LadderRest

LadderStep ==
    \E i \in DOMAIN attempts :
        LadderTimer(i) \/ LadderExit(i) \/ LadderProven(i) \/ LadderGroup(i)

-----------------------------------------------------------------------------
(* The kill beside stop().  child.stop("terminate") goes on to the group,  *)
(* failLaunch and failProtocol of the rpc transports end with the leader.  *)

BackgroundTimer ==
    /\ background \in {"term", "group"}
    /\ background = "term" => ~observed
    /\ background' = "killed"
    /\ SignalGroup("KILL")
    /\ UNCHANGED <<plan, stopping, launch, observed, exitSaid, fatal, status, ended, stdin, pipes, micro>>

\* The leader is gone and its group is not.
BackgroundGroup ==
    /\ kind \in Line /\ background = "term" /\ observed /\ GroupAlive
    /\ background' = "group"
    /\ SignalGroup("TERM")
    /\ UNCHANGED <<plan, stopping, launch, observed, exitSaid, fatal, status, ended, stdin, pipes, micro>>

BackgroundKill == BackgroundTimer \/ BackgroundGroup

(***************************************************************************)
(* fatalProtocolError and terminateAfterFailedOpen of the line transports: *)
(* a stop attempt of their own, unless one is there already.               *)
(***************************************************************************)
StopItself ==
    /\ stdin' = "closed"
    /\ IF attempts = <<>>
       THEN /\ attempts' = <<Attempt("terminate", FALSE)>>
            /\ IF observed
               THEN ladder' = [at |-> "group", step |-> 0] /\ UNCHANGED <<process, signalled>>
               ELSE ladder' = [at |-> "wait", step |-> 1] /\ SignalGroup("TERM")
       ELSE UNCHANGED <<attempts, ladder, process, signalled>>
    /\ UNCHANGED <<stopMode, stopSettled, background>>
=============================================================================
