----------------------------- MODULE Transports -----------------------------
(***************************************************************************)
(* One session's transport, of any of the four classes, from its creation  *)
(* to the end of its stream: its process, its dialect and stop().          *)
(***************************************************************************)
EXTENDS HermesAcp, RpcTransport

vars == <<base, turns, permissions, rpc>>

Init == TransportInit /\ TurnsInit /\ AcpInit /\ RpcInit

\* The steps that are the same in all of them.  shutdown() of hermes also
\* answers what is pending: AcpStop.
Shared ==
    /\ \/ ProcessStep
       \/ kind # "hermes" /\ \E mode \in Modes : FirstStop(mode)
       \/ kind # "hermes" /\ \E i \in DOMAIN attempts : ChainedStop(i)
       \/ \E mode \in Modes : LaterStop(mode)
       \/ LadderStep
       \/ BackgroundKill
    /\ UNCHANGED <<turns, permissions, rpc>>

Agy == (AgyProvider \/ AgyHub) /\ UNCHANGED <<permissions, rpc>>
Acp == (AcpProvider \/ AcpHub) /\ UNCHANGED rpc
RpcSteps == (RpcProvider \/ RpcHub) /\ UNCHANGED <<turns, permissions>>

Next == Shared \/ Agy \/ Acp \/ RpcSteps

Spec == Init /\ [][Next]_vars

(***************************************************************************)
(* Fairness: a SIGKILL lands, and the event loop of the hub goes on: of    *)
(* the timers that are due, the exits to observe and the continuations to  *)
(* run it takes one.  Nothing is asked of the provider.                    *)
(***************************************************************************)
EventLoop ==
    \/ /\ \/ LadderStep
          \/ BackgroundKill
          \/ kind # "hermes" /\ \E i \in DOMAIN attempts : ChainedStop(i)
       /\ UNCHANGED <<turns, permissions, rpc>>
    \/ /\ AgyReported \/ AgyReportFails \/ AgyOpens \/ AgyOpenFails \/ AgyExits
       /\ UNCHANGED <<permissions, rpc>>
    \/ /\ \/ AcpReported \/ AcpReportFails \/ AcpOpens \/ AcpOpenFails \/ AcpExits
          \/ AcpChainedStop \/ AcpPermissionTimer
       /\ UNCHANGED rpc
    \/ /\ \/ RpcReported \/ RpcGate \/ RpcFatalOpen \/ RpcLaunchFailed \/ RpcContinues
          \/ RpcExits \/ RpcTimer
       /\ UNCHANGED <<turns, permissions>>

Fairness ==
    /\ WF_vars(KillLands /\ ProcessStep /\ UNCHANGED <<turns, permissions, rpc>>)
    /\ WF_vars(EventLoop)

FairSpec == Spec /\ Fairness

-----------------------------------------------------------------------------

TransportTypeOK ==
    /\ plan \in Launches
    /\ leader \in {"none", "alive", "dead"} /\ helpers \in BOOLEAN /\ killing \in BOOLEAN
    /\ {observed, signalled, fatal, ended, stopSettled, ready, run, prompted} \subseteq BOOLEAN
    /\ exitSaid \in {"none", "intended", "unexpected"}
    /\ stdin \in {"open", "closed"}
    /\ attempts \in Seq([mode : Modes, tracked : BOOLEAN, result : {"none", "closed", "orphaned"}])
    /\ stopMode \in Modes \union {"none"}
    /\ ladder \in [at : {"idle", "wait", "group"}, step : 0 .. 3]
    /\ background \in {"none", "term", "group", "killed"}
    /\ phase \in {"new", "spawned", "handshake", "failing", "open", "failed"}
    /\ session \in Sessions
    /\ status \in {"starting", "idle", "running", "cancelling", "closing", "closed", "error", "orphaned"}
    /\ Len(out) <= plan.pipe
    /\ turn \in 0 .. plan.texts /\ working \in 0 .. plan.texts
    /\ perm \in [Perms -> Answers \union {"none", "sent", "pending"}]
    /\ lifecycle \in {"none", "running", "idle"}

(***************************************************************************)
(* Types; and a stop that reports closed has observed the exit of the      *)
(* leader and found no member of its group, in whatever order exits,       *)
(* timers, calls of stop and the launch's own kill came (shutdown, stop).  *)
(***************************************************************************)
ClosedProven ==
    /\ TransportTypeOK
    /\ \A i \in DOMAIN attempts :
        attempts[i].result = "closed" => leader = "none" \/ (leader = "dead" /\ ~helpers /\ observed)

(***************************************************************************)
(* A SIGKILL is sent only under a terminate call, or by a transport that   *)
(* gives up on its own stream or launch: a graceful stop never forces.     *)
(***************************************************************************)
KillAuthorised ==
    [][killing' # killing =>
         \/ \E i \in DOMAIN attempts : attempts[i].mode = "terminate"
         \/ fatal \/ phase \in {"failing", "failed"}]_vars

(***************************************************************************)
(* The leader of a launch that failed or of a stream that broke the        *)
(* dialect does not live on, unless a graceful stop was under way when it  *)
(* happened (fatalProtocolError and terminateAfterFailedOpen then leave    *)
(* the kill to the caller).                                                *)
(***************************************************************************)
GivenUp ==
    /\ phase = "failed" \/ fatal
    /\ ~(kind \in Line /\ attempts # <<>> /\ attempts[1].mode = "graceful")
FailureKills == GivenUp ~> leader # "alive"

(***************************************************************************)
(* Texts reach the provider in the order they were accepted, each once,    *)
(* and a follow-up waits only behind a turn: while the stream is sound,    *)
(* the queue of a line transport is empty when no turn is in flight.       *)
(***************************************************************************)
FollowUpsInOrder ==
    /\ \A i, j \in DOMAIN delivered : i < j => delivered[i] < delivered[j]
    /\ kind \in Line /\ turn = 0 /\ queue # <<>> => ~Writable

(***************************************************************************)
(* A resume that opened is in the session it was asked for: no transport   *)
(* starts afresh under a resume (raceInit's echo, session/load,            *)
(* runResume's get_state).                                                 *)
(***************************************************************************)
ResumeNeverFresh == phase = "open" /\ wants => session = "wanted"

(***************************************************************************)
(* With every continuation run, the status of an open rpc session agrees   *)
(* with the last lifecycle frame it read, so that a turn is neither ended  *)
(* under its caller nor kept open for ever.                                *)
(***************************************************************************)
StatusTruthful ==
    kind \in Rpc /\ Turnover /\ phase = "open" =>
        /\ status = "running" => lifecycle = "running"
        /\ status = "idle" => lifecycle # "running"

(***************************************************************************)
(* Nobody is left waiting, whatever the provider does with its signals:    *)
(* every attempt a stop starts reports (shutdown, stop), and no permission *)
(* request stays open (the timer of hermes).                               *)
(***************************************************************************)
NobodyLeftWaiting ==
    /\ \A i \in UNION {1 .. l.stops : l \in Launches} :
        (i \in DOMAIN attempts) ~> (i \in DOMAIN attempts /\ attempts[i].result # "none")
    /\ \A p \in UNION {1 .. l.perms : l \in Launches} :
        (p \in Perms /\ perm[p] = "pending") ~> (p \in Perms /\ perm[p] \in Answers)
=============================================================================
