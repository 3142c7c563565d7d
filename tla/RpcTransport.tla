---------------------------- MODULE RpcTransport ----------------------------
(***************************************************************************)
(* The rpc transports of omp and pi (live/transports/rpc-base.ts with      *)
(* omp-rpc.ts and pi-rpc.ts): commands correlated by id, each with a       *)
(* timer, a handshake made of such commands, and lifecycle frames that     *)
(* tell the status.  The frames of one chunk of stdout are dispatched      *)
(* before the continuation of a command that one of them answered.         *)
(***************************************************************************)
EXTENDS Transport, FiniteSets

CONSTANT
    Steering  \* the commands a caller sends beside prompts and follow-ups

ASSUME RpcAssumption ==
    Steering \subseteq {"steer", "cancel", "status"}

VARIABLES
    ready,      \* readySeen of omp
    reqs,       \* requestId
    pend,       \* pending: id |-> the command that waits for its response
    run,        \* the provider is in a turn
    due,        \* turns it has accepted and not begun
    lifecycle   \* what the last lifecycle frame that was read meant: each is
                \* sent with what the provider is at (`now`), whatever the
                \* dialect makes of it

rpc == <<ready, reqs, pend, run, due, lifecycle>>

\* The commands of the handshake and of a resume come first.
Handshake == (IF kind = "omp" THEN 2 ELSE 1) + (IF wants THEN 2 ELSE 0)
MaxReqs == 4 + plan.sends
Shaking == {"negotiate", "state", "switch", "verify"}
Pending == {id \in 1 .. reqs : pend[id] # "none"}

RpcInit ==
    /\ ready = FALSE /\ reqs = 0 /\ pend = [id \in 1 .. MaxReqs |-> "none"]
    /\ run = FALSE /\ due = 0 /\ lifecycle = "none"

Writes(message) ==
    /\ leader = "alive" /\ Len(out) < plan.pipe
    /\ out' = Append(out, message)

Response(request, of) == [type |-> "response", id |-> request.id, cmd |-> request.cmd, of |-> of]

-----------------------------------------------------------------------------
(* The provider.                                                           *)

\* The ready frame of omp, with or without the v2 dialect.
RpcReady ==
    /\ kind = "omp" /\ phase \in {"spawned", "handshake"} /\ session = "none"
    /\ \E of \in {"v2", "v1"} : Writes([type |-> "ready", of |-> of])
    /\ session' = "fresh"
    /\ UNCHANGED <<inp, run, due>>

\* What a provider answers: a failure, a misdelivered response, or the
\* command's own answer.  It idles before it answers an abort; a switch it
\* confirms may still leave it where it was.
RpcReplies ==
    /\ kind \in Rpc /\ inp # <<>>
    /\ LET request == Head(inp) IN
         /\ request.cmd = "cancel" => ~run
         /\ \/ /\ \E of \in {"failed", "misdelivered"} : Writes(Response(request, of))
               /\ UNCHANGED <<session, due>>
            \/ /\ request.cmd \in {"prompt", "follow_up"}
               /\ Writes(Response(request, "ok"))
               /\ due' = due + 1
               /\ UNCHANGED session
            \/ /\ request.cmd = "prompt" /\ kind = "omp" /\ ~run /\ due = 0
               /\ Writes(Response(request, "local"))
               /\ UNCHANGED <<session, due>>
            \/ /\ request.cmd \in {"state", "verify", "status"}
               /\ session' = IF session = "none" THEN "fresh" ELSE session
               /\ Writes(Response(request, IF request.cmd = "status"
                                           THEN IF run THEN "busy" ELSE "still"
                                           ELSE session'))
               /\ UNCHANGED due
            \/ /\ request.cmd = "switch"
               /\ session' \in {session, "wanted"}
               /\ \E of \in {"ok", "cancelled"} : Writes(Response(request, of))
               /\ UNCHANGED due
            \/ /\ request.cmd \in {"negotiate", "steer", "cancel"}
               /\ Writes(Response(request, "ok"))
               /\ UNCHANGED <<session, due>>
    /\ inp' = Tail(inp)
    /\ UNCHANGED run

RpcBegins ==
    /\ kind \in Rpc /\ due > 0 /\ ~run
    /\ Writes([type |-> "agent_start", now |-> "running"])
    /\ run' = TRUE /\ due' = due - 1
    /\ UNCHANGED <<inp, session>>

\* The last frame of a run: agent_end of omp; agent_settled of pi, which may
\* stand for all that pi took meanwhile.
RpcEnds ==
    /\ kind \in Rpc /\ run
    /\ Writes(IF kind = "omp" THEN [type |-> "agent_end", of |-> "terminal", now |-> "idle"]
              ELSE [type |-> "agent_settled", now |-> "idle"])
    /\ run' = FALSE
    /\ due' \in IF kind = "pi" THEN {0, due} ELSE {due}
    /\ UNCHANGED <<inp, session>>

\* An agent_end after which the run goes on: retries, compaction, queued work.
RpcGoesOn ==
    /\ kind \in Rpc /\ run
    /\ Writes([type |-> "agent_end", of |-> "more", now |-> "running"])
    /\ UNCHANGED <<inp, session, run, due>>

RpcGarbage ==
    /\ kind \in Rpc
    /\ Writes([type |-> "garbage"])
    /\ UNCHANGED <<inp, session, run, due>>

RpcProvider ==
    /\ RpcReady \/ RpcReplies \/ RpcBegins \/ RpcEnds \/ RpcGoesOn \/ RpcGarbage
    /\ UNCHANGED <<plan, process, stopping, background, phase, stage, surface, stdin, micro,
                   ready, reqs, pend, lifecycle>>

-----------------------------------------------------------------------------
(* requestCommand: the id is registered, then the frame is written.        *)

Request(cmd) ==
    /\ reqs' = reqs + 1
    /\ pend' = [pend EXCEPT ![reqs + 1] = cmd]
    /\ inp' = IF stdin = "open" THEN Append(inp, [id |-> reqs + 1, cmd |-> cmd]) ELSE inp

Answered(id, ok, of) == [type |-> "answer", cmd |-> pend[id], ok |-> ok, of |-> of]

\* rejectAllPending: each command's await goes on with the rejection.
RejectAll ==
    /\ pend' = [id \in 1 .. MaxReqs |-> "none"]
    /\ micro' = IF phase = "handshake" /\ \E id \in Pending : pend[id] \in Shaking
                THEN Append(micro, [type |-> "answer", cmd |-> "state", ok |-> FALSE, of |-> "closed"])
                ELSE micro

-----------------------------------------------------------------------------
(* open()                                                                  *)

RpcSpawn ==
    /\ kind \in Rpc /\ phase = "new"
    /\ \/ phase' = "spawned" /\ Launched /\ UNCHANGED <<status, ended, signalled>>
       \/ /\ phase' = "failed" /\ status' = "error" /\ ended' = TRUE /\ signalled' = TRUE
          /\ UNCHANGED <<leader, helpers>>
    /\ UNCHANGED <<plan, killing, stopping, background, stage, session, observed, exitSaid,
                   fatal, stdin, pipes, micro, rpc>>

\* failLaunch up to its await: SIGTERM now, SIGKILL after the grace.
RpcFailLaunch ==
    /\ phase' = "failing"
    /\ stdin' = "closed" /\ signalled' = TRUE
    /\ background' = IF background = "none" THEN "term" ELSE background

RpcReported ==
    /\ kind \in Rpc /\ phase = "spawned" /\ Turnover
    /\ \/ /\ phase' = "handshake"
          /\ IF kind = "omp"
             THEN stage' = "ready" /\ UNCHANGED <<reqs, pend, inp>>
             ELSE stage' = "state" /\ Request("state")
          /\ UNCHANGED <<stdin, signalled, background>>
       \/ RpcFailLaunch /\ UNCHANGED <<stage, reqs, pend, inp>>
    /\ UNCHANGED <<plan, process, stopping, session, observed, exitSaid, fatal, status, ended, out, micro,
                   ready, run, due, lifecycle>>

\* The ready gate of omp opened, or its timer ran out.
RpcGate ==
    /\ kind = "omp" /\ phase = "handshake" /\ stage = "ready" /\ Turnover
    /\ \/ ready /\ stage' = "negotiate" /\ Request("negotiate") /\ UNCHANGED <<phase, stdin, signalled, background>>
       \/ ~ready /\ RpcFailLaunch /\ UNCHANGED <<stage, reqs, pend, inp>>
    /\ UNCHANGED <<plan, process, stopping, session, observed, exitSaid, fatal, status, ended, out, micro,
                   ready, run, due, lifecycle>>

\* fatalReject won the race of open().
RpcFatalOpen ==
    /\ kind \in Rpc /\ phase = "handshake" /\ fatal
    /\ RpcFailLaunch
    /\ UNCHANGED <<plan, process, stopping, stage, session, observed, exitSaid, fatal, status, ended, pipes,
                   micro, rpc>>

\* failLaunch after its await.
RpcLaunchFailed ==
    /\ kind \in Rpc /\ phase = "failing" /\ Turnover
    /\ observed \/ background = "killed"
    /\ phase' = "failed" /\ status' = "error" /\ ended' = TRUE
    /\ RejectAll
    /\ UNCHANGED <<plan, process, stopping, background, stage, session, observed, signalled, exitSaid, fatal,
                   stdin, pipes, ready, reqs, run, due, lifecycle>>

\* mutant: the locator that get_state echoes is not compared
VerdictNoEcho(answer) ==
    CASE answer.ok /\ answer.cmd = "negotiate" -> "state"
      [] answer.ok /\ answer.cmd = "state" -> IF wants THEN "switch" ELSE "open"
      [] answer.ok /\ answer.cmd = "switch" /\ answer.of = "ok" -> "verify"
      [] answer.ok /\ answer.cmd = "verify" -> "open"
      [] OTHER -> "failed"

\* What the handshake makes of an answer: the stage it goes on with.
Verdict(answer) ==
    CASE answer.ok /\ answer.cmd = "negotiate" -> "state"
      [] answer.ok /\ answer.cmd = "state" -> IF wants THEN "switch" ELSE "open"
      [] answer.ok /\ answer.cmd = "switch" /\ answer.of = "ok" -> "verify"
      [] answer.ok /\ answer.cmd = "verify" /\ answer.of = "wanted" -> "open"
      [] OTHER -> "failed"

\* The handshake and runResume go on.  Of a launch that failed meanwhile
\* nothing is left that could be seen.
RpcShakes(answer) ==
    LET next == Verdict(answer) IN
    IF phase # "handshake"
    THEN UNCHANGED <<phase, stage, stdin, signalled, background, status, reqs, pend, inp>>
    ELSE CASE next = "failed" -> RpcFailLaunch /\ UNCHANGED <<stage, status, reqs, pend, inp>>
           [] next = "open" ->
                /\ phase' = "open"
                /\ status' = IF status = "starting" /\ ~ended THEN "idle" ELSE status
                /\ UNCHANGED <<stage, stdin, signalled, background, reqs, pend, inp>>
           [] OTHER -> stage' = next /\ Request(next) /\ UNCHANGED <<phase, stdin, signalled, background, status>>

\* send() goes on after the response: cancel and status look at it.
RpcSettles(answer) ==
    /\ status' = CASE answer.ok /\ answer.cmd = "cancel" /\ status = "cancelling" -> RpcStatus("idle")
                   [] answer.ok /\ answer.cmd = "status" ->
                        RpcStatus(IF answer.of = "busy" THEN "running" ELSE "idle")
                   [] OTHER -> status
    /\ UNCHANGED <<phase, stage, stdin, signalled, background, reqs, pend, inp>>

RpcContinues ==
    /\ kind \in Rpc /\ micro # <<>>
    /\ micro' = Tail(micro)
    /\ IF Head(micro).cmd \in Shaking THEN RpcShakes(Head(micro)) ELSE RpcSettles(Head(micro))
    /\ UNCHANGED <<plan, process, stopping, session, observed, exitSaid, fatal, ended, out,
                   ready, run, due, lifecycle>>

-----------------------------------------------------------------------------
(* send()                                                                  *)

\* What the kernel sends: it prompts an idle session and steers a running one.
MaySend(cmd) ==
    /\ cmd = "prompt" => status = "idle" /\ \A id \in Pending : pend[id] # "prompt"
    /\ cmd \in {"steer", "follow_up"} => status = "running"

\* send() up to its await.
RpcSend ==
    /\ kind \in Rpc /\ phase = "open" /\ Turnover /\ ~fatal /\ ~ended
    /\ reqs < Handshake + plan.sends
    /\ \E cmd \in {"prompt", "follow_up"} \union Steering :
         /\ MaySend(cmd)
         /\ Request(cmd)
         /\ status' = IF cmd = "cancel" /\ status = "running" THEN RpcStatus("cancelling") ELSE status
    /\ UNCHANGED <<plan, process, stopping, background, launch, observed, signalled, exitSaid, fatal, ended, stdin, out,
                   micro, ready, run, due, lifecycle>>

\* The timer of a command: a response that comes later finds no one.
RpcTimer ==
    /\ kind \in Rpc /\ Turnover
    /\ \E id \in Pending :
         /\ pend' = [pend EXCEPT ![id] = "none"]
         /\ micro' = Append(micro, Answered(id, FALSE, "timeout"))
    /\ UNCHANGED <<plan, process, stopping, background, launch, surface, stdin, pipes, ready, reqs, run, due, lifecycle>>

-----------------------------------------------------------------------------
(* ingest and dispatch.                                                    *)

\* failProtocol: SIGTERM now, SIGKILL after the grace.
FailProtocol ==
    /\ fatal' = TRUE
    /\ stdin' = "closed" /\ signalled' = TRUE
    /\ background' = IF background = "none" THEN "term" ELSE background

Known(message) ==
    /\ message.id \in Pending
    /\ message.of # "misdelivered"

\* mutant: isTerminal is not looked at
OmpStatusAnyEnd(frame) ==
    CASE frame.type = "agent_start" -> "running"
      [] frame.type = "agent_end" -> "idle"
      [] OTHER -> "same"

\* What a lifecycle frame says of the session, in either dialect; every other
\* frame is a message, a tool or a notice.
OmpStatus(frame) ==
    CASE frame.type = "agent_start" -> "running"
      [] frame.type = "agent_end" /\ frame.of = "terminal" -> "idle"
      [] OTHER -> "same"

PiStatus(frame) ==
    CASE frame.type = "agent_start" -> "running"
      [] frame.type = "agent_settled" -> "idle"
      [] OTHER -> "same"

FrameStatus(frame) == IF kind = "omp" THEN OmpStatus(frame) ELSE PiStatus(frame)

\* What is nothing of the dialect, or answers a request that asked something else.
Breaks(message) ==
    \/ message.type = "garbage"
    \/ message.type = "ready" /\ message.of # "v2"
    \/ message.type = "response" /\ message.id \in Pending /\ ~Known(message)

RpcDispatch(message) ==
    CASE message.type = "response" /\ message.id \notin Pending ->
           UNCHANGED <<fatal, stdin, signalled, background, pend, micro, status, ready, lifecycle>>
      [] message.type = "response" /\ Known(message) ->
           /\ pend' = [pend EXCEPT ![message.id] = "none"]
           /\ micro' = Append(micro, Answered(message.id, message.of # "failed", message.of))
           /\ status' = IF message.of = "local" THEN RpcStatus("idle") ELSE status
           /\ UNCHANGED <<fatal, stdin, signalled, background, ready, lifecycle>>
      [] message.type \in {"agent_start", "agent_end", "agent_settled"} ->
           /\ status' = IF FrameStatus(message) = "same" THEN status ELSE RpcStatus(FrameStatus(message))
           /\ lifecycle' = message.now
           /\ UNCHANGED <<fatal, stdin, signalled, background, pend, micro, ready>>
      [] message.type = "ready" /\ message.of = "v2" ->
           ready' = TRUE /\ UNCHANGED <<fatal, stdin, signalled, background, pend, micro, status, lifecycle>>
      [] ~fatal /\ Breaks(message) ->
           FailProtocol /\ UNCHANGED <<pend, micro, status, ready, lifecycle>>
      [] OTHER -> UNCHANGED <<fatal, stdin, signalled, background, pend, micro, status, ready, lifecycle>>

RpcReads ==
    /\ kind \in Rpc /\ out # <<>>
    /\ RpcDispatch(Head(out))
    /\ out' = Tail(out)
    /\ UNCHANGED <<plan, process, stopping, launch, observed, exitSaid, ended, inp, reqs, run, due>>

\* onExit.  What stdout still holds can be told to no one: the pump ends.
RpcExits ==
    /\ kind \in Rpc /\ leader = "dead" /\ ~observed /\ Turnover
    /\ observed' = TRUE /\ inp' = <<>> /\ out' = <<>>
    /\ IF ended
       THEN UNCHANGED <<exitSaid, status, ended, pend, micro>>
       ELSE LET intended == signalled \/ fatal IN
            /\ exitSaid' = IF intended THEN "intended" ELSE "unexpected"
            /\ status' = IF intended THEN "closed" ELSE "error"
            /\ ended' = TRUE
            /\ RejectAll
    /\ UNCHANGED <<plan, process, stopping, background, launch, signalled, fatal, stdin,
                   ready, reqs, run, due, lifecycle>>

RpcHub ==
    \/ RpcSpawn \/ RpcReported \/ RpcGate \/ RpcFatalOpen \/ RpcLaunchFailed
    \/ RpcContinues \/ RpcSend \/ RpcTimer \/ RpcReads \/ RpcExits
=============================================================================
