------------------------------ MODULE HermesAcp ------------------------------
(***************************************************************************)
(* The hermes-acp transport (live/transports/hermes-acp.ts): ACP requests  *)
(* and responses over the pinned SDK, follow-ups queued behind the turn,   *)
(* and permission requests the hub answers, or a timer does.               *)
(***************************************************************************)
EXTENDS AgyStreamJson

VARIABLE
    perm      \* what became of each permission request

\* permissionPolicy of the launch, and the requests the provider makes in it.
policy == plan.policy
Perms == 1 .. plan.perms

permissions == <<perm>>
Answers == {"allow", "refuse"}

AcpInit == perm = [p \in Perms |-> "none"]

-----------------------------------------------------------------------------
(* The provider.  Requests of the handshake are told by `stage`.           *)

AcpShakes ==
    /\ kind = "hermes" /\ phase = "handshake"
    /\ \/ /\ stage = "initialize"
          /\ \E of \in {"loads", "plain", "refused"} : Emits([type |-> "initialized", of |-> of])
          /\ UNCHANGED session
       \/ /\ stage = "session" /\ session = "none"
          /\ \/ Emits([type |-> "session", of |-> "refused"]) /\ UNCHANGED session
             \/ /\ Emits([type |-> "session", of |-> "ok"])
                /\ session' = IF wants THEN "wanted" ELSE "fresh"
    /\ stage' = "answered"
    /\ UNCHANGED <<inp, working, perm>>

\* The turn's response, or an error in its place: both end the turn.
AcpAnswers ==
    /\ kind = "hermes" /\ working # 0
    /\ Emits([type |-> "done", of |-> working])
    /\ working' = 0
    /\ UNCHANGED <<inp, session, stage, perm>>

AcpAsks ==
    /\ kind = "hermes" /\ working # 0
    /\ \E p \in Perms :
         /\ perm[p] = "none" /\ \A q \in 1 .. p - 1 : perm[q] # "none"
         /\ perm' = [perm EXCEPT ![p] = "sent"]
         /\ Emits([type |-> "asks", of |-> p])
    /\ UNCHANGED <<inp, session, stage, working>>

\* A session/update that names another session.
AcpMisnames ==
    /\ kind = "hermes" /\ session # "none"
    /\ Emits([type |-> "misnamed"])
    /\ UNCHANGED <<inp, session, stage, working, perm>>

AcpProvider ==
    /\ \/ AcpShakes \/ AcpAnswers \/ AcpAsks \/ AcpMisnames
       \/ kind = "hermes" /\ (TakesText \/ EmitsGarbage) /\ UNCHANGED <<stage, perm>>
    /\ UNCHANGED <<plan, process, stopping, background, phase, surface, stdin, micro,
                   turn, queue, prompted, accepted, delivered>>

-----------------------------------------------------------------------------
(* answerPendingPermissions: everything that is open, at once.             *)

Cancelled(ps) == [p \in Perms |-> IF ps[p] = "pending" THEN "refuse" ELSE ps[p]]

\* shutdown() of this transport starts with it.
AcpShutdown ==
    /\ perm' = IF ladder' # ladder \/ leader = "none" THEN Cancelled(perm) ELSE perm
    /\ UNCHANGED turns

AcpStop == kind = "hermes" /\ (\E mode \in Modes : FirstStop(mode)) /\ AcpShutdown

AcpChainedStop == kind = "hermes" /\ (\E i \in DOMAIN attempts : ChainedStop(i)) /\ AcpShutdown

AcpStopItself == StopItself /\ perm' = Cancelled(perm)

-----------------------------------------------------------------------------
(* open()                                                                  *)

AcpSpawn ==
    /\ kind = "hermes" /\ phase = "new"
    /\ \/ phase' = "spawned" /\ Launched
       \/ phase' = "failed" /\ UNCHANGED <<leader, helpers>>
    /\ UNCHANGED <<plan, stopMode, stopSettled, stage, killing, attempts, ladder, background, session, surface, stdin, pipes, micro,
                   turns, permissions>>

AcpReported ==
    /\ kind = "hermes" /\ phase = "spawned" /\ Turnover
    /\ phase' = "handshake" /\ stage' = "initialize"
    /\ UNCHANGED <<plan, process, stopping, background, session, surface, stdin, pipes, micro,
                   turns, permissions>>

AcpReportFails ==
    /\ kind = "hermes" /\ phase = "spawned" /\ Turnover
    /\ phase' = "failed" /\ fatal' = TRUE
    /\ stdin' = "closed" /\ background' = "term"
    /\ UNCHANGED <<plan, process, stopping, stage, session, observed, signalled, exitSaid, status, ended,
                   pipes, micro, turns, permissions>>

AcpFailOpen ==
    /\ phase' = "failed" /\ fatal' = TRUE
    /\ AcpStopItself
    /\ UNCHANGED <<stage, status>>

\* open() goes on after a response of the handshake.  The identity of a
\* resume is the session/load that was accepted; nothing looks at `fatal`.
AcpOpens ==
    /\ kind = "hermes" /\ micro # <<>> /\ phase = "handshake"
    /\ micro' = Tail(micro)
    /\ LET answer == Head(micro) IN
       IF answer.of = "refused" \/ (answer.of = "plain" /\ wants)
       THEN AcpFailOpen
       ELSE /\ IF answer.type = "initialized"
               THEN stage' = "session" /\ UNCHANGED <<phase, status>>
               ELSE /\ phase' = "open"
                    /\ status' = IF ended THEN status ELSE "idle"
                    /\ UNCHANGED stage
            /\ UNCHANGED <<process, stopping, background, stdin, signalled, fatal, perm>>
    /\ UNCHANGED <<plan, session, observed, exitSaid, ended, pipes, turns>>

\* withHandshakeTimeout
AcpOpenFails ==
    /\ kind = "hermes" /\ phase = "handshake" /\ Turnover
    /\ AcpFailOpen
    /\ UNCHANGED <<plan, session, observed, exitSaid, ended, pipes, micro, turns>>

-----------------------------------------------------------------------------
(* send()                                                                  *)

AcpRest == <<Untouched, killing, leader, attempts, ladder, background, phase, session, observed, signalled,
             exitSaid, fatal, ended, stdin, micro, prompted>>

\* startTurn
AcpStart(text) ==
    IF fatal
    THEN turn' = 0 /\ UNCHANGED <<inp, delivered, status>>
    ELSE /\ turn' = text
         /\ inp' = IF stdin = "open" THEN Append(inp, Text(text)) ELSE inp
         /\ delivered' = Append(delivered, text)
         /\ status' = IF ended THEN status ELSE "running"

AcpPrompt ==
    /\ kind = "hermes" /\ Sendable /\ turn = 0
    /\ accepted' = accepted + 1
    /\ AcpStart(accepted + 1)
    /\ UNCHANGED <<AcpRest, out, queue, working, permissions>>

AcpFollowUp ==
    /\ kind = "hermes" /\ Sendable
    /\ accepted' = accepted + 1
    /\ IF turn # 0 \/ queue # <<>>
       THEN /\ queue' = Append(queue, accepted + 1)
            /\ UNCHANGED <<turn, inp, delivered, status>>
       ELSE AcpStart(accepted + 1) /\ UNCHANGED queue
    /\ UNCHANGED <<AcpRest, out, working, permissions>>

\* What is pending is answered `cancelled`, then the provider is told; it may
\* end its turn at any moment anyway.
AcpCancel ==
    /\ kind = "hermes" /\ Turnover /\ phase = "open" /\ turn # 0 /\ status = "running"
    /\ status' = IF ended THEN status ELSE "cancelling"
    /\ perm' = Cancelled(perm)
    /\ UNCHANGED <<plan, process, stopping, background, launch, observed, signalled, exitSaid, fatal, ended, stdin,
                   pipes, micro, turn, queue, prompted, accepted, delivered, working>>

\* answerPermission: a verdict on a request that is not pending is refused.
AcpOpenRequest(p) == perm[p] = "pending"

\* respondPermission of the kernel, of a request it was told of.
AcpVerdict ==
    /\ kind = "hermes" /\ Turnover /\ phase = "open"
    /\ \E p \in Perms, decision \in Answers :
         /\ AcpOpenRequest(p)
         /\ perm' = [perm EXCEPT ![p] = decision]
    /\ UNCHANGED <<base, turns>>

\* permission_timeout_ms ran out: denied.
AcpPermissionTimer ==
    /\ kind = "hermes" /\ Turnover
    /\ \E p \in Perms : perm[p] = "pending" /\ perm' = [perm EXCEPT ![p] = "refuse"]
    /\ UNCHANGED <<base, turns>>

-----------------------------------------------------------------------------
(* What arrives.                                                           *)

AcpFatal ==
    /\ fatal' = TRUE
    /\ turn' = 0
    /\ status' = IF ended THEN status ELSE "error"
    /\ AcpStopItself

(***************************************************************************)
(* guardedAcpInput reads ahead of the SDK: a record that breaks the frame  *)
(* rules is fatal while records before it wait, and nothing after it is    *)
(* passed on.                                                              *)
(***************************************************************************)
AcpGuard ==
    /\ kind = "hermes" /\ phase # "new"
    /\ \E i \in DOMAIN out :
         /\ out[i].type = "garbage"
         /\ out' = SubSeq(out, 1, i - 1)
    /\ IF fatal
       THEN UNCHANGED <<fatal, turn, status, stdin, process, signalled, stopping, background, perm>>
       ELSE AcpFatal
    /\ UNCHANGED <<plan, launch, observed, exitSaid, ended, inp, micro, queue, prompted, accepted, delivered,
                   working>>

\* settleTurn, or the catch of session/prompt: the next follow-up starts.
AcpSettle ==
    IF queue = <<>>
    THEN /\ turn' = 0 /\ status' = IF ended THEN status ELSE "idle"
         /\ UNCHANGED <<queue, inp, delivered>>
    ELSE queue' = Tail(queue) /\ AcpStart(Head(queue))

\* handlePermissionRequest: under the deny policy the answer is immediate.
AcpAsked(p) ==
    perm' = [perm EXCEPT ![p] = IF policy = "interactive" THEN "pending" ELSE "refuse"]

Quiet == UNCHANGED <<process, stopping, background, stdin, signalled, fatal>>

AcpReads ==
    /\ kind = "hermes" /\ out # <<>> /\ phase # "new"
    /\ LET message == Head(out) IN
         /\ message.type # "garbage"
         /\ CASE message.type \in {"initialized", "session"} ->
                   /\ micro' = IF phase = "handshake" THEN Append(micro, message) ELSE micro
                   /\ Quiet
                   /\ UNCHANGED <<turn, queue, inp, delivered, status, perm>>
              [] message.type = "done" /\ turn = message.of /\ ~fatal ->
                   AcpSettle /\ Quiet /\ UNCHANGED <<micro, perm>>
              [] message.type = "asks" ->
                   AcpAsked(message.of) /\ Quiet /\ UNCHANGED <<turn, queue, inp, delivered, status, micro>>
              [] message.type = "misnamed" /\ ~fatal ->
                   AcpFatal /\ UNCHANGED <<queue, inp, delivered, micro>>
              [] OTHER -> Quiet /\ UNCHANGED <<turn, queue, inp, delivered, status, micro, perm>>
    /\ out' = Tail(out)
    /\ UNCHANGED <<plan, launch, observed, exitSaid, ended, prompted, accepted, working>>

\* handleExit
AcpExits ==
    /\ kind = "hermes" /\ leader = "dead" /\ ~observed /\ Turnover
    /\ LET intended == signalled \/ fatal IN
         /\ exitSaid' = IF intended THEN "intended" ELSE "unexpected"
         /\ status' = IF fatal THEN status ELSE IF intended THEN "closed" ELSE "error"
    /\ observed' = TRUE /\ ended' = TRUE
    /\ turn' = 0 /\ inp' = <<>> /\ working' = 0
    /\ UNCHANGED <<plan, process, stopping, background, launch, signalled, fatal, stdin, out, micro,
                   queue, prompted, accepted, delivered, permissions>>

AcpHub ==
    \/ AcpSpawn \/ AcpReported \/ AcpReportFails \/ AcpOpens \/ AcpOpenFails
    \/ AcpPrompt \/ AcpFollowUp \/ AcpCancel \/ AcpVerdict \/ AcpPermissionTimer
    \/ AcpStop \/ AcpChainedStop \/ AcpGuard \/ AcpReads \/ AcpExits
=============================================================================
