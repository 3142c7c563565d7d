---------------------------- MODULE AgyStreamJson ----------------------------
(***************************************************************************)
(* The agy-stream-json transport (live/transports/agy-stream-json.ts): one *)
(* init envelope, then a result per turn; follow-ups accepted in a turn    *)
(* are queued and written when its result lands; cancel is a SIGINT.       *)
(* The turn state is shared with HermesAcp.                                *)
(***************************************************************************)
EXTENDS Transport

VARIABLES
    turn,       \* activeTurn: the text being answered, 0 for none
    queue,      \* followUpQueue
    prompted,   \* promptDelivered
    accepted,   \* texts accepted so far, a text is its number
    delivered,  \* the texts written to the provider, in order
    working     \* the text the provider is at, 0 for none

turns == <<turn, queue, prompted, accepted, delivered, working>>

TurnsInit ==
    /\ turn = 0 /\ queue = <<>> /\ prompted = FALSE /\ accepted = 0
    /\ delivered = <<>> /\ working = 0

Text(n) == [type |-> "text", of |-> n]

Untouched == <<plan, helpers, stopMode, stopSettled, stage>>

-----------------------------------------------------------------------------
(* The provider: it writes init, then answers its stdin one text at a time. *)

Emits(message) ==
    /\ leader = "alive" /\ Len(out) < plan.pipe
    /\ out' = Append(out, message)

\* It may be in another conversation than the one it was asked to resume.
AgyInits ==
    /\ kind = "agy" /\ session = "none"
    /\ \E conversation \in IF wants THEN {"wanted", "other"} ELSE {"fresh"} :
         /\ Emits([type |-> "init", of |-> conversation])
         /\ session' = conversation
    /\ UNCHANGED <<inp, working>>

TakesText ==
    /\ leader = "alive" /\ working = 0 /\ inp # <<>> /\ session # "none"
    /\ working' = Head(inp).of /\ inp' = Tail(inp)
    /\ UNCHANGED <<out, session>>

AgyAnswers ==
    /\ kind = "agy" /\ working # 0
    /\ Emits([type |-> "result"])
    /\ working' = 0
    /\ UNCHANGED <<inp, session>>

\* A line that is no envelope of a known event, or one over the byte cap.  A
\* well-formed step_update becomes an event and changes nothing else.
EmitsGarbage ==
    /\ Emits([type |-> "garbage"])
    /\ UNCHANGED <<inp, session, working>>

AgyProvider ==
    /\ AgyInits \/ (kind = "agy" /\ (TakesText \/ EmitsGarbage)) \/ AgyAnswers
    /\ UNCHANGED <<plan, process, stopping, background, phase, stage, surface, stdin, micro,
                   turn, queue, prompted, accepted, delivered>>

-----------------------------------------------------------------------------
(* open()                                                                  *)

\* The preflight of a resume and the spawn; either may refuse the launch.
AgySpawn ==
    /\ kind = "agy" /\ phase = "new"
    /\ \/ phase' = "spawned" /\ Launched
       \/ phase' = "failed" /\ UNCHANGED <<leader, helpers>>
    /\ UNCHANGED <<plan, stopMode, stopSettled, stage, killing, attempts, ladder, background, session, surface, stdin, pipes, micro, turns>>

AgyReported ==
    /\ kind = "agy" /\ phase = "spawned" /\ Turnover
    /\ phase' = "handshake"
    /\ UNCHANGED <<plan, process, stopping, background, stage, session, surface, stdin, pipes, micro, turns>>

\* The hub could not record the process: the child is stopped.
AgyReportFails ==
    /\ kind = "agy" /\ phase = "spawned" /\ Turnover
    /\ phase' = "failed" /\ fatal' = TRUE
    /\ stdin' = "closed" /\ background' = "term"
    /\ micro' = <<>>
    /\ UNCHANGED <<plan, process, stopping, stage, session, observed, signalled, exitSaid, status, ended, pipes, turns>>

\* open() goes on after raceInit: nothing here looks at `fatal`.
AgyOpens ==
    /\ micro # <<>> /\ Head(micro).type = "init" /\ phase = "handshake"
    /\ micro' = Tail(micro)
    /\ IF wants /\ Head(micro).of # "wanted"
       THEN /\ phase' = "failed" /\ fatal' = TRUE
            /\ StopItself
            /\ UNCHANGED status
       ELSE /\ phase' = "open"
            /\ status' = IF ended THEN status ELSE "idle"
            /\ UNCHANGED <<process, stopping, background, stdin, signalled, fatal>>
    /\ UNCHANGED <<plan, stage, session, observed, exitSaid, ended, pipes, turns>>

\* mutant: open() rejects and leaves the process to nobody
AgyOpenFailsOnly ==
    /\ kind = "agy" /\ phase = "handshake" /\ Turnover
    /\ phase' = "failed" /\ fatal' = TRUE
    /\ UNCHANGED <<plan, process, stopping, background, stage, session, observed, signalled, exitSaid, status, ended,
                   stdin, pipes, micro, turns>>

\* No init in time, or the provider exited, or the stream was fatal first.
AgyOpenFails ==
    /\ kind = "agy" /\ phase = "handshake" /\ Turnover
    /\ phase' = "failed" /\ fatal' = TRUE
    /\ StopItself
    /\ UNCHANGED <<plan, stage, session, observed, exitSaid, status, ended, pipes, micro, turns>>

-----------------------------------------------------------------------------
(* send()                                                                  *)

\* deliverTurn: the text is dropped when stdin is gone or the stream fatal.
Writable == ~fatal /\ stdin = "open" /\ ~observed

AgyDeliver(text) ==
    IF Writable
    THEN /\ turn' = text
         /\ inp' = Append(inp, Text(text))
         /\ delivered' = Append(delivered, text)
         /\ status' = IF ended THEN status ELSE "running"
    ELSE turn' = 0 /\ UNCHANGED <<inp, delivered, status>>

Sendable == Turnover /\ phase = "open" /\ accepted < plan.texts

AgyPrompt ==
    /\ kind = "agy" /\ Sendable /\ ~prompted /\ turn = 0
    /\ prompted' = TRUE
    /\ accepted' = accepted + 1
    /\ AgyDeliver(accepted + 1)
    /\ UNCHANGED <<Untouched, killing, leader, attempts, ladder, background, phase, session, observed, signalled,
                   exitSaid, fatal, ended, stdin, out, micro, queue, working>>

AgyFollowUp ==
    /\ kind = "agy" /\ Sendable
    /\ accepted' = accepted + 1
    /\ IF turn # 0 \/ queue # <<>>
       THEN /\ queue' = Append(queue, accepted + 1)
            /\ UNCHANGED <<turn, inp, delivered, status>>
       ELSE AgyDeliver(accepted + 1) /\ UNCHANGED queue
    /\ UNCHANGED <<Untouched, killing, leader, attempts, ladder, background, phase, session, observed, signalled,
                   exitSaid, fatal, ended, stdin, out, micro, prompted, working>>

\* cancelTurn: SIGINT to the group, and the signal counts as the hub's own.
AgyCancel ==
    /\ kind = "agy" /\ Turnover /\ phase = "open" /\ turn # 0 /\ status = "running"
    /\ status' = IF ended THEN status ELSE "cancelling"
    /\ signalled' = TRUE
    /\ UNCHANGED <<plan, process, stopping, background, launch, observed, exitSaid, fatal, ended, stdin, pipes, micro,
                   turn, queue, prompted, accepted, delivered, working>>

-----------------------------------------------------------------------------
(* The stdout reader: the lines of one chunk are taken in one go, before    *)
(* a continuation that the first of them made due.                          *)

\* fatalProtocolError
AgyFatal ==
    /\ fatal' = TRUE
    /\ turn' = 0
    /\ status' = IF ended THEN status ELSE "error"
    /\ StopItself
    /\ UNCHANGED <<inp, queue, delivered, micro>>

InitSeen == session # "none" /\ ~\E i \in DOMAIN out : out[i].type = "init"

\* mutant: the result ends the turn and the queue waits for another
AgyResultKeepsQueue ==
    /\ turn' = 0 /\ status' = IF ended THEN status ELSE "idle"
    /\ UNCHANGED <<queue, inp, delivered>>
    /\ UNCHANGED <<process, attempts, stopMode, stopSettled, ladder, background, stdin, signalled, fatal, micro>>

AgyResult ==
    /\ IF queue = <<>>
       THEN /\ turn' = 0 /\ status' = IF ended THEN status ELSE "idle"
            /\ UNCHANGED <<queue, inp, delivered>>
       ELSE /\ queue' = Tail(queue)
            /\ IF Writable
               THEN /\ turn' = Head(queue)
                    /\ inp' = Append(inp, Text(Head(queue)))
                    /\ delivered' = Append(delivered, Head(queue))
                    /\ status' = IF ended THEN status ELSE "running"
               ELSE /\ turn' = 0 /\ status' = IF ended THEN status ELSE "idle"
                    /\ UNCHANGED <<inp, delivered>>
    /\ UNCHANGED <<process, attempts, stopMode, stopSettled, ladder, background, stdin, signalled, fatal, micro>>

\* handleLine, with handleStepUpdate and handleResult.
AgyReads ==
    /\ kind = "agy" /\ out # <<>> /\ phase # "new"
    /\ LET line == Head(out) IN
       IF fatal
       THEN UNCHANGED <<process, stopping, background, stdin, signalled, fatal, turn, status, inp, queue,
                        delivered, micro>>
       ELSE CASE line.type = "init" ->
                   /\ micro' = IF phase \in {"spawned", "handshake"} THEN Append(micro, line) ELSE micro
                   /\ UNCHANGED <<process, stopping, background, stdin, signalled, fatal, turn, status, inp,
                                  queue, delivered>>
              [] line.type = "result" /\ turn # 0 -> AgyResult
              [] OTHER -> AgyFatal
    /\ out' = Tail(out)
    /\ UNCHANGED <<plan, launch, observed, exitSaid, ended, prompted, accepted, working>>

\* handleExit, observed once the launch was reported; stdout may hold lines
\* that are read after it.
AgyExits ==
    /\ kind = "agy" /\ leader = "dead" /\ ~observed /\ Turnover /\ phase # "spawned"
    /\ LET intended == signalled \/ fatal IN
         /\ exitSaid' = IF intended THEN "intended" ELSE "unexpected"
         /\ status' = IF fatal THEN status ELSE IF intended THEN "closed" ELSE "error"
    /\ observed' = TRUE /\ ended' = TRUE
    /\ turn' = 0 /\ inp' = <<>> /\ working' = 0
    /\ UNCHANGED <<plan, process, stopping, background, launch, signalled, fatal, stdin, out, micro,
                   queue, prompted, accepted, delivered>>

AgyHub ==
    \/ AgySpawn \/ AgyReported \/ AgyReportFails \/ AgyOpens \/ AgyOpenFails
    \/ AgyPrompt \/ AgyFollowUp \/ AgyCancel \/ AgyReads \/ AgyExits
=============================================================================
