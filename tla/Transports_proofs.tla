-------------------------- MODULE Transports_proofs --------------------------
(***************************************************************************)
(* What the transports keep, for launches of every kind, whatever their    *)
(* bounds: a stop that reports closed has its proof, a SIGKILL has its     *)
(* authority, a resume never opens afresh, texts keep their order, and the *)
(* status of an rpc session is that of its provider's last frame.          *)
(***************************************************************************)
EXTENDS Transports, TLAPS

-----------------------------------------------------------------------------
(* What goes through the pipes, and what awaits go on with, by dialect.    *)

Texts == 1 .. plan.texts

AgyInit == [type : {"init"}, of : {"fresh", "wanted", "other"}]
AgyLine == AgyInit \cup [type : {"result", "garbage"}]

AcpAnswer == [type : {"initialized"}, of : {"loads", "plain", "refused"}]
               \cup [type : {"session"}, of : {"ok", "refused"}]
AcpMessage == AcpAnswer \cup [type : {"done"}, of : Texts] \cup [type : {"asks"}, of : Perms]
                \cup [type : {"misnamed", "garbage"}]

Commands == Shaking \cup {"prompt", "follow_up"} \cup Steering
Said     == Sessions \cup {"failed", "misdelivered", "ok", "local", "busy", "still", "cancelled"}
RpcRequest == [id : Nat, cmd : Commands]
RpcAnswer  == [type : {"answer"}, cmd : Commands, ok : BOOLEAN, of : Said \cup {"timeout", "closed"}]
RpcFrame   == [type : {"ready"}, of : {"v1", "v2"}]
                \cup [type : {"response"}, id : Nat, cmd : Commands, of : Said]
                \cup [type : {"agent_start"}, now : {"running"}]
                \cup [type : {"agent_settled"}, now : {"idle"}]
                \cup [type : {"agent_end"}, of : {"terminal"}, now : {"idle"}]
                \cup [type : {"agent_end"}, of : {"more"}, now : {"running"}]
                \cup [type : {"garbage"}]

LineText == [type : {"text"}, of : Texts]

Stages == {"none", "initialize", "session", "answered", "ready"} \cup Shaking

\* The types of the pipes, by the class of the transport.
PipesTypeOK ==
  /\ kind = "agy" => out \in Seq(AgyLine) /\ micro \in Seq(AgyInit)
  /\ kind = "hermes" => out \in Seq(AcpMessage) /\ micro \in Seq(AcpAnswer)
  /\ kind \in Line => inp \in Seq(LineText)
  /\ kind \in Rpc => out \in Seq(RpcFrame) /\ micro \in Seq(RpcAnswer) /\ inp \in Seq(RpcRequest)
  /\ accepted \in 0 .. plan.texts /\ queue \in Seq(Texts) /\ delivered \in Seq(Texts)
  /\ stage \in Stages
  /\ due \in Nat /\ reqs \in Nat /\ pend \in [1 .. MaxReqs -> Commands \cup {"none"}]

-----------------------------------------------------------------------------
(* Sequences.                                                              *)

\* What an append adds.
LEMMA Appended ==
  ASSUME NEW S, NEW s \in Seq(S), NEW e \in S
  PROVE  /\ Append(s, e) \in Seq(S)
         /\ Len(Append(s, e)) = Len(s) + 1
         /\ DOMAIN Append(s, e) = 1 .. (Len(s) + 1)
         /\ \A i \in 1 .. Len(s) : Append(s, e)[i] = s[i]
         /\ Append(s, e)[Len(s) + 1] = e
         /\ Append(s, e) # <<>>
  OBVIOUS

\* What is left without the head.
LEMMA Headless ==
  ASSUME NEW S, NEW s \in Seq(S), s # <<>>
  PROVE  /\ Head(s) \in S /\ Head(s) = s[1] /\ Tail(s) \in Seq(S)
         /\ Len(s) \in Nat /\ Len(s) > 0 /\ Len(Tail(s)) = Len(s) - 1
         /\ \A i \in 1 .. Len(Tail(s)) : Tail(s)[i] = s[i + 1]
  OBVIOUS

-----------------------------------------------------------------------------
(* Types.                                                                  *)

Attempts == [mode : Modes, tracked : BOOLEAN, result : {"none", "closed", "orphaned"}]
Ladders  == [at : {"idle", "wait", "group"}, step : 0 .. 3]
Statuses == {"starting", "idle", "running", "cancelling", "closing", "closed", "error", "orphaned"}
Phases   == {"new", "spawned", "handshake", "failing", "open", "failed"}

\* The types of the process group and of the stop.
StopTypes ==
  /\ leader \in {"none", "alive", "dead"} /\ helpers \in BOOLEAN /\ killing \in BOOLEAN
  /\ signalled \in BOOLEAN /\ stopSettled \in BOOLEAN
  /\ attempts \in Seq(Attempts) /\ stopMode \in Modes \cup {"none"} /\ ladder \in Ladders
  /\ stdin \in {"open", "closed"} /\ background \in {"none", "term", "group", "killed"}

\* The types of what the hub knows of the launch.
HubTypes ==
  /\ plan \in Launches /\ observed \in BOOLEAN /\ fatal \in BOOLEAN /\ ended \in BOOLEAN
  /\ exitSaid \in {"none", "intended", "unexpected"}
  /\ phase \in Phases /\ session \in Sessions /\ status \in Statuses

\* The types of the dialects.
DialectTypes ==
  /\ ready \in BOOLEAN /\ run \in BOOLEAN /\ prompted \in BOOLEAN
  /\ turn \in 0 .. plan.texts /\ working \in 0 .. plan.texts
  /\ perm \in [Perms -> Answers \cup {"none", "sent", "pending"}]
  /\ lifecycle \in {"none", "running", "idle"}
  /\ Len(out) <= plan.pipe

TypeInv == StopTypes /\ HubTypes /\ DialectTypes /\ PipesTypeOK

\* The type invariant of the runs says the same in other words.
LEMMA TypesAgree == StopTypes /\ HubTypes /\ DialectTypes <=> TransportTypeOK
  BY DEF StopTypes, HubTypes, DialectTypes, TransportTypeOK, Attempts, Ladders, Statuses, Phases

\* A launch has its kind and its bounds.
LEMMA PlanType ==
  ASSUME plan \in Launches
  PROVE  /\ kind \in {"agy", "hermes", "omp", "pi"} /\ wants \in BOOLEAN
         /\ plan.texts \in Nat /\ plan.sends \in Nat /\ plan.perms \in Nat
         /\ plan.stops \in Nat /\ plan.pipe \in Nat
  BY TransportAssumption DEF kind, wants, Kinds

\* The ladders are as long as their steps count.
LEMMA RungsType ==
  ASSUME NEW mode
  PROVE  /\ Rungs(mode) \in Seq({"none", "INT", "TERM", "KILL"}) /\ Len(Rungs(mode)) <= 3
         /\ GroupRungs(mode) \in Seq({"none", "TERM", "KILL"}) /\ Len(GroupRungs(mode)) <= 3
  <1> DEFINE S == {"none", "INT", "TERM", "KILL"}
  <1>1. AgyRungs(mode) \in Seq(S) /\ Len(AgyRungs(mode)) <= 2
    <2>1. CASE mode = "graceful"
      BY <2>1 DEF AgyRungs
    <2>2. CASE mode # "graceful"
      BY <2>2 DEF AgyRungs
    <2> QED  BY <2>1, <2>2
  <1>2. AcpRungs(mode) \in Seq(S) /\ Len(AcpRungs(mode)) <= 2
    <2>1. CASE mode = "graceful"
      BY <2>1 DEF AcpRungs
    <2>2. CASE mode # "graceful"
      BY <2>2 DEF AcpRungs
    <2> QED  BY <2>1, <2>2
  <1>3. RpcRungs(mode) \in Seq(S) /\ Len(RpcRungs(mode)) <= 3
    <2>1. CASE mode = "terminate"
      BY <2>1 DEF RpcRungs
    <2>2. CASE mode # "terminate"
      BY <2>2 DEF RpcRungs
    <2> QED  BY <2>1, <2>2
  <1>4. GroupRungs(mode) \in Seq({"none", "TERM", "KILL"}) /\ Len(GroupRungs(mode)) <= 3
    <2>1. CASE mode = "terminate"
      BY <2>1 DEF GroupRungs
    <2>2. CASE mode # "terminate"
      BY <2>2 DEF GroupRungs
    <2> QED  BY <2>1, <2>2
  <1>5. Rungs(mode) \in {AgyRungs(mode), AcpRungs(mode), RpcRungs(mode)}
    BY DEF Rungs
  <1>6. Rungs(mode) \in Seq(S) /\ Len(Rungs(mode)) <= 3
    <2>1. CASE Rungs(mode) = AgyRungs(mode)
      BY <1>1, <2>1
    <2>2. CASE Rungs(mode) = AcpRungs(mode)
      BY <1>2, <2>2
    <2>3. CASE Rungs(mode) = RpcRungs(mode)
      BY <1>3, <2>3
    <2> QED  BY <1>5, <2>1, <2>2, <2>3
  <1> QED  BY <1>4, <1>6

\* The initial state is typed.
LEMMA InitTypes == Init => TypeInv
  <1> SUFFICES ASSUME Init PROVE TypeInv
    OBVIOUS
  <1> USE DEF Init, TransportInit, TurnsInit, AcpInit, RpcInit
  <1>1. StopTypes
    <2>1. Resting \in Ladders
      BY DEF Resting, Ladders
    <2>2. attempts \in Seq(Attempts)
      OBVIOUS
    <2> QED  BY <2>1, <2>2 DEF StopTypes
  <1>2. HubTypes
    BY DEF HubTypes, Phases, Statuses, Sessions
  <1>3. DialectTypes
    <2>1. turn \in 0 .. plan.texts /\ working \in 0 .. plan.texts /\ Len(out) <= plan.pipe
      BY <1>2, PlanType DEF HubTypes
    <2> QED  BY <2>1 DEF DialectTypes
  <1>4. PipesTypeOK
    BY <1>2, PlanType DEF HubTypes, PipesTypeOK, Stages, MaxReqs
  <1> QED  BY <1>1, <1>2, <1>3, <1>4 DEF TypeInv

\* An attempt of a mode is one, and so is what a settled one becomes.
LEMMA AttemptTypes ==
  ASSUME attempts \in Seq(Attempts)
  PROVE  /\ \A mode \in Modes : \A tracked \in BOOLEAN :
              /\ Attempt(mode, tracked) \in Attempts
              /\ [Attempt(mode, tracked) EXCEPT !.result = "closed"] \in Attempts
              /\ <<Attempt(mode, tracked)>> \in Seq(Attempts)
              /\ <<[Attempt(mode, tracked) EXCEPT !.result = "closed"]>> \in Seq(Attempts)
              /\ Append(attempts, Attempt(mode, tracked)) \in Seq(Attempts)
         /\ \A i \in DOMAIN attempts : \A result \in {"none", "closed", "orphaned"} :
              /\ [attempts EXCEPT ![i].result = result] \in Seq(Attempts)
              /\ attempts[i] \in Attempts
  <1>1. ASSUME NEW mode \in Modes, NEW tracked \in BOOLEAN
        PROVE  /\ Attempt(mode, tracked) \in Attempts
               /\ [Attempt(mode, tracked) EXCEPT !.result = "closed"] \in Attempts
    BY DEF Attempt, Attempts
  <1>2. ASSUME NEW i \in DOMAIN attempts, NEW result \in {"none", "closed", "orphaned"}
        PROVE  /\ [attempts EXCEPT ![i].result = result] \in Seq(Attempts)
               /\ attempts[i] \in Attempts
    <2>1. attempts[i] \in Attempts
      OBVIOUS
    <2>2. [attempts[i] EXCEPT !.result = result] \in Attempts
      BY <2>1 DEF Attempts
    <2>3. [attempts EXCEPT ![i] = [attempts[i] EXCEPT !.result = result]] \in Seq(Attempts)
      BY <2>2
    <2> QED  BY <2>1, <2>3
  <1>3. \A e \in Attempts : <<e>> \in Seq(Attempts) /\ Append(attempts, e) \in Seq(Attempts)
    OBVIOUS
  <1> QED  BY <1>1, <1>2, <1>3

\* A signal to the group keeps the types.
LEMMA SignalTypes ==
  ASSUME StopTypes, NEW sig, SignalGroup(sig)
  PROVE  /\ leader' \in {"none", "alive", "dead"} /\ helpers' \in BOOLEAN /\ killing' \in BOOLEAN
         /\ signalled' \in BOOLEAN
  BY Zenon DEF SignalGroup, StopTypes

\* The statuses of an rpc transport stay what they were, or become the next.
LEMMA RpcStatusType == \A next : RpcStatus(next) \in {status, next}
  BY DEF RpcStatus

\* The steps of the process group keep the types of the stop.
LEMMA ProcessTypes == ASSUME TypeInv, ProcessStep PROVE StopTypes' /\ HubTypes'
  <1> USE DEF TypeInv, ProcessStep, stopping, launch, surface
  <1>1. HubTypes'
    BY DEF HubTypes
  <1>2. StopTypes'
    BY DEF StopTypes, LeaderExits, HelperExits, KillLands
  <1> QED  BY <1>1, <1>2

\* Shutdown keeps the types.
LEMMA ShutdownTypes ==
  ASSUME StopTypes, HubTypes, NEW mode, Shutdown(mode)
  PROVE  /\ stdin' = "closed" /\ status' \in Statuses /\ ladder' \in Ladders
         /\ signalled' \in BOOLEAN /\ leader' \in {"none", "alive", "dead"}
         /\ helpers' \in BOOLEAN /\ killing' \in BOOLEAN
  <1>1. status' \in Statuses
    BY RpcStatusType DEF Shutdown, HubTypes, Statuses
  <1>2. ladder' \in Ladders
    BY DEF Shutdown, Ladders
  <1>3. signalled' \in BOOLEAN
    BY Zenon DEF Shutdown, StopTypes
  <1> QED  BY <1>1, <1>2, <1>3 DEF Shutdown, StopTypes, process

\* A settled attempt keeps the types.
LEMMA SettleTypes ==
  ASSUME StopTypes, HubTypes, NEW i \in DOMAIN attempts,
         NEW result \in {"closed", "orphaned"}, Settle(i, result)
  PROVE  /\ attempts' \in Seq(Attempts) /\ ladder' \in Ladders
         /\ stopSettled' \in BOOLEAN /\ status' \in Statuses
  <1>1. attempts' \in Seq(Attempts) /\ attempts[i] \in Attempts
    BY AttemptTypes DEF StopTypes, Settle
  <1>2. ladder' \in Ladders
    BY DEF Settle, Resting, Ladders
  <1>3. stopSettled' \in BOOLEAN
    BY <1>1 DEF Settle, StopTypes, Attempts
  <1>4. status' \in Statuses
    BY DEF Settle, HubTypes, Statuses
  <1> QED  BY <1>1, <1>2, <1>3, <1>4

\* The calls of stop keep the types.
LEMMA StopCallTypes ==
  ASSUME TypeInv, NEW mode \in Modes, FirstStop(mode) \/ LaterStop(mode)
  PROVE  StopTypes' /\ HubTypes'
  <1> USE DEF TypeInv, stopping, launch, surface
  <1>1. CASE LaterStop(mode)
    <2>1. attempts' \in Seq(Attempts)
      BY <1>1, AttemptTypes DEF LaterStop, Modes, StopTypes
    <2>2. HubTypes'
      BY <1>1 DEF LaterStop, HubTypes
    <2> QED  BY <1>1, <2>1, <2>2 DEF LaterStop, StopTypes, process, Modes
  <1>2. CASE FirstStop(mode) /\ leader = "none"
    <2>1. attempts' \in Seq(Attempts)
      BY <1>2, AttemptTypes DEF FirstStop, StopTypes
    <2>2. status' \in Statuses
      BY <1>2 DEF FirstStop, HubTypes, Statuses
    <2>3. HubTypes'
      BY <1>2, <2>2 DEF FirstStop, HubTypes
    <2>4. StopTypes'
      BY <1>2, <2>1 DEF FirstStop, StopTypes, process
    <2> QED  BY <2>3, <2>4
  <1>3. CASE FirstStop(mode) /\ leader # "none"
    <2>1. attempts' \in Seq(Attempts)
      BY <1>3, AttemptTypes DEF FirstStop, StopTypes
    <2>2. Shutdown(mode)
      BY <1>3 DEF FirstStop
    <2>3. HubTypes'
      BY <1>3, <2>2, ShutdownTypes DEF FirstStop, HubTypes
    <2>4. StopTypes'
      BY <1>3, <2>1, <2>2, ShutdownTypes DEF FirstStop, StopTypes
    <2> QED  BY <2>3, <2>4
  <1> QED  BY <1>1, <1>2, <1>3

\* The chained attempt keeps the types.
LEMMA ChainedTypes ==
  ASSUME TypeInv, NEW i \in DOMAIN attempts, ChainedStop(i)
  PROVE  StopTypes' /\ HubTypes'
  <1> USE DEF TypeInv, stopping, launch, surface
  <1>1. CASE attempts[i - 1].result = "closed"
    <2>1. attempts' \in Seq(Attempts)
      BY <1>1, AttemptTypes DEF ChainedStop, StopTypes
    <2>2. HubTypes'
      BY <1>1 DEF ChainedStop, HubTypes
    <2> QED  BY <1>1, <2>1, <2>2 DEF ChainedStop, StopTypes, process
  <1>2. CASE attempts[i - 1].result # "closed"
    <2>1. Shutdown("terminate")
      BY <1>2 DEF ChainedStop
    <2>2. HubTypes'
      BY <1>2, <2>1, ShutdownTypes DEF ChainedStop, HubTypes
    <2>3. StopTypes'
      BY <1>2, <2>1, ShutdownTypes DEF ChainedStop, StopTypes
    <2> QED  BY <2>2, <2>3
  <1> QED  BY <1>1, <1>2

\* The next rung of a ladder is one of at most three.
LEMMA NextRung ==
  ASSUME StopTypes, NEW rungs, Len(rungs) <= 3, Len(rungs) \in Nat, ladder.step < Len(rungs)
  PROVE  [ladder EXCEPT !.step = ladder.step + 1] \in Ladders
  BY DEF StopTypes, Ladders

\* The ladder keeps the types.
LEMMA LadderTypes == ASSUME TypeInv, LadderStep PROVE StopTypes' /\ HubTypes'
  <1> USE DEF TypeInv, stopping, launch, surface, LadderRest
  <1>1. PICK i \in DOMAIN attempts :
          LadderTimer(i) \/ LadderExit(i) \/ LadderProven(i) \/ LadderGroup(i)
    BY DEF LadderStep
  <1>2. ASSUME NEW result \in {"closed", "orphaned"}, Settle(i, result),
               UNCHANGED <<process, signalled>>, UNCHANGED LadderRest
        PROVE  StopTypes' /\ HubTypes'
    <2>1. HubTypes'
      BY <1>2, SettleTypes DEF HubTypes
    <2>2. StopTypes'
      BY <1>2, SettleTypes DEF StopTypes, process
    <2> QED  BY <2>1, <2>2
  <1>3. ASSUME ladder' \in Ladders, UNCHANGED <<attempts, stopSettled, status>>,
               \/ UNCHANGED <<process, signalled>>
               \/ \E sig : SignalGroup(sig),
               UNCHANGED LadderRest
        PROVE  StopTypes' /\ HubTypes'
    <2>1. HubTypes'
      BY <1>3 DEF HubTypes
    <2>2. /\ leader' \in {"none", "alive", "dead"} /\ helpers' \in BOOLEAN /\ killing' \in BOOLEAN
          /\ signalled' \in BOOLEAN
      BY <1>3, SignalTypes DEF StopTypes, process
    <2>3. StopTypes'
      BY <1>3, <2>2 DEF StopTypes
    <2> QED  BY <2>1, <2>3
  <1>4. CASE LadderTimer(i)
    <2> DEFINE rungs == Rungs(attempts[i].mode)
    <2>1. CASE ladder.step < Len(rungs)
      BY <1>3, <1>4, <2>1, NextRung, RungsType DEF LadderTimer
    <2>2. CASE ~(ladder.step < Len(rungs))
      BY <1>2, <1>4, <2>2 DEF LadderTimer
    <2> QED  BY <2>1, <2>2
  <1>5. CASE LadderExit(i)
    <2>1. ladder' \in Ladders
      BY <1>5 DEF LadderExit, Ladders
    <2> QED  BY <1>3, <1>5, <2>1 DEF LadderExit
  <1>6. CASE LadderProven(i)
    BY <1>2, <1>6 DEF LadderProven
  <1>7. CASE LadderGroup(i)
    <2> DEFINE rungs == GroupRungs(attempts[i].mode)
    <2>1. CASE ladder.step < Len(rungs)
      <3>1. [ladder EXCEPT !.step = ladder.step + 1] \in Ladders
        BY <2>1, NextRung, RungsType
      <3> QED  BY <1>3, <1>7, <2>1, <3>1 DEF LadderGroup
    <2>2. CASE ~(ladder.step < Len(rungs))
      BY <1>2, <1>7, <2>2 DEF LadderGroup
    <2> QED  BY <2>1, <2>2
  <1> QED  BY <1>1, <1>4, <1>5, <1>6, <1>7

\* The kill beside stop keeps the types.
LEMMA BackgroundTypes == ASSUME TypeInv, BackgroundKill PROVE StopTypes' /\ HubTypes'
  <1> USE DEF TypeInv, stopping, launch, surface, BackgroundKill, BackgroundTimer, BackgroundGroup
  <1>1. HubTypes'
    BY DEF HubTypes
  <1>2. /\ leader' \in {"none", "alive", "dead"} /\ helpers' \in BOOLEAN /\ killing' \in BOOLEAN
        /\ signalled' \in BOOLEAN
    BY SignalTypes
  <1> QED  BY <1>1, <1>2 DEF StopTypes

\* So does a transport that stops itself.
LEMMA StopItselfTypes == ASSUME StopTypes, StopItself PROVE StopTypes'
  <1> USE DEF StopItself
  <1>1. attempts' \in Seq(Attempts)
    BY AttemptTypes DEF StopTypes, Modes
  <1>2. ladder' \in Ladders
    <2>1. [at |-> "group", step |-> 0] \in Ladders /\ [at |-> "wait", step |-> 1] \in Ladders
      BY DEF Ladders
    <2> QED  BY <2>1 DEF StopTypes
  <1>3. /\ leader' \in {"none", "alive", "dead"} /\ helpers' \in BOOLEAN /\ killing' \in BOOLEAN
        /\ signalled' \in BOOLEAN
    BY SignalTypes DEF StopTypes, process
  <1> QED  BY <1>1, <1>2, <1>3 DEF StopTypes

\* What the pipes and the dialects are typed by.
Wires    == <<plan, inp, out, micro, accepted, queue, delivered, stage, due, reqs, pend>>
Dialects == <<plan, ready, run, prompted, turn, working, perm, lifecycle, out>>

LEMMA PipesStay == ASSUME PipesTypeOK, UNCHANGED Wires PROVE PipesTypeOK'
  BY DEF Wires, PipesTypeOK, Texts, AgyLine, AcpMessage, LineText, kind, MaxReqs, Perms

LEMMA DialectsStay == ASSUME DialectTypes, UNCHANGED Dialects PROVE DialectTypes'
  BY DEF Dialects, DialectTypes, Perms

\* The steps that all classes share keep the types.
LEMMA StopStepTypes ==
  ASSUME TypeInv,
         \/ ProcessStep \/ LadderStep \/ BackgroundKill
         \/ \E mode \in Modes : FirstStop(mode) \/ LaterStop(mode)
         \/ \E i \in DOMAIN attempts : ChainedStop(i)
  PROVE  StopTypes' /\ HubTypes' /\ UNCHANGED <<plan, launch, pipes, micro>>
  <1>1. CASE ProcessStep
    BY <1>1, ProcessTypes DEF ProcessStep
  <1>2. CASE LadderStep
    BY <1>2, LadderTypes DEF LadderStep, LadderTimer, LadderExit, LadderProven, LadderGroup, LadderRest
  <1>3. CASE BackgroundKill
    BY <1>3, BackgroundTypes DEF BackgroundKill, BackgroundTimer, BackgroundGroup
  <1>4. ASSUME NEW mode \in Modes, FirstStop(mode) \/ LaterStop(mode)
        PROVE  StopTypes' /\ HubTypes' /\ UNCHANGED <<plan, launch, pipes, micro>>
    BY <1>4, StopCallTypes DEF FirstStop, LaterStop
  <1>5. ASSUME NEW i \in DOMAIN attempts, ChainedStop(i)
        PROVE  StopTypes' /\ HubTypes' /\ UNCHANGED <<plan, launch, pipes, micro>>
    BY <1>5, ChainedTypes DEF ChainedStop
  <1> QED  BY <1>1, <1>2, <1>3, <1>4, <1>5

LEMMA SharedTypes == ASSUME TypeInv, Shared PROVE TypeInv'
  <1>1. StopTypes' /\ HubTypes' /\ UNCHANGED <<plan, launch, pipes, micro>>
    BY StopStepTypes DEF Shared
  <1>2. PipesTypeOK'
    BY <1>1, PipesStay DEF TypeInv, Shared, Wires, launch, pipes, turns, rpc
  <1>3. DialectTypes'
    BY <1>1, DialectsStay DEF TypeInv, Shared, Dialects, launch, pipes, turns, rpc, permissions
  <1> QED  BY <1>1, <1>2, <1>3 DEF TypeInv

\* What the provider of a line transport writes, and reads.
LEMMA EmitsTypes ==
  ASSUME plan \in Launches, NEW S, out \in Seq(S), NEW message \in S, Emits(message)
  PROVE  out' \in Seq(S) /\ Len(out') <= plan.pipe
  BY Appended, PlanType DEF Emits

LEMMA TakesTypes ==
  ASSUME TypeInv, kind \in Line, TakesText
  PROVE  working' \in 0 .. plan.texts /\ inp' \in Seq(LineText) /\ UNCHANGED <<out, session>>
  <1>1. Head(inp) \in LineText /\ Tail(inp) \in Seq(LineText)
    BY DEF TypeInv, PipesTypeOK, TakesText
  <1> QED  BY <1>1 DEF TakesText, LineText, Texts

LEMMA AgyProviderTypes == ASSUME TypeInv, Agy, AgyProvider PROVE TypeInv'
  <1> USE DEF TypeInv, process, stopping, surface, permissions, rpc
  <1>1. kind = "agy" /\ kind \in Line /\ kind \notin Rpc /\ plan \in Launches
    BY DEF AgyProvider, AgyInits, AgyAnswers, Line, Rpc, HubTypes
  <1>2. out' \in Seq(AgyLine) /\ Len(out') <= plan.pipe
    <2>1. \A message \in AgyLine : Emits(message) => out' \in Seq(AgyLine) /\ Len(out') <= plan.pipe
      BY <1>1, EmitsTypes DEF PipesTypeOK
    <2>2. [type |-> "result"] \in AgyLine /\ [type |-> "garbage"] \in AgyLine
          /\ \A of \in {"wanted", "other", "fresh"} : [type |-> "init", of |-> of] \in AgyLine
      BY DEF AgyLine, AgyInit
    <2>3. CASE AgyInits
      BY <2>1, <2>2, <2>3 DEF AgyInits
    <2>4. CASE TakesText
      BY <1>1, <2>4 DEF TakesText, DialectTypes, PipesTypeOK
    <2>5. CASE EmitsGarbage \/ AgyAnswers
      BY <2>1, <2>2, <2>5 DEF EmitsGarbage, AgyAnswers
    <2> QED  BY <2>3, <2>4, <2>5 DEF AgyProvider
  <1>3. /\ inp' \in Seq(LineText) /\ working' \in 0 .. plan.texts /\ session' \in Sessions
    <2>1. CASE AgyInits
      BY <1>1, <2>1 DEF AgyInits, PipesTypeOK, DialectTypes, Sessions
    <2>2. CASE TakesText
      BY <1>1, <2>2, TakesTypes DEF TakesText, HubTypes
    <2>3. CASE EmitsGarbage \/ AgyAnswers
      BY <1>1, <2>3, PlanType DEF EmitsGarbage, AgyAnswers, PipesTypeOK, DialectTypes, HubTypes
    <2> QED  BY <2>1, <2>2, <2>3 DEF AgyProvider
  <1>4. StopTypes'
    BY DEF AgyProvider, StopTypes
  <1>5. HubTypes'
    BY <1>3 DEF AgyProvider, HubTypes
  <1>6. DialectTypes'
    BY <1>2, <1>3 DEF Agy, AgyProvider, DialectTypes, Perms
  <1>7. PipesTypeOK'
    BY <1>1, <1>2, <1>3 DEF Agy, AgyProvider, PipesTypeOK, Texts, AgyLine, LineText, kind, MaxReqs
  <1> QED  BY <1>4, <1>5, <1>6, <1>7

\* What goes on with less of a sequence, or with none.
LEMMA RestOf ==
  \A S, s : s \in Seq(S) => <<>> \in Seq(S) /\ (s # <<>> => Tail(s) \in Seq(S))
  <1> SUFFICES ASSUME NEW S, NEW s \in Seq(S) PROVE <<>> \in Seq(S) /\ (s # <<>> => Tail(s) \in Seq(S))
    OBVIOUS
  <1> QED  BY Headless

\* A text that is delivered keeps the types.
LEMMA AgyDeliverTypes ==
  ASSUME TypeInv, kind \in Line, NEW text \in Texts, AgyDeliver(text)
  PROVE  /\ turn' \in 0 .. plan.texts /\ inp' \in Seq(LineText)
         /\ delivered' \in Seq(Texts) /\ status' \in Statuses
  <1>1. Append(inp, Text(text)) \in Seq(LineText) /\ Append(delivered, text) \in Seq(Texts)
    <2>1. Text(text) \in LineText
      BY DEF Text, LineText
    <2> QED  BY <2>1, Appended DEF TypeInv, PipesTypeOK
  <1>2. turn' \in 0 .. plan.texts
    BY PlanType DEF AgyDeliver, Texts, TypeInv, HubTypes
  <1>3. status' \in Statuses
    BY DEF AgyDeliver, TypeInv, HubTypes, Statuses
  <1> QED  BY <1>1, <1>2, <1>3 DEF AgyDeliver, TypeInv, PipesTypeOK

\* A text that may be sent is one of the launch's.
LEMMA NextText ==
  ASSUME TypeInv, Sendable
  PROVE  accepted + 1 \in Texts /\ accepted + 1 \in 0 .. plan.texts /\ accepted \in Nat
  BY PlanType DEF TypeInv, HubTypes, PipesTypeOK, Sendable, Texts

\* The steps of agy's launch keep the types.
LEMMA AgyLaunchTypes ==
  ASSUME TypeInv, Agy, AgySpawn \/ AgyReported \/ AgyReportFails \/ AgyOpens \/ AgyOpenFails \/ AgyCancel
  PROVE  TypeInv'
  <1> USE DEF TypeInv, stopping, surface, launch, pipes, turns, permissions, rpc
  <1>1. kind = "agy" \/ AgyOpens
    BY DEF AgySpawn, AgyReported, AgyReportFails, AgyOpenFails, AgyCancel
  <1>2. UNCHANGED <<plan, inp, out, accepted, queue, delivered, stage, due, reqs, pend>>
    BY DEF Agy, AgySpawn, AgyReported, AgyReportFails, AgyOpens, AgyOpenFails, AgyCancel
  <1>3. UNCHANGED Dialects
    BY DEF Agy, AgySpawn, AgyReported, AgyReportFails, AgyOpens, AgyOpenFails, AgyCancel, Dialects
  <1>4. CASE UNCHANGED micro \/ (micro' = Tail(micro) /\ micro # <<>>) \/ micro' = <<>>
    <2>1. StopTypes'
      <3>1. CASE StopItself
        BY <3>1, StopItselfTypes
      <3>2. CASE AgySpawn
        BY <3>2 DEF AgySpawn, Launched, StopTypes
      <3>3. CASE AgyReported \/ AgyReportFails \/ AgyCancel
        BY <3>3 DEF AgyReported, AgyReportFails, AgyCancel, StopTypes, process
      <3>4. CASE AgyOpens /\ ~StopItself
        BY <3>4 DEF AgyOpens, StopTypes, process
      <3>5. CASE AgyOpenFails
        BY <3>5, StopItselfTypes DEF AgyOpenFails
      <3> QED  BY <3>1, <3>2, <3>3, <3>4, <3>5
    <2>2. HubTypes'
      <3>1. phase' \in Phases /\ status' \in Statuses /\ fatal' \in BOOLEAN
        BY DEF AgySpawn, AgyReported, AgyReportFails, AgyOpens, AgyOpenFails, AgyCancel, HubTypes,
           Phases, Statuses
      <3> QED  BY <3>1 DEF AgySpawn, AgyReported, AgyReportFails, AgyOpens, AgyOpenFails, AgyCancel, HubTypes
    <2>3. DialectTypes'
      BY <1>3, DialectsStay
    <2>4. PipesTypeOK'
      <3>1. kind' = kind /\ MaxReqs' = MaxReqs /\ Perms' = Perms /\ Texts' = Texts
        BY <1>2 DEF kind, MaxReqs, Perms, Texts
      <3>2. (kind = "agy" => micro' \in Seq(AgyInit)) /\ (kind = "hermes" => micro' \in Seq(AcpAnswer))
            /\ (kind \in Rpc => micro' \in Seq(RpcAnswer))
        <4>1. \A S : micro \in Seq(S) => micro' \in Seq(S)
          BY <1>4, RestOf
        <4> QED  BY <4>1 DEF PipesTypeOK
      <3> QED  BY <1>2, <3>1, <3>2 DEF PipesTypeOK, AcpMessage, LineText
    <2> QED  BY <2>1, <2>2, <2>3, <2>4
  <1> QED  BY <1>4 DEF AgySpawn, AgyReported, AgyReportFails, AgyOpens, AgyOpenFails, AgyCancel

\* So do the texts it accepts.
LEMMA AgySendTypes == ASSUME TypeInv, Agy, AgyPrompt \/ AgyFollowUp PROVE TypeInv'
  <1> USE DEF TypeInv, permissions, rpc, Untouched
  <1>1. kind = "agy" /\ kind \in Line /\ kind \notin Rpc /\ Sendable /\ plan \in Launches
    BY DEF AgyPrompt, AgyFollowUp, Line, Rpc, HubTypes
  <1>2. accepted + 1 \in Texts /\ accepted + 1 \in 0 .. plan.texts
    BY <1>1, NextText
  <1>3. /\ turn' \in 0 .. plan.texts /\ inp' \in Seq(LineText)
        /\ delivered' \in Seq(Texts) /\ status' \in Statuses /\ queue' \in Seq(Texts)
    <2>1. CASE AgyDeliver(accepted + 1) /\ UNCHANGED queue
      BY <1>1, <1>2, <2>1, AgyDeliverTypes DEF PipesTypeOK
    <2>2. CASE queue' = Append(queue, accepted + 1) /\ UNCHANGED <<turn, inp, delivered, status>>
      BY <1>1, <1>2, <2>2, Appended DEF PipesTypeOK, DialectTypes, HubTypes
    <2> QED  BY <2>1, <2>2 DEF AgyPrompt, AgyFollowUp
  <1>4. StopTypes'
    BY DEF AgyPrompt, AgyFollowUp, StopTypes
  <1>5. HubTypes'
    BY <1>3 DEF AgyPrompt, AgyFollowUp, HubTypes
  <1>6. DialectTypes'
    BY <1>3 DEF Agy, AgyPrompt, AgyFollowUp, DialectTypes, Perms
  <1>7. PipesTypeOK'
    BY <1>1, <1>2, <1>3 DEF Agy, AgyPrompt, AgyFollowUp, PipesTypeOK, Texts, LineText, kind, MaxReqs
  <1> QED  BY <1>4, <1>5, <1>6, <1>7

\* The next follow-up keeps the types.
LEMMA FollowUpTypes ==
  ASSUME TypeInv, kind \in Line, queue # <<>>
  PROVE  /\ Head(queue) \in Texts /\ Head(queue) \in 0 .. plan.texts /\ Tail(queue) \in Seq(Texts)
         /\ Append(inp, Text(Head(queue))) \in Seq(LineText)
         /\ Append(delivered, Head(queue)) \in Seq(Texts)
  <1> USE DEF TypeInv, PipesTypeOK, HubTypes
  <1>1. Head(queue) \in Texts /\ Tail(queue) \in Seq(Texts)
    BY Headless
  <1>2. Head(queue) \in 0 .. plan.texts
    BY <1>1, PlanType DEF Texts
  <1>3. Text(Head(queue)) \in LineText
    BY <1>1 DEF Text, LineText
  <1> QED  BY <1>1, <1>2, <1>3, Appended

\* What the hub does with a line keeps the types, and so does the exit.
LEMMA AgyReadTypes == ASSUME TypeInv, Agy, AgyReads PROVE TypeInv'
  <1> USE DEF TypeInv, permissions, rpc, launch
  <1>1. kind = "agy" /\ kind \in Line /\ kind \notin Rpc /\ plan \in Launches /\ out # <<>>
    BY DEF AgyReads, Line, Rpc, HubTypes
  <1>2. Head(out) \in AgyLine /\ out' \in Seq(AgyLine) /\ Len(out') <= plan.pipe
    <2>1. out \in Seq(AgyLine) /\ Len(out) <= plan.pipe /\ plan.pipe \in Nat
      BY <1>1, PlanType DEF PipesTypeOK, DialectTypes
    <2> QED  BY <1>1, <2>1, Headless DEF AgyReads
  <1>3. /\ StopTypes' /\ fatal' \in BOOLEAN /\ status' \in Statuses
        /\ turn' \in 0 .. plan.texts /\ inp' \in Seq(LineText) /\ queue' \in Seq(Texts)
        /\ delivered' \in Seq(Texts) /\ micro' \in Seq(AgyInit)
    <2>0. /\ 0 \in 0 .. plan.texts
          /\ turn \in 0 .. plan.texts /\ inp \in Seq(LineText) /\ queue \in Seq(Texts)
          /\ delivered \in Seq(Texts) /\ micro \in Seq(AgyInit) /\ status \in Statuses
          /\ fatal \in BOOLEAN
      BY <1>1, PlanType DEF PipesTypeOK, DialectTypes, HubTypes
    <2>1. CASE AgyFatal
      BY <1>1, <2>0, <2>1, StopItselfTypes DEF AgyFatal, Statuses
    <2>2. CASE AgyResult
      <3>1. StopTypes'
        BY <2>2 DEF AgyResult, StopTypes, process
      <3>2. CASE queue = <<>>
        BY <2>0, <2>2, <3>1, <3>2 DEF AgyResult, Statuses
      <3>3. CASE queue # <<>>
        BY <1>1, <2>0, <2>2, <3>1, <3>3, FollowUpTypes DEF AgyResult, Statuses
      <3> QED  BY <3>2, <3>3
    <2>3. CASE Head(out).type = "init" /\ ~fatal
      <3>1. Head(out) \in AgyInit
        BY <1>2, <2>3 DEF AgyLine, AgyInit
      <3>2. micro' \in Seq(AgyInit)
        <4>1. Append(micro, Head(out)) \in Seq(AgyInit)
          BY <2>0, <3>1, Appended
        <4>2. micro' \in {micro, Append(micro, Head(out))}
          BY <2>3 DEF AgyReads
        <4> QED  BY <2>0, <4>1, <4>2
      <3>3. StopTypes'
        BY <2>3 DEF AgyReads, StopTypes, process, stopping
      <3> QED  BY <2>0, <2>3, <3>2, <3>3 DEF AgyReads
    <2>4. CASE fatal
      BY <2>0, <2>4 DEF AgyReads, StopTypes, process, stopping
    <2> QED  BY <2>1, <2>2, <2>3, <2>4 DEF AgyReads
  <1>4. HubTypes'
    BY <1>3 DEF AgyReads, HubTypes
  <1>5. DialectTypes'
    BY <1>2, <1>3 DEF Agy, AgyReads, DialectTypes, Perms
  <1>6. PipesTypeOK'
    BY <1>1, <1>2, <1>3 DEF Agy, AgyReads, PipesTypeOK, Texts, LineText, kind, MaxReqs
  <1> QED  BY <1>3, <1>4, <1>5, <1>6

LEMMA AgyExitTypes == ASSUME TypeInv, Agy, AgyExits PROVE TypeInv'
  <1> USE DEF TypeInv, permissions, rpc, launch, process, stopping
  <1>1. kind = "agy" /\ kind \in Line /\ kind \notin Rpc /\ plan \in Launches
    BY DEF AgyExits, Line, Rpc, HubTypes
  <1>2. StopTypes'
    BY DEF AgyExits, StopTypes
  <1>3. HubTypes'
    BY DEF AgyExits, HubTypes, Statuses
  <1>4. DialectTypes'
    BY <1>1, PlanType DEF Agy, AgyExits, DialectTypes, Perms
  <1>5. PipesTypeOK'
    BY <1>1 DEF Agy, AgyExits, PipesTypeOK, Texts, LineText, kind, MaxReqs
  <1> QED  BY <1>2, <1>3, <1>4, <1>5

LEMMA AgyTypes == ASSUME TypeInv, Agy PROVE TypeInv'
  BY AgyProviderTypes, AgyLaunchTypes, AgySendTypes, AgyReadTypes, AgyExitTypes DEF Agy, AgyHub

LEMMA AcpProviderTypes == ASSUME TypeInv, Acp, AcpProvider PROVE TypeInv'
  <1> USE DEF TypeInv, process, stopping, surface, rpc
  <1>1. kind = "hermes" /\ kind \in Line /\ kind \notin Rpc /\ plan \in Launches
    BY DEF AcpProvider, AcpShakes, AcpAnswers, AcpAsks, AcpMisnames, Line, Rpc, HubTypes
  <1>2. working # 0 => working \in Texts
    BY <1>1, PlanType DEF DialectTypes, Texts
  <1>3. out' \in Seq(AcpMessage) /\ Len(out') <= plan.pipe
    <2>1. \A message \in AcpMessage : Emits(message) => out' \in Seq(AcpMessage) /\ Len(out') <= plan.pipe
      BY <1>1, EmitsTypes DEF PipesTypeOK
    <2>2. CASE AcpShakes
      <3>1. /\ \A of \in {"loads", "plain", "refused"} : [type |-> "initialized", of |-> of] \in AcpMessage
            /\ [type |-> "session", of |-> "refused"] \in AcpMessage
            /\ [type |-> "session", of |-> "ok"] \in AcpMessage
        BY DEF AcpMessage, AcpAnswer
      <3> QED  BY <2>1, <2>2, <3>1 DEF AcpShakes
    <2>3. CASE AcpAnswers
      <3>1. [type |-> "done", of |-> working] \in AcpMessage
        BY <1>2, <2>3 DEF AcpMessage, AcpAnswers
      <3> QED  BY <2>1, <2>3, <3>1 DEF AcpAnswers
    <2>4. CASE AcpAsks
      <3>1. \A p \in Perms : [type |-> "asks", of |-> p] \in AcpMessage
        BY DEF AcpMessage
      <3> QED  BY <2>1, <2>4, <3>1 DEF AcpAsks
    <2>5. CASE AcpMisnames \/ EmitsGarbage
      <3>1. [type |-> "misnamed"] \in AcpMessage /\ [type |-> "garbage"] \in AcpMessage
        BY DEF AcpMessage
      <3> QED  BY <2>1, <2>5, <3>1 DEF AcpMisnames, EmitsGarbage
    <2>6. CASE TakesText
      BY <1>1, <2>6 DEF TakesText, DialectTypes, PipesTypeOK
    <2> QED  BY <2>2, <2>3, <2>4, <2>5, <2>6 DEF AcpProvider
  <1>4. inp' \in Seq(LineText) /\ working' \in 0 .. plan.texts
    <2>1. CASE TakesText
      BY <1>1, <2>1, TakesTypes
    <2>2. CASE ~TakesText
      BY <1>1, <2>2, PlanType DEF AcpProvider, AcpShakes, AcpAnswers, AcpAsks, AcpMisnames, EmitsGarbage,
         PipesTypeOK, DialectTypes
    <2> QED  BY <2>1, <2>2
  <1>5. session' \in Sessions /\ stage' \in Stages
    BY DEF AcpProvider, AcpShakes, AcpAnswers, AcpAsks, AcpMisnames, EmitsGarbage, TakesText,
       HubTypes, PipesTypeOK, Sessions, Stages
  <1>6. perm' \in [Perms -> Answers \cup {"none", "sent", "pending"}]
    BY DEF AcpProvider, AcpShakes, AcpAnswers, AcpAsks, AcpMisnames, DialectTypes
  <1>7. StopTypes'
    BY DEF AcpProvider, StopTypes
  <1>8. HubTypes'
    BY <1>5 DEF AcpProvider, HubTypes
  <1>9. DialectTypes'
    BY <1>3, <1>4, <1>6 DEF Acp, AcpProvider, DialectTypes, Perms
  <1>10. PipesTypeOK'
    BY <1>1, <1>3, <1>4, <1>5 DEF Acp, AcpProvider, PipesTypeOK, Texts, LineText, AcpMessage, Perms, kind, MaxReqs
  <1> QED  BY <1>7, <1>8, <1>9, <1>10

\* Refused at once, the requests are answered.
LEMMA CancelledType ==
  ASSUME DialectTypes
  PROVE  Cancelled(perm) \in [Perms -> Answers \cup {"none", "sent", "pending"}]
  BY DEF DialectTypes, Cancelled, Answers

\* The steps of hermes's launch, its stops and its verdicts keep the types.
LEMMA AcpLaunchTypes ==
  ASSUME TypeInv, Acp,
         \/ AcpSpawn \/ AcpReported \/ AcpReportFails \/ AcpOpens \/ AcpOpenFails \/ AcpCancel
         \/ AcpVerdict \/ AcpPermissionTimer \/ AcpStop \/ AcpChainedStop
  PROVE  TypeInv'
  <1> USE DEF TypeInv, stopping, surface, launch, pipes, turns, permissions, rpc, base
  <1>1. kind = "hermes"
    BY DEF AcpSpawn, AcpReported, AcpReportFails, AcpOpens, AcpOpenFails, AcpCancel, AcpVerdict,
       AcpPermissionTimer, AcpStop, AcpChainedStop
  <1>2. CASE AcpStop \/ AcpChainedStop
    <2>1. StopTypes' /\ HubTypes' /\ UNCHANGED <<plan, launch, pipes, micro>>
      BY <1>2, StopStepTypes DEF AcpStop, AcpChainedStop
    <2>2. PipesTypeOK'
      BY <1>2, <2>1, PipesStay DEF Acp, AcpStop, AcpChainedStop, AcpShutdown, Wires
    <2>3. perm' \in [Perms -> Answers \cup {"none", "sent", "pending"}]
      BY <1>2, CancelledType DEF AcpStop, AcpChainedStop, AcpShutdown, DialectTypes
    <2>4. DialectTypes'
      BY <1>2, <2>1, <2>3 DEF Acp, AcpStop, AcpChainedStop, AcpShutdown, DialectTypes, Perms
    <2> QED  BY <2>1, <2>2, <2>4
  <1>3. CASE \/ AcpSpawn \/ AcpReported \/ AcpReportFails \/ AcpOpens \/ AcpOpenFails \/ AcpCancel
             \/ AcpVerdict \/ AcpPermissionTimer
    <2>1. /\ UNCHANGED <<plan, inp, out, accepted, queue, delivered, due, reqs, pend>>
          /\ UNCHANGED <<ready, run, prompted, turn, working, lifecycle>>
      BY <1>3 DEF Acp, AcpSpawn, AcpReported, AcpReportFails, AcpOpens, AcpOpenFails, AcpCancel,
         AcpVerdict, AcpPermissionTimer
    <2>2. perm' \in [Perms -> Answers \cup {"none", "sent", "pending"}]
      BY <1>3, CancelledType DEF AcpSpawn, AcpReported, AcpReportFails, AcpOpens, AcpOpenFails, AcpCancel,
         AcpVerdict, AcpPermissionTimer, AcpFailOpen, AcpStopItself, DialectTypes, Answers
    <2>3. /\ phase' \in Phases /\ status' \in Statuses /\ fatal' \in BOOLEAN /\ stage' \in Stages
          /\ UNCHANGED <<session, observed, exitSaid, ended>>
      BY <1>3 DEF AcpSpawn, AcpReported, AcpReportFails, AcpOpens, AcpOpenFails, AcpCancel,
         AcpVerdict, AcpPermissionTimer, AcpFailOpen, HubTypes, PipesTypeOK, Phases, Statuses, Stages
    <2>4. StopTypes'
      <3>1. CASE StopItself
        BY <3>1, StopItselfTypes
      <3>2. CASE AcpSpawn
        BY <3>2 DEF AcpSpawn, Launched, StopTypes
      <3>3. CASE AcpReported \/ AcpReportFails \/ AcpCancel \/ AcpVerdict \/ AcpPermissionTimer
        BY <3>3 DEF AcpReported, AcpReportFails, AcpCancel, AcpVerdict, AcpPermissionTimer, StopTypes, process
      <3>4. CASE (AcpOpens \/ AcpOpenFails) /\ ~StopItself
        BY <3>4 DEF AcpOpens, AcpOpenFails, AcpFailOpen, AcpStopItself, StopTypes, process
      <3> QED  BY <1>3, <3>1, <3>2, <3>3, <3>4
    <2>5. micro' \in Seq(AcpAnswer)
      <3>1. micro' \in {micro, Tail(micro)} /\ (micro' = micro \/ micro # <<>>)
        BY <1>3 DEF AcpSpawn, AcpReported, AcpReportFails, AcpOpens, AcpOpenFails, AcpCancel,
           AcpVerdict, AcpPermissionTimer
      <3>2. micro \in Seq(AcpAnswer)
        BY <1>1 DEF PipesTypeOK
      <3> QED  BY <3>1, <3>2, RestOf
    <2>6. HubTypes'
      BY <2>1, <2>3 DEF HubTypes
    <2>7. DialectTypes'
      BY <2>1, <2>2 DEF DialectTypes, Perms
    <2>8. PipesTypeOK'
      BY <1>1, <2>1, <2>3, <2>5 DEF PipesTypeOK, Line, Rpc, Texts, LineText, AcpMessage, Perms, kind, MaxReqs
    <2> QED  BY <2>4, <2>6, <2>7, <2>8
  <1> QED  BY <1>2, <1>3

\* A turn that starts keeps the types.
LEMMA AcpStartTypes ==
  ASSUME TypeInv, kind \in Line, NEW text \in Texts, AcpStart(text)
  PROVE  /\ turn' \in 0 .. plan.texts /\ inp' \in Seq(LineText)
         /\ delivered' \in Seq(Texts) /\ status' \in Statuses
  <1>1. Append(inp, Text(text)) \in Seq(LineText) /\ Append(delivered, text) \in Seq(Texts)
    <2>1. Text(text) \in LineText
      BY DEF Text, LineText
    <2> QED  BY <2>1, Appended DEF TypeInv, PipesTypeOK
  <1>2. turn' \in 0 .. plan.texts
    BY PlanType DEF AcpStart, Texts, TypeInv, HubTypes
  <1>3. status' \in Statuses
    BY DEF AcpStart, TypeInv, HubTypes, Statuses
  <1> QED  BY <1>1, <1>2, <1>3 DEF AcpStart, TypeInv, PipesTypeOK

\* The texts hermes accepts keep the types.
LEMMA AcpSendTypes == ASSUME TypeInv, Acp, AcpPrompt \/ AcpFollowUp PROVE TypeInv'
  <1> USE DEF TypeInv, permissions, rpc, Untouched, AcpRest
  <1>1. kind = "hermes" /\ kind \in Line /\ kind \notin Rpc /\ Sendable /\ plan \in Launches
    BY DEF AcpPrompt, AcpFollowUp, Line, Rpc, HubTypes
  <1>2. accepted + 1 \in Texts /\ accepted + 1 \in 0 .. plan.texts
    BY <1>1, NextText
  <1>3. /\ turn' \in 0 .. plan.texts /\ inp' \in Seq(LineText)
        /\ delivered' \in Seq(Texts) /\ status' \in Statuses /\ queue' \in Seq(Texts)
    <2>1. CASE AcpStart(accepted + 1) /\ UNCHANGED queue
      BY <1>1, <1>2, <2>1, AcpStartTypes DEF PipesTypeOK
    <2>2. CASE queue' = Append(queue, accepted + 1) /\ UNCHANGED <<turn, inp, delivered, status>>
      BY <1>1, <1>2, <2>2, Appended DEF PipesTypeOK, DialectTypes, HubTypes
    <2> QED  BY <2>1, <2>2 DEF AcpPrompt, AcpFollowUp
  <1>4. StopTypes'
    BY DEF AcpPrompt, AcpFollowUp, StopTypes
  <1>5. HubTypes'
    BY <1>3 DEF AcpPrompt, AcpFollowUp, HubTypes
  <1>6. DialectTypes'
    BY <1>3 DEF Acp, AcpPrompt, AcpFollowUp, DialectTypes, Perms
  <1>7. PipesTypeOK'
    BY <1>1, <1>2, <1>3 DEF Acp, AcpPrompt, AcpFollowUp, PipesTypeOK, Texts, LineText, AcpMessage, Perms, kind, MaxReqs
  <1> QED  BY <1>4, <1>5, <1>6, <1>7

\* The front of a sequence.
LEMMA FrontOf ==
  ASSUME NEW S, NEW s \in Seq(S), NEW i \in 1 .. Len(s)
  PROVE  /\ SubSeq(s, 1, i - 1) \in Seq(S) /\ Len(SubSeq(s, 1, i - 1)) = i - 1
         /\ \A k \in 1 .. (i - 1) : SubSeq(s, 1, i - 1)[k] = s[k]
  OBVIOUS

\* What hermes's messages do keeps the types, read or guarded, and so does the exit.
LEMMA AcpReadTypes == ASSUME TypeInv, Acp, AcpReads \/ AcpGuard PROVE TypeInv'
  <1> USE DEF TypeInv, rpc, launch
  <1>1. kind = "hermes" /\ kind \in Line /\ kind \notin Rpc /\ plan \in Launches
    BY DEF AcpReads, AcpGuard, Line, Rpc, HubTypes
  <1>2. out' \in Seq(AcpMessage) /\ Len(out') <= plan.pipe
    <2>1. out \in Seq(AcpMessage) /\ Len(out) <= plan.pipe /\ plan.pipe \in Nat
      BY <1>1, PlanType DEF PipesTypeOK, DialectTypes
    <2>2. CASE AcpReads
      BY <2>1, <2>2, Headless DEF AcpReads
    <2>3. CASE AcpGuard
      <3>1. PICK i \in 1 .. Len(out) : out' = SubSeq(out, 1, i - 1)
        BY <2>1, <2>3 DEF AcpGuard
      <3> QED  BY <2>1, <3>1, FrontOf
    <2> QED  BY <2>2, <2>3
  <1>3. /\ StopTypes' /\ fatal' \in BOOLEAN /\ status' \in Statuses
        /\ turn' \in 0 .. plan.texts /\ inp' \in Seq(LineText) /\ queue' \in Seq(Texts)
        /\ delivered' \in Seq(Texts) /\ micro' \in Seq(AcpAnswer)
        /\ perm' \in [Perms -> Answers \cup {"none", "sent", "pending"}]
    <2>0. /\ 0 \in 0 .. plan.texts
          /\ turn \in 0 .. plan.texts /\ inp \in Seq(LineText) /\ queue \in Seq(Texts)
          /\ delivered \in Seq(Texts) /\ micro \in Seq(AcpAnswer) /\ status \in Statuses
          /\ fatal \in BOOLEAN /\ perm \in [Perms -> Answers \cup {"none", "sent", "pending"}]
      BY <1>1, PlanType DEF PipesTypeOK, DialectTypes, HubTypes
    <2>1. Quiet => StopTypes' /\ UNCHANGED fatal
      BY DEF Quiet, StopTypes, process, stopping
    <2>2. CASE AcpFatal /\ UNCHANGED <<queue, inp, delivered, micro>>
      BY <2>0, <2>2, StopItselfTypes, CancelledType DEF AcpFatal, AcpStopItself, Statuses
    <2>3. CASE AcpGuard /\ fatal
      BY <2>0, <2>3 DEF AcpGuard, StopTypes, process, stopping
    <2>4. CASE AcpSettle /\ Quiet /\ UNCHANGED <<micro, perm>>
      <3>1. CASE queue = <<>>
        BY <2>0, <2>1, <2>4, <3>1 DEF AcpSettle, Statuses
      <3>2. CASE queue # <<>>
        BY <1>1, <2>0, <2>1, <2>4, <3>2, FollowUpTypes, AcpStartTypes DEF AcpSettle
      <3> QED  BY <3>1, <3>2
    <2>5. CASE /\ Head(out).type \in {"initialized", "session"} /\ Quiet
               /\ micro' \in {micro, Append(micro, Head(out))} /\ out # <<>>
               /\ UNCHANGED <<turn, queue, inp, delivered, status, perm>>
      <3>1. Head(out) \in AcpMessage
        BY <1>1, <2>5, Headless DEF PipesTypeOK
      <3>2. Head(out) \in AcpAnswer
        BY <2>5, <3>1 DEF AcpMessage, AcpAnswer
      <3>3. Append(micro, Head(out)) \in Seq(AcpAnswer)
        BY <2>0, <3>2, Appended
      <3> QED  BY <2>0, <2>1, <2>5, <3>3
    <2>6. CASE AcpAsked(Head(out).of) /\ Quiet /\ UNCHANGED <<turn, queue, inp, delivered, status, micro>>
      BY <2>0, <2>1, <2>6 DEF AcpAsked, Answers
    <2>7. CASE Quiet /\ UNCHANGED <<turn, queue, inp, delivered, status, micro, perm>>
      BY <2>0, <2>1, <2>7
    <2> QED  BY <2>2, <2>3, <2>4, <2>5, <2>6, <2>7 DEF AcpReads, AcpGuard
  <1>4. HubTypes'
    BY <1>3 DEF AcpReads, AcpGuard, HubTypes
  <1>5. DialectTypes'
    BY <1>2, <1>3 DEF Acp, AcpReads, AcpGuard, DialectTypes, Perms
  <1>6. PipesTypeOK'
    BY <1>1, <1>2, <1>3 DEF Acp, AcpReads, AcpGuard, PipesTypeOK, Texts, LineText, AcpMessage, Perms, kind, MaxReqs
  <1> QED  BY <1>3, <1>4, <1>5, <1>6

LEMMA AcpExitTypes == ASSUME TypeInv, Acp, AcpExits PROVE TypeInv'
  <1> USE DEF TypeInv, permissions, rpc, launch, process, stopping
  <1>1. kind = "hermes" /\ kind \in Line /\ kind \notin Rpc /\ plan \in Launches
    BY DEF AcpExits, Line, Rpc, HubTypes
  <1>2. StopTypes'
    BY DEF AcpExits, StopTypes
  <1>3. HubTypes'
    BY DEF AcpExits, HubTypes, Statuses
  <1>4. DialectTypes'
    BY <1>1, PlanType DEF Acp, AcpExits, DialectTypes, Perms
  <1>5. PipesTypeOK'
    BY <1>1 DEF Acp, AcpExits, PipesTypeOK, Texts, LineText, AcpMessage, Perms, kind, MaxReqs
  <1> QED  BY <1>2, <1>3, <1>4, <1>5

LEMMA AcpTypes == ASSUME TypeInv, Acp PROVE TypeInv'
  BY AcpProviderTypes, AcpLaunchTypes, AcpSendTypes, AcpReadTypes, AcpExitTypes DEF Acp, AcpHub

\* What the provider of an rpc transport writes.
LEMMA WritesTypes ==
  ASSUME plan \in Launches, out \in Seq(RpcFrame), NEW message \in RpcFrame, Writes(message)
  PROVE  out' \in Seq(RpcFrame) /\ Len(out') <= plan.pipe
  BY Appended, PlanType DEF Writes

\* A reply is a frame of what was asked.
LEMMA ResponseType ==
  ASSUME NEW request \in RpcRequest, NEW of \in Said
  PROVE  Response(request, of) \in RpcFrame
  BY DEF Response, RpcRequest, RpcFrame

LEMMA RepliesTypes ==
  ASSUME TypeInv, RpcReplies
  PROVE  /\ out' \in Seq(RpcFrame) /\ Len(out') <= plan.pipe /\ inp' \in Seq(RpcRequest)
         /\ session' \in Sessions /\ due' \in Nat
  <1> USE DEF TypeInv
  <1>1. kind \in Rpc /\ plan \in Launches /\ out \in Seq(RpcFrame) /\ inp \in Seq(RpcRequest)
    BY DEF RpcReplies, HubTypes, PipesTypeOK
  <1>2. Head(inp) \in RpcRequest /\ inp' \in Seq(RpcRequest)
    BY <1>1, Headless DEF RpcReplies
  <1>3. session' \in Sessions /\ due' \in Nat
    BY DEF RpcReplies, HubTypes, PipesTypeOK, Sessions
  <1>4. PICK of \in Said : Writes(Response(Head(inp), of))
    BY <1>3 DEF RpcReplies, Said
  <1>5. Response(Head(inp), of) \in RpcFrame
    BY <1>2, <1>4, ResponseType
  <1> QED  BY <1>1, <1>2, <1>3, <1>4, <1>5, WritesTypes

LEMMA RpcProviderTypes == ASSUME TypeInv, RpcSteps, RpcProvider PROVE TypeInv'
  <1> USE DEF TypeInv, process, stopping, surface, turns, permissions
  <1>1. kind \in Rpc /\ kind \notin Line /\ kind # "agy" /\ kind # "hermes" /\ plan \in Launches
        /\ out \in Seq(RpcFrame) /\ inp \in Seq(RpcRequest)
    BY DEF RpcProvider, RpcReady, RpcReplies, RpcBegins, RpcEnds, RpcGoesOn, RpcGarbage, Line, Rpc,
       HubTypes, PipesTypeOK
  <1>2. /\ out' \in Seq(RpcFrame) /\ Len(out') <= plan.pipe /\ inp' \in Seq(RpcRequest)
        /\ session' \in Sessions /\ due' \in Nat /\ run' \in BOOLEAN
    <2>1. \A message \in RpcFrame : Writes(message) => out' \in Seq(RpcFrame) /\ Len(out') <= plan.pipe
      BY <1>1, WritesTypes
    <2>2. /\ \A of \in {"v2", "v1"} : [type |-> "ready", of |-> of] \in RpcFrame
          /\ [type |-> "agent_start", now |-> "running"] \in RpcFrame
          /\ [type |-> "agent_end", of |-> "terminal", now |-> "idle"] \in RpcFrame
          /\ [type |-> "agent_end", of |-> "more", now |-> "running"] \in RpcFrame
          /\ [type |-> "agent_settled", now |-> "idle"] \in RpcFrame
          /\ [type |-> "garbage"] \in RpcFrame
      BY DEF RpcFrame
    <2>3. /\ session \in Sessions /\ due \in Nat /\ run \in BOOLEAN
      BY DEF HubTypes, PipesTypeOK, DialectTypes
    <2>4. CASE RpcReady
      BY <1>1, <2>1, <2>2, <2>3, <2>4 DEF RpcReady, Sessions
    <2>5. CASE RpcReplies
      BY <2>3, <2>5, RepliesTypes DEF RpcReplies
    <2>6. CASE RpcBegins
      BY <1>1, <2>1, <2>2, <2>3, <2>6 DEF RpcBegins
    <2>7. CASE RpcEnds
      <3>1. PICK message \in RpcFrame : Writes(message)
        BY <2>2, <2>7 DEF RpcEnds
      <3>2. due' \in Nat
        BY <2>3, <2>7 DEF RpcEnds
      <3> QED  BY <1>1, <2>1, <2>3, <2>7, <3>1, <3>2 DEF RpcEnds
    <2>8. CASE RpcGoesOn \/ RpcGarbage
      BY <1>1, <2>1, <2>2, <2>3, <2>8 DEF RpcGoesOn, RpcGarbage
    <2> QED  BY <2>4, <2>5, <2>6, <2>7, <2>8 DEF RpcProvider
  <1>3. StopTypes'
    BY DEF RpcProvider, StopTypes
  <1>4. HubTypes'
    BY <1>2 DEF RpcProvider, HubTypes
  <1>5. DialectTypes'
    BY <1>2 DEF RpcSteps, RpcProvider, DialectTypes, Perms
  <1>6. PipesTypeOK'
    BY <1>1, <1>2 DEF RpcSteps, RpcProvider, PipesTypeOK, Texts, kind, MaxReqs
  <1> QED  BY <1>3, <1>4, <1>5, <1>6

\* A command that is registered keeps the types.
LEMMA RequestTypes ==
  ASSUME TypeInv, kind \in Rpc, NEW cmd \in Commands, Request(cmd)
  PROVE  /\ reqs' \in Nat /\ pend' \in [1 .. MaxReqs -> Commands \cup {"none"}]
         /\ inp' \in Seq(RpcRequest)
  <1> USE DEF TypeInv, PipesTypeOK
  <1>1. [id |-> reqs + 1, cmd |-> cmd] \in RpcRequest
    BY DEF RpcRequest
  <1>2. Append(inp, [id |-> reqs + 1, cmd |-> cmd]) \in Seq(RpcRequest)
    BY <1>1, Appended
  <1>3. pend' \in [1 .. MaxReqs -> Commands \cup {"none"}] /\ reqs' \in Nat
    <2>1. pend' = [pend EXCEPT ![reqs + 1] = cmd] /\ reqs' = reqs + 1
      BY DEF Request
    <2>2. pend' \in [1 .. MaxReqs -> Commands \cup {"none"}]
      BY <2>1
    <2> QED  BY <2>1, <2>2
  <1>4. inp' \in Seq(RpcRequest)
    BY <1>2 DEF Request
  <1> QED  BY <1>3, <1>4

\* So do the rejection of all that wait, and the answer of one.
LEMMA RejectTypes ==
  ASSUME TypeInv, kind \in Rpc, RejectAll
  PROVE  pend' \in [1 .. MaxReqs -> Commands \cup {"none"}] /\ micro' \in Seq(RpcAnswer)
  <1> USE DEF TypeInv, PipesTypeOK
  <1>1. [type |-> "answer", cmd |-> "state", ok |-> FALSE, of |-> "closed"] \in RpcAnswer
    BY DEF RpcAnswer, Commands, Shaking
  <1>2. Append(micro, [type |-> "answer", cmd |-> "state", ok |-> FALSE, of |-> "closed"]) \in Seq(RpcAnswer)
    BY <1>1, Appended
  <1>3. micro' \in Seq(RpcAnswer)
    BY <1>2 DEF RejectAll
  <1>4. pend' \in [1 .. MaxReqs -> Commands \cup {"none"}]
    BY DEF RejectAll
  <1> QED  BY <1>3, <1>4

LEMMA AnsweredType ==
  ASSUME TypeInv, kind \in Rpc, reqs <= MaxReqs, NEW id \in Pending, NEW ok \in BOOLEAN,
         NEW of \in Said \cup {"timeout"}
  PROVE  /\ Append(micro, Answered(id, ok, of)) \in Seq(RpcAnswer)
         /\ [pend EXCEPT ![id] = "none"] \in [1 .. MaxReqs -> Commands \cup {"none"}]
  <1> USE DEF TypeInv, PipesTypeOK
  <1>1. pend[id] \in Commands
    <2>1. id \in 1 .. MaxReqs /\ pend[id] # "none"
      BY PlanType DEF Pending, HubTypes, MaxReqs
    <2> QED  BY <2>1
  <1>2. Answered(id, ok, of) \in RpcAnswer
    BY <1>1 DEF Answered, RpcAnswer
  <1> QED  BY <1>2, Appended

\* What a step of the hub may do to the stop of an rpc transport.
StopTouched ==
  /\ UNCHANGED <<killing, stopping>>
  /\ stdin' \in {stdin, "closed"} /\ signalled' \in BOOLEAN
  /\ background' \in {background, "term"}
  /\ leader' \in {"none", "alive", "dead"} /\ helpers' \in BOOLEAN

LEMMA TouchedTypes == ASSUME StopTypes, StopTouched PROVE StopTypes'
  BY DEF StopTypes, StopTouched, stopping

\* The handshake goes on, or fails, and keeps the types.
LEMMA ShakesTypes ==
  ASSUME TypeInv, kind \in Rpc, NEW answer \in RpcAnswer, RpcShakes(answer)
  PROVE  /\ phase' \in Phases /\ stage' \in Stages /\ status' \in Statuses
         /\ stdin' \in {stdin, "closed"} /\ signalled' \in BOOLEAN
         /\ background' \in {background, "term"}
         /\ reqs' \in Nat /\ pend' \in [1 .. MaxReqs -> Commands \cup {"none"}]
         /\ inp' \in Seq(RpcRequest)
  <1> USE DEF TypeInv
  <1>1. /\ phase \in Phases /\ stage \in Stages /\ status \in Statuses /\ signalled \in BOOLEAN
        /\ reqs \in Nat /\ pend \in [1 .. MaxReqs -> Commands \cup {"none"}] /\ inp \in Seq(RpcRequest)
        /\ {"failing", "open"} \subseteq Phases /\ "idle" \in Statuses
    BY DEF HubTypes, StopTypes, PipesTypeOK, Phases, Statuses
  <1>2. Verdict(answer) \in {"state", "switch", "verify", "open", "failed"}
    BY DEF Verdict
  <1>3. CASE phase # "handshake"
    BY <1>1, <1>3 DEF RpcShakes
  <1>4. CASE phase = "handshake" /\ Verdict(answer) = "failed"
    BY <1>1, <1>4 DEF RpcShakes, RpcFailLaunch
  <1>5. CASE phase = "handshake" /\ Verdict(answer) = "open"
    BY <1>1, <1>5 DEF RpcShakes
  <1>6. CASE phase = "handshake" /\ Verdict(answer) \in {"state", "switch", "verify"}
    <2>1. Request(Verdict(answer)) /\ stage' = Verdict(answer)
          /\ UNCHANGED <<phase, stdin, signalled, background, status>>
      BY <1>6 DEF RpcShakes
    <2>2. Verdict(answer) \in Commands /\ Verdict(answer) \in Stages
      BY <1>6 DEF Commands, Shaking, Stages
    <2> QED  BY <1>1, <2>1, <2>2, RequestTypes
  <1> QED  BY <1>2, <1>3, <1>4, <1>5, <1>6

LEMMA SettlesTypes ==
  ASSUME TypeInv, NEW answer, RpcSettles(answer)
  PROVE  status' \in Statuses
  <1>1. status \in Statuses /\ RpcStatus("idle") \in Statuses /\ RpcStatus("running") \in Statuses
    BY RpcStatusType DEF TypeInv, HubTypes, Statuses
  <1>2. status' \in {status, RpcStatus("idle"), RpcStatus("running")}
    BY DEF RpcSettles
  <1> QED  BY <1>1, <1>2

\* What a frame says of the session.
LEMMA FrameStatusType == \A frame : FrameStatus(frame) \in {"running", "idle", "same"}
  BY DEF FrameStatus, OmpStatus, PiStatus

LEMMA DispatchTypes ==
  ASSUME TypeInv, kind \in Rpc, reqs <= MaxReqs, NEW message \in RpcFrame, RpcDispatch(message)
  PROVE  /\ fatal' \in BOOLEAN /\ stdin' \in {stdin, "closed"} /\ signalled' \in BOOLEAN
         /\ background' \in {background, "term"}
         /\ pend' \in [1 .. MaxReqs -> Commands \cup {"none"}] /\ micro' \in Seq(RpcAnswer)
         /\ status' \in Statuses /\ ready' \in BOOLEAN /\ lifecycle' \in {"none", "running", "idle"}
  <1>1. /\ fatal \in BOOLEAN /\ signalled \in BOOLEAN
        /\ pend \in [1 .. MaxReqs -> Commands \cup {"none"}] /\ micro \in Seq(RpcAnswer)
        /\ status \in Statuses /\ ready \in BOOLEAN /\ lifecycle \in {"none", "running", "idle"}
    BY DEF TypeInv, HubTypes, StopTypes, PipesTypeOK, DialectTypes
  <1>2. RpcStatus("idle") \in Statuses /\ RpcStatus("running") \in Statuses
    BY <1>1, RpcStatusType DEF Statuses
  <1>3. CASE UNCHANGED <<fatal, stdin, signalled, background, pend, micro, status, lifecycle>> /\ ready' \in {ready, TRUE}
    BY <1>1, <1>3
  <1>4. CASE FailProtocol /\ UNCHANGED <<pend, micro, status, ready, lifecycle>>
    BY <1>1, <1>4 DEF FailProtocol
  <1>5. CASE message.type = "response" /\ Known(message)
    <2>1. message.of \in Said /\ message.id \in Pending /\ message.id \in Nat
      BY <1>5 DEF Known, RpcFrame
    <2>2. /\ pend' = [pend EXCEPT ![message.id] = "none"]
          /\ micro' = Append(micro, Answered(message.id, message.of # "failed", message.of))
          /\ status' = IF message.of = "local" THEN RpcStatus("idle") ELSE status
          /\ UNCHANGED <<fatal, stdin, signalled, background, ready, lifecycle>>
      <3>1. message.type = "response" /\ ~(message.id \notin Pending) /\ Known(message)
        BY <1>5, <2>1
      <3> QED  BY <3>1 DEF RpcDispatch, Breaks
    <2>3. pend' \in [1 .. MaxReqs -> Commands \cup {"none"}]
      BY <1>1, <2>2
    <2>4. micro' \in Seq(RpcAnswer)
      BY <2>1, <2>2, AnsweredType
    <2> QED  BY <1>1, <1>2, <2>2, <2>3, <2>4
  <1>6. CASE message.type \in {"agent_start", "agent_end", "agent_settled"}
    <2>1. /\ status' \in {status, RpcStatus(FrameStatus(message))} /\ lifecycle' = message.now
          /\ FrameStatus(message) = "same" => status' = status
          /\ UNCHANGED <<fatal, stdin, signalled, background, pend, micro, ready>>
      BY <1>6 DEF RpcDispatch, Breaks
    <2>2. message.now \in {"running", "idle"}
      BY <1>6 DEF RpcFrame
    <2>3. status' \in Statuses
      BY <1>1, <1>2, <2>1, FrameStatusType
    <2> QED  BY <1>1, <2>1, <2>2, <2>3
  <1> QED  BY <1>3, <1>4, <1>5, <1>6 DEF RpcDispatch

\* What the steps of the hub of an rpc transport have in common.
LEMMA RpcParts ==
  ASSUME TypeInv, kind \in Rpc,
         UNCHANGED <<plan, session, run, due, turns, permissions>>,
         StopTypes',
         phase' \in Phases, stage' \in Stages, status' \in Statuses,
         observed' \in BOOLEAN, fatal' \in BOOLEAN, ended' \in BOOLEAN,
         exitSaid' \in {"none", "intended", "unexpected"},
         out' \in Seq(RpcFrame), Len(out') <= plan.pipe, inp' \in Seq(RpcRequest), micro' \in Seq(RpcAnswer),
         reqs' \in Nat, pend' \in [1 .. MaxReqs -> Commands \cup {"none"}],
         ready' \in BOOLEAN, lifecycle' \in {"none", "running", "idle"}
  PROVE  TypeInv'
  <1> USE DEF TypeInv, turns, permissions
  <1>1. kind \notin Line /\ kind # "agy" /\ kind # "hermes" /\ plan \in Launches /\ plan' = plan
    BY DEF Line, Rpc, HubTypes
  <1>2. HubTypes'
    BY DEF HubTypes
  <1>3. DialectTypes'
    BY DEF DialectTypes, Perms
  <1>4. PipesTypeOK'
    BY <1>1 DEF PipesTypeOK, Texts, kind, MaxReqs
  <1> QED  BY <1>2, <1>3, <1>4

\* The parts of the types, one by one.
LEMMA RpcPartsNow ==
  ASSUME TypeInv, kind \in Rpc
  PROVE  /\ phase \in Phases /\ stage \in Stages /\ status \in Statuses
         /\ observed \in BOOLEAN /\ fatal \in BOOLEAN /\ ended \in BOOLEAN
         /\ exitSaid \in {"none", "intended", "unexpected"}
         /\ out \in Seq(RpcFrame) /\ Len(out) <= plan.pipe /\ inp \in Seq(RpcRequest) /\ micro \in Seq(RpcAnswer)
         /\ reqs \in Nat /\ pend \in [1 .. MaxReqs -> Commands \cup {"none"}]
         /\ ready \in BOOLEAN /\ lifecycle \in {"none", "running", "idle"}
         /\ plan \in Launches /\ StopTypes
         /\ {"idle", "error", "closed", "running", "cancelling"} \subseteq Statuses
         /\ {"spawned", "handshake", "failing", "open", "failed"} \subseteq Phases
         /\ Shaking \cup {"ready"} \subseteq Stages
  BY DEF TypeInv, HubTypes, DialectTypes, PipesTypeOK, Phases, Statuses, Stages

LEMMA RpcLaunchTypes ==
  ASSUME TypeInv, RpcSteps, RpcSpawn \/ RpcReported \/ RpcGate \/ RpcFatalOpen \/ RpcLaunchFailed
  PROVE  TypeInv'
  <1> USE DEF stopping, surface, launch, pipes, rpc, process
  <1>1. kind \in Rpc /\ UNCHANGED <<turns, permissions>>
    BY DEF RpcSteps, RpcSpawn, RpcReported, RpcGate, RpcFatalOpen, RpcLaunchFailed, Rpc
  <1>2. CASE RpcSpawn
    <2>1. StopTypes'
      BY <1>1, <1>2, RpcPartsNow DEF RpcSpawn, Launched, StopTypes
    <2>2. phase' \in Phases /\ status' \in Statuses /\ ended' \in BOOLEAN
      BY <1>1, <1>2, RpcPartsNow DEF RpcSpawn
    <2>3. UNCHANGED <<plan, stage, session, observed, exitSaid, fatal, inp, out, micro, ready, reqs, pend,
                      run, due, lifecycle>>
      BY <1>2 DEF RpcSpawn
    <2> QED  BY <1>1, <2>1, <2>2, <2>3, RpcPartsNow, RpcParts
  <1>3. ASSUME StopTouched, UNCHANGED <<plan, session, observed, exitSaid, fatal, status, ended, out, micro,
                                        ready, run, due, lifecycle>>,
               phase' \in Phases, stage' \in Stages,
               \/ UNCHANGED <<reqs, pend, inp>>
               \/ \E cmd \in Commands : Request(cmd)
        PROVE  TypeInv'
    <2>1. StopTypes'
      BY <1>1, <1>3, RpcPartsNow, TouchedTypes
    <2>2. /\ reqs' \in Nat /\ pend' \in [1 .. MaxReqs -> Commands \cup {"none"}]
          /\ inp' \in Seq(RpcRequest)
      BY <1>1, <1>3, RpcPartsNow, RequestTypes
    <2>3. /\ status' \in Statuses /\ observed' \in BOOLEAN /\ fatal' \in BOOLEAN /\ ended' \in BOOLEAN
          /\ exitSaid' \in {"none", "intended", "unexpected"}
          /\ out' \in Seq(RpcFrame) /\ Len(out') <= plan.pipe /\ micro' \in Seq(RpcAnswer)
          /\ ready' \in BOOLEAN /\ lifecycle' \in {"none", "running", "idle"}
      BY <1>1, <1>3, RpcPartsNow
    <2> QED  BY <1>1, <1>3, <2>1, <2>2, <2>3, RpcParts
  <1>4. ASSUME UNCHANGED <<process, stopping>>, RpcFailLaunch
        PROVE  StopTouched /\ phase' \in Phases
    BY <1>1, <1>4, RpcPartsNow DEF RpcFailLaunch, StopTouched, StopTypes
  <1>5. ASSUME UNCHANGED <<process, stopping, stdin, signalled, background>>
        PROVE  StopTouched
    BY <1>1, <1>5, RpcPartsNow DEF StopTouched, StopTypes
  <1>6. "state" \in Commands /\ "negotiate" \in Commands /\ "state" \in Stages /\ "negotiate" \in Stages
        /\ "ready" \in Stages
    BY DEF Commands, Shaking, Stages
  <1>7. CASE RpcReported
    <2>1. StopTouched /\ phase' \in Phases
      BY <1>1, <1>4, <1>5, <1>7, RpcPartsNow DEF RpcReported
    <2>2. stage' \in Stages /\ (UNCHANGED <<reqs, pend, inp>> \/ \E cmd \in Commands : Request(cmd))
      BY <1>1, <1>6, <1>7, RpcPartsNow DEF RpcReported
    <2> QED  BY <1>3, <1>7, <2>1, <2>2 DEF RpcReported
  <1>8. CASE RpcGate
    <2>1. StopTouched /\ phase' \in Phases
      BY <1>1, <1>4, <1>5, <1>8, RpcPartsNow DEF RpcGate
    <2>2. stage' \in Stages /\ (UNCHANGED <<reqs, pend, inp>> \/ \E cmd \in Commands : Request(cmd))
      BY <1>1, <1>6, <1>8, RpcPartsNow DEF RpcGate
    <2> QED  BY <1>3, <1>8, <2>1, <2>2 DEF RpcGate
  <1>9. CASE RpcFatalOpen
    BY <1>1, <1>3, <1>4, <1>9, RpcPartsNow DEF RpcFatalOpen
  <1>10. CASE RpcLaunchFailed
    <2>1. StopTypes'
      BY <1>1, <1>10, RpcPartsNow DEF RpcLaunchFailed, StopTypes
    <2>2. pend' \in [1 .. MaxReqs -> Commands \cup {"none"}] /\ micro' \in Seq(RpcAnswer)
      BY <1>1, <1>10, RejectTypes DEF RpcLaunchFailed
    <2>3. phase' \in Phases /\ status' \in Statuses /\ ended' \in BOOLEAN
      BY <1>1, <1>10, RpcPartsNow DEF RpcLaunchFailed
    <2>4. UNCHANGED <<plan, stage, session, observed, exitSaid, fatal, inp, out, ready, reqs,
                      run, due, lifecycle>>
      BY <1>10 DEF RpcLaunchFailed
    <2> QED  BY <1>1, <2>1, <2>2, <2>3, <2>4, RpcPartsNow, RpcParts
  <1> QED  BY <1>2, <1>7, <1>8, <1>9, <1>10

LEMMA RpcTalkTypes ==
  ASSUME TypeInv, RpcSteps, reqs <= MaxReqs, RpcContinues \/ RpcSend \/ RpcTimer
  PROVE  TypeInv'
  <1> USE DEF stopping, surface, launch, pipes, rpc, process
  <1>1. kind \in Rpc /\ UNCHANGED <<turns, permissions>>
    BY DEF RpcSteps, RpcContinues, RpcSend, RpcTimer
  <1>2. CASE RpcContinues
    <2> DEFINE answer == Head(micro)
    <2>1. answer \in RpcAnswer /\ micro' \in Seq(RpcAnswer)
      BY <1>1, <1>2, RpcPartsNow, Headless DEF RpcContinues
    <2>2. /\ phase' \in Phases /\ stage' \in Stages /\ status' \in Statuses
          /\ stdin' \in {stdin, "closed"} /\ signalled' \in BOOLEAN
          /\ background' \in {background, "term"}
          /\ reqs' \in Nat /\ pend' \in [1 .. MaxReqs -> Commands \cup {"none"}]
          /\ inp' \in Seq(RpcRequest)
      <3>1. CASE RpcShakes(answer)
        BY <1>1, <2>1, <3>1, ShakesTypes
      <3>2. CASE RpcSettles(answer)
        BY <1>1, <3>2, SettlesTypes, RpcPartsNow DEF RpcSettles, StopTypes
      <3> QED  BY <1>2, <3>1, <3>2 DEF RpcContinues
    <2>3. StopTypes'
      BY <1>1, <1>2, <2>2, RpcPartsNow DEF RpcContinues, StopTypes
    <2>4. UNCHANGED <<plan, session, observed, exitSaid, fatal, ended, out, ready, run, due, lifecycle>>
      BY <1>2 DEF RpcContinues
    <2> QED  BY <1>1, <2>1, <2>2, <2>3, <2>4, RpcPartsNow, RpcParts
  <1>3. CASE RpcSend
    <2>1. PICK cmd \in {"prompt", "follow_up"} \cup Steering :
            /\ Request(cmd)
            /\ status' = IF cmd = "cancel" /\ status = "running" THEN RpcStatus("cancelling") ELSE status
      BY <1>3 DEF RpcSend
    <2>2. reqs' \in Nat /\ pend' \in [1 .. MaxReqs -> Commands \cup {"none"}] /\ inp' \in Seq(RpcRequest)
      BY <1>1, <2>1, RequestTypes DEF Commands
    <2>3. status' \in Statuses
      BY <1>1, <2>1, RpcPartsNow, RpcStatusType
    <2>4. StopTypes'
      BY <1>1, <1>3, RpcPartsNow DEF RpcSend, StopTypes
    <2>5. UNCHANGED <<plan, phase, stage, session, observed, exitSaid, fatal, ended, out, micro, ready, run,
                      due, lifecycle>>
      BY <1>3 DEF RpcSend
    <2> QED  BY <1>1, <2>2, <2>3, <2>4, <2>5, RpcPartsNow, RpcParts
  <1>4. CASE RpcTimer
    <2>1. PICK id \in Pending : /\ pend' = [pend EXCEPT ![id] = "none"]
                                /\ micro' = Append(micro, Answered(id, FALSE, "timeout"))
      BY <1>4 DEF RpcTimer
    <2>2. pend' \in [1 .. MaxReqs -> Commands \cup {"none"}] /\ micro' \in Seq(RpcAnswer)
      BY <1>1, <2>1, AnsweredType
    <2>3. StopTypes'
      BY <1>1, <1>4, RpcPartsNow DEF RpcTimer, StopTypes
    <2>4. UNCHANGED <<plan, phase, stage, session, status, observed, exitSaid, fatal, ended, out, inp, reqs, ready,
                      run, due, lifecycle>>
      BY <1>4 DEF RpcTimer
    <2> QED  BY <1>1, <2>2, <2>3, <2>4, RpcPartsNow, RpcParts
  <1> QED  BY <1>2, <1>3, <1>4

LEMMA RpcEndTypes ==
  ASSUME TypeInv, RpcSteps, reqs <= MaxReqs, RpcReads \/ RpcExits
  PROVE  TypeInv'
  <1> USE DEF stopping, surface, launch, pipes, rpc, process
  <1>1. kind \in Rpc /\ UNCHANGED <<turns, permissions>>
    BY DEF RpcSteps, RpcReads, RpcExits
  <1>2. CASE RpcReads
    <2> DEFINE message == Head(out)
    <2>1. message \in RpcFrame /\ out' \in Seq(RpcFrame) /\ Len(out') <= plan.pipe
      BY <1>1, <1>2, RpcPartsNow, Headless, PlanType DEF RpcReads
    <2>2. /\ fatal' \in BOOLEAN /\ stdin' \in {stdin, "closed"} /\ signalled' \in BOOLEAN
          /\ background' \in {background, "term"}
          /\ pend' \in [1 .. MaxReqs -> Commands \cup {"none"}] /\ micro' \in Seq(RpcAnswer)
          /\ status' \in Statuses /\ ready' \in BOOLEAN /\ lifecycle' \in {"none", "running", "idle"}
      BY <1>1, <1>2, <2>1, DispatchTypes DEF RpcReads
    <2>3. StopTypes'
      BY <1>1, <1>2, <2>2, RpcPartsNow DEF RpcReads, StopTypes
    <2>4. UNCHANGED <<plan, phase, stage, session, observed, exitSaid, ended, inp, reqs, run, due>>
      BY <1>2 DEF RpcReads
    <2> QED  BY <1>1, <2>1, <2>2, <2>3, <2>4, RpcPartsNow, RpcParts
  <1>3. CASE RpcExits
    <2>1. pend' \in [1 .. MaxReqs -> Commands \cup {"none"}] /\ micro' \in Seq(RpcAnswer)
      BY <1>1, <1>3, RejectTypes, RpcPartsNow DEF RpcExits
    <2>2. /\ status' \in Statuses /\ ended' \in BOOLEAN /\ exitSaid' \in {"none", "intended", "unexpected"}
          /\ observed' \in BOOLEAN
      BY <1>1, <1>3, RpcPartsNow DEF RpcExits
    <2>3. StopTypes'
      BY <1>1, <1>3, RpcPartsNow DEF RpcExits, StopTypes
    <2>4. inp' \in Seq(RpcRequest) /\ out' \in Seq(RpcFrame) /\ Len(out') <= plan.pipe
      BY <1>1, <1>3, RpcPartsNow, PlanType DEF RpcExits
    <2>5. UNCHANGED <<plan, phase, stage, session, fatal, reqs, ready, run, due, lifecycle>>
      BY <1>3 DEF RpcExits
    <2> QED  BY <1>1, <2>1, <2>2, <2>3, <2>4, <2>5, RpcPartsNow, RpcParts
  <1> QED  BY <1>2, <1>3

LEMMA RpcTypes == ASSUME TypeInv, RpcSteps, kind \in Rpc => reqs <= MaxReqs PROVE TypeInv'
  <1>1. kind \in Rpc
    BY DEF RpcSteps, RpcProvider, RpcHub, RpcReady, RpcReplies, RpcBegins, RpcEnds, RpcGoesOn, RpcGarbage,
       RpcSpawn, RpcReported, RpcGate, RpcFatalOpen, RpcLaunchFailed, RpcContinues, RpcSend, RpcTimer,
       RpcReads, RpcExits, Rpc
  <1> QED  BY <1>1, RpcProviderTypes, RpcLaunchTypes, RpcTalkTypes, RpcEndTypes DEF RpcSteps, RpcHub

\* A step of any kind keeps the types, while the requests are within the bound.
LEMMA NextTypes == ASSUME TypeInv, kind \in Rpc => reqs <= MaxReqs, [Next]_vars PROVE TypeInv'
  <1>1. CASE UNCHANGED vars
    <2>1. StopTypes' /\ HubTypes'
      BY <1>1 DEF vars, base, process, stopping, launch, surface, StopTypes, HubTypes, TypeInv
    <2>2. UNCHANGED Wires /\ UNCHANGED Dialects
      BY <1>1 DEF vars, base, pipes, turns, permissions, rpc, launch, Wires, Dialects
    <2> QED  BY <2>1, <2>2, PipesStay, DialectsStay DEF TypeInv
  <1> QED  BY <1>1, SharedTypes, AgyTypes, AcpTypes, RpcTypes DEF Next

-----------------------------------------------------------------------------
(* The handshake of an rpc transport has one command at a time.            *)

\* How many commands the handshake has sent at most when it is at a stage.
Sent(at) == CASE at = "negotiate" -> 1
              [] at = "state"     -> 2
              [] at = "switch"    -> 3
              [] at = "verify"    -> 4
              [] OTHER            -> 0

\* In the handshake one command waits, or one answer of it, or neither.
Handshaking ==
  /\ stage \in Shaking \cup {"ready"}
  /\ reqs <= Sent(stage)
  /\ Len(micro) <= 1
  /\ \A id \in 1 .. MaxReqs : pend[id] # "none" => micro = <<>> /\ pend[id] = stage /\ id = reqs
  /\ \A i \in DOMAIN micro : micro[i].cmd \in Shaking /\ (micro[i].ok => micro[i].cmd = stage)

ShakeInv ==
  /\ phase \in {"new", "spawned"} => reqs = 0 /\ micro = <<>>
  /\ phase = "handshake" => Handshaking
  /\ phase = "open" => /\ \A id \in 1 .. MaxReqs : pend[id] \notin Shaking
                       /\ \A i \in DOMAIN micro : micro[i].cmd \notin Shaking
  /\ reqs <= MaxReqs
  /\ \A id \in 1 .. MaxReqs : pend[id] # "none" => id <= reqs

\* What the handshake is about.
Shakes == <<plan, phase, stage, reqs, pend, micro>>

LEMMA ShakeStays == ASSUME ShakeInv, UNCHANGED Shakes PROVE ShakeInv'
  BY DEF Shakes, ShakeInv, Handshaking, MaxReqs, Sent

\* The numbers of it.
LEMMA ShakeNumbers ==
  ASSUME TypeInv
  PROVE  /\ MaxReqs \in Nat /\ MaxReqs >= 4 /\ Handshake <= 4 /\ Handshake \in Nat
         /\ Handshake + plan.sends <= MaxReqs
         /\ \A at : Sent(at) \in 0 .. 4
  BY PlanType DEF TypeInv, HubTypes, MaxReqs, Handshake, Sent

\* A command of the handshake is sent when nothing of it waits.
LEMMA RequestShakes ==
  ASSUME TypeInv, kind \in Rpc, NEW next \in Shaking, reqs + 1 <= Sent(next), Request(next),
         UNCHANGED plan, micro' = <<>>, phase' = "handshake", stage' = next,
         \A id \in 1 .. MaxReqs : pend[id] = "none"
  PROVE  ShakeInv'
  <1>1. reqs \in Nat /\ pend \in [1 .. MaxReqs -> Commands \cup {"none"}]
    BY RpcPartsNow
  <1>2. /\ reqs' = reqs + 1 /\ reqs' <= MaxReqs /\ MaxReqs' = MaxReqs /\ MaxReqs \in Nat
        /\ pend' = [pend EXCEPT ![reqs + 1] = next]
    BY <1>1, ShakeNumbers DEF Request, MaxReqs
  <1>3. \A id \in 1 .. MaxReqs : pend'[id] # "none" => pend'[id] = next /\ id = reqs'
    BY <1>1, <1>2
  <1>4. Handshaking'
    BY <1>1, <1>2, <1>3 DEF Handshaking, Sent
  <1> QED  BY <1>1, <1>2, <1>3, <1>4, ShakeNumbers DEF ShakeInv

\* Nothing of the handshake waits when an answer of it is due.
LEMMA AnswerAlone ==
  ASSUME TypeInv, ShakeInv, kind \in Rpc, phase = "handshake", micro # <<>>
  PROVE  \A id \in 1 .. MaxReqs : pend[id] = "none"
  BY DEF ShakeInv, Handshaking

\* A step that answers or gives up what waits adds at most one answer.
LEMMA AnswerShakes ==
  ASSUME TypeInv, ShakeInv, kind \in Rpc, NEW id \in Pending, NEW ok \in BOOLEAN, NEW of,
         UNCHANGED <<plan, phase, stage, reqs>>,
         pend' = [pend EXCEPT ![id] = "none"], micro' = Append(micro, Answered(id, ok, of))
  PROVE  ShakeInv'
  <1>1. /\ reqs \in Nat /\ pend \in [1 .. MaxReqs -> Commands \cup {"none"}] /\ micro \in Seq(RpcAnswer)
        /\ reqs <= MaxReqs /\ MaxReqs \in Nat /\ MaxReqs' = MaxReqs
    BY RpcPartsNow, ShakeNumbers DEF ShakeInv, MaxReqs
  <1>2. id \in 1 .. MaxReqs /\ pend[id] # "none" /\ reqs # 0
    BY <1>1 DEF Pending
  <1>3. \A j \in 1 .. MaxReqs : pend'[j] = (IF j = id THEN "none" ELSE pend[j])
    BY <1>1, <1>2
  <1>4. \A j \in 1 .. MaxReqs : pend'[j] # "none" => j <= reqs'
    BY <1>3 DEF ShakeInv
  <1>5. CASE phase = "handshake"
    <2>1. micro = <<>> /\ pend[id] = stage /\ \A j \in 1 .. MaxReqs : pend'[j] = "none"
      BY <1>2, <1>3, <1>5 DEF ShakeInv, Handshaking
    <2>2. stage \in Shaking
      BY <1>1, <1>2, <1>5, <2>1, RpcAssumption DEF ShakeInv, Handshaking, Commands, Shaking
    <2>3. micro' = <<Answered(id, ok, of)>> /\ Answered(id, ok, of).cmd = stage
      BY <2>1 DEF Answered
    <2>4. Handshaking'
      <3>1. reqs <= Sent(stage) /\ stage' = stage /\ reqs' = reqs
        BY <1>5 DEF ShakeInv, Handshaking
      <3>2. Len(micro') <= 1 /\ \A i \in DOMAIN micro' : micro'[i].cmd = stage
        BY <2>3
      <3> QED  BY <1>1, <2>1, <2>2, <3>1, <3>2 DEF Handshaking, Sent
    <2> QED  BY <1>1, <1>4, <1>5, <2>4 DEF ShakeInv
  <1>6. CASE phase = "open"
    <2>1. \A j \in 1 .. MaxReqs : pend'[j] \notin Shaking
      BY <1>3, <1>6 DEF ShakeInv, Shaking
    <2>2. \A i \in DOMAIN micro' : micro'[i] = Answered(id, ok, of) \/ (i \in DOMAIN micro /\ micro'[i] = micro[i])
      BY <1>1
    <2>3. Answered(id, ok, of).cmd \notin Shaking
      BY <1>2, <1>6 DEF ShakeInv, Answered
    <2>4. \A i \in DOMAIN micro' : micro'[i].cmd \notin Shaking
      BY <1>6, <2>2, <2>3 DEF ShakeInv
    <2> QED  BY <1>1, <1>4, <1>6, <2>1, <2>4 DEF ShakeInv
  <1>7. CASE phase \notin {"handshake", "open"}
    BY <1>1, <1>2, <1>4, <1>7 DEF ShakeInv
  <1> QED  BY <1>5, <1>6, <1>7

LEMMA RejectShakes ==
  ASSUME TypeInv, ShakeInv, kind \in Rpc, RejectAll, UNCHANGED <<plan, stage, reqs>>,
         phase' \in {phase, "failed"}
  PROVE  ShakeInv'
  <1>1. /\ reqs \in Nat /\ pend \in [1 .. MaxReqs -> Commands \cup {"none"}] /\ micro \in Seq(RpcAnswer)
        /\ reqs <= MaxReqs /\ MaxReqs \in Nat /\ MaxReqs' = MaxReqs
    BY RpcPartsNow, ShakeNumbers DEF ShakeInv, MaxReqs
  <1>2. \A j \in 1 .. MaxReqs : pend'[j] = "none"
    BY DEF RejectAll
  <1>3. CASE phase = "handshake"
    <2>1. CASE micro' = micro
      <3>1. Handshaking'
        BY <1>1, <1>2, <1>3, <2>1 DEF ShakeInv, Handshaking, Sent
      <3> QED  BY <1>1, <1>2, <1>3, <3>1 DEF ShakeInv
    <2>2. CASE micro' # micro
      <3>1. micro' = Append(micro, [type |-> "answer", cmd |-> "state", ok |-> FALSE, of |-> "closed"])
            /\ \E id \in 1 .. MaxReqs : pend[id] # "none"
        BY <1>1, <2>2 DEF RejectAll, Pending
      <3>2. micro = <<>>
        BY <1>3, <3>1 DEF ShakeInv, Handshaking
      <3>3. micro' = <<[type |-> "answer", cmd |-> "state", ok |-> FALSE, of |-> "closed"]>>
        BY <3>1, <3>2
      <3>4. Handshaking'
        <4>1. reqs <= Sent(stage) /\ stage' = stage /\ reqs' = reqs /\ stage \in Shaking \cup {"ready"}
          BY <1>3 DEF ShakeInv, Handshaking
        <4>2. Len(micro') <= 1 /\ \A i \in DOMAIN micro' : micro'[i].cmd = "state" /\ ~micro'[i].ok
          BY <3>3
        <4> QED  BY <1>1, <1>2, <4>1, <4>2 DEF Handshaking, Sent, Shaking
      <3> QED  BY <1>1, <1>2, <1>3, <3>4 DEF ShakeInv
    <2> QED  BY <2>1, <2>2
  <1>4. CASE phase # "handshake"
    <2>1. micro' = micro
      BY <1>4 DEF RejectAll
    <2> QED  BY <1>1, <1>2, <1>4, <2>1 DEF ShakeInv, Shaking
  <1> QED  BY <1>3, <1>4

LEMMA ContinueShakes == ASSUME TypeInv, ShakeInv, RpcContinues PROVE ShakeInv'
  <1> DEFINE answer == Head(micro)
  <1> USE DEF launch
  <1>1. /\ kind \in Rpc /\ micro # <<>> /\ UNCHANGED plan /\ micro' = Tail(micro)
        /\ MaxReqs' = MaxReqs /\ MaxReqs \in Nat
    BY ShakeNumbers DEF RpcContinues, MaxReqs
  <1>2. /\ micro \in Seq(RpcAnswer) /\ answer = micro[1] /\ 1 \in DOMAIN micro /\ Len(micro') = Len(micro) - 1
        /\ \A i \in DOMAIN micro' : i + 1 \in DOMAIN micro /\ micro'[i] = micro[i + 1]
    BY <1>1, RpcPartsNow, Headless
  <1>3. CASE phase = "handshake"
    <2>1. answer.cmd \in Shaking /\ (answer.ok => answer.cmd = stage)
      BY <1>2, <1>3 DEF ShakeInv, Handshaking
    <2>2. micro' = <<>> /\ \A id \in 1 .. MaxReqs : pend[id] = "none"
      BY <1>1, <1>2, <1>3, AnswerAlone DEF ShakeInv, Handshaking
    <2>3. RpcShakes(answer)
      BY <2>1 DEF RpcContinues
    <2>4. CASE Verdict(answer) \in {"failed", "open"}
      <3>1. phase' \in {"failing", "open"} /\ UNCHANGED <<stage, reqs, pend>>
        BY <1>3, <2>3, <2>4 DEF RpcShakes, RpcFailLaunch
      <3> QED  BY <1>1, <2>2, <3>1 DEF ShakeInv, Shaking
    <2>5. CASE Verdict(answer) \notin {"failed", "open"}
      <3>1. /\ Verdict(answer) \in Shaking /\ Sent(stage) + 1 <= Sent(Verdict(answer)) /\ Sent(stage) \in Nat
        BY <2>1, <2>5 DEF Verdict, Sent, Shaking
      <3>2. stage' = Verdict(answer) /\ Request(Verdict(answer)) /\ phase' = "handshake"
        BY <1>3, <2>3, <2>5 DEF RpcShakes
      <3>3. reqs + 1 <= Sent(Verdict(answer))
        <4>1. reqs <= Sent(stage) /\ reqs \in Nat
          BY <1>1, <1>3, RpcPartsNow DEF ShakeInv, Handshaking
        <4>2. Sent(Verdict(answer)) \in Nat
          BY ShakeNumbers
        <4> QED  BY <3>1, <4>1, <4>2
      <3> QED  BY <1>1, <2>2, <3>1, <3>2, <3>3, RequestShakes
    <2> QED  BY <2>4, <2>5
  <1>4. CASE phase # "handshake"
    <2>1. UNCHANGED <<phase, stage, reqs, pend>>
      BY <1>4 DEF RpcContinues, RpcShakes, RpcSettles
    <2>2. phase = "open" => \A i \in DOMAIN micro' : micro'[i].cmd \notin Shaking
      BY <1>2 DEF ShakeInv
    <2>3. phase \notin {"new", "spawned"}
      BY <1>1 DEF ShakeInv
    <2> QED  BY <1>1, <1>4, <2>1, <2>2, <2>3 DEF ShakeInv
  <1> QED  BY <1>3, <1>4

LEMMA HubShakes ==
  ASSUME TypeInv, ShakeInv, RpcHub
  PROVE  ShakeInv'
  <1> USE DEF launch, pipes, rpc
  <1>1. kind \in Rpc /\ UNCHANGED plan /\ MaxReqs' = MaxReqs
    BY DEF RpcHub, RpcSpawn, RpcReported, RpcGate, RpcFatalOpen, RpcLaunchFailed, RpcContinues, RpcSend,
       RpcTimer, RpcReads, RpcExits, Rpc, MaxReqs
  <1>2. /\ reqs \in Nat /\ pend \in [1 .. MaxReqs -> Commands \cup {"none"}] /\ micro \in Seq(RpcAnswer)
        /\ reqs <= MaxReqs /\ MaxReqs \in Nat /\ "ready" \notin Commands /\ "none" \notin Shaking
    BY <1>1, RpcPartsNow, ShakeNumbers, RpcAssumption DEF ShakeInv, Commands, Shaking
  <1>3. phase \in {"new", "spawned"} =>
          micro = <<>> /\ reqs = 0 /\ \A id \in 1 .. MaxReqs : pend[id] = "none"
    BY <1>2 DEF ShakeInv
  <1>4. ASSUME UNCHANGED <<stage, reqs, pend, micro>>, phase' \in {"failing", "failed"}
        PROVE  ShakeInv'
    BY <1>1, <1>2, <1>4 DEF ShakeInv
  <1>5. CASE RpcSpawn
    BY <1>1, <1>2, <1>3, <1>5 DEF RpcSpawn, ShakeInv
  <1>6. CASE RpcReported
    <2>1. CASE RpcFailLaunch
      BY <1>4, <1>6, <2>1 DEF RpcReported, RpcFailLaunch
    <2>2. CASE ~RpcFailLaunch /\ kind = "omp"
      <3>1. phase' = "handshake" /\ stage' = "ready" /\ UNCHANGED <<reqs, pend, micro>> /\ phase = "spawned"
        BY <1>6, <2>2 DEF RpcReported
      <3> QED  BY <1>1, <1>2, <1>3, <3>1 DEF ShakeInv, Handshaking, Sent
    <2>3. CASE ~RpcFailLaunch /\ kind # "omp"
      <3>1. phase' = "handshake" /\ stage' = "state" /\ Request("state") /\ UNCHANGED micro /\ phase = "spawned"
        BY <1>6, <2>3 DEF RpcReported
      <3>2. reqs + 1 <= Sent("state") /\ "state" \in Shaking
        BY <1>3, <3>1 DEF Sent, Shaking
      <3> QED  BY <1>1, <1>3, <3>1, <3>2, RequestShakes
    <2> QED  BY <2>1, <2>2, <2>3
  <1>7. CASE RpcGate
    <2>1. CASE RpcFailLaunch
      BY <1>4, <1>7, <2>1 DEF RpcGate, RpcFailLaunch
    <2>2. CASE ~RpcFailLaunch
      <3>1. /\ phase = "handshake" /\ stage = "ready" /\ micro = <<>>
            /\ phase' = "handshake" /\ stage' = "negotiate" /\ Request("negotiate") /\ UNCHANGED micro
        BY <1>7, <2>2 DEF RpcGate, Turnover
      <3>2. \A id \in 1 .. MaxReqs : pend[id] = "none"
        BY <1>2, <3>1 DEF ShakeInv, Handshaking
      <3>3. reqs + 1 <= Sent("negotiate") /\ "negotiate" \in Shaking
        BY <1>2, <3>1 DEF ShakeInv, Handshaking, Sent, Shaking
      <3> QED  BY <1>1, <3>1, <3>2, <3>3, RequestShakes
    <2> QED  BY <2>1, <2>2
  <1>8. CASE RpcFatalOpen
    BY <1>4, <1>8 DEF RpcFatalOpen, RpcFailLaunch
  <1>9. CASE RpcLaunchFailed
    BY <1>1, <1>9, RejectShakes DEF RpcLaunchFailed
  <1>10. CASE RpcContinues
    BY <1>10, ContinueShakes
  <1>11. CASE RpcSend
    <2>1. PICK cmd \in {"prompt", "follow_up"} \cup Steering : Request(cmd)
      BY <1>11 DEF RpcSend
    <2>2. cmd \notin Shaking
      BY RpcAssumption DEF Shaking
    <2>3. /\ pend' = [pend EXCEPT ![reqs + 1] = cmd] /\ reqs' = reqs + 1 /\ UNCHANGED <<phase, stage, micro>>
          /\ reqs < Handshake + plan.sends /\ phase = "open"
      BY <1>11, <2>1 DEF RpcSend, Request
    <2>4. reqs' <= MaxReqs
      BY <1>1, <1>2, <2>3, ShakeNumbers, RpcPartsNow, PlanType
    <2>5. \A id \in 1 .. MaxReqs : pend'[id] = pend[id] \/ (pend'[id] = cmd /\ id = reqs')
      BY <1>2, <2>3
    <2>6. \A id \in 1 .. MaxReqs : pend'[id] # "none" => id <= reqs'
      BY <1>2, <2>3, <2>5 DEF ShakeInv
    <2>7. \A id \in 1 .. MaxReqs : pend'[id] \notin Shaking
      BY <2>2, <2>3, <2>5 DEF ShakeInv
    <2> QED  BY <1>1, <2>3, <2>4, <2>6, <2>7 DEF ShakeInv
  <1>12. CASE RpcTimer
    BY <1>1, <1>12, AnswerShakes DEF RpcTimer
  <1>13. CASE RpcReads
    <2>1. UNCHANGED <<plan, phase, stage, reqs>> /\ RpcDispatch(Head(out))
      BY <1>13 DEF RpcReads
    <2>2. CASE UNCHANGED <<pend, micro>>
      BY <2>1, <2>2, ShakeStays DEF Shakes
    <2>3. CASE Head(out).type = "response" /\ Known(Head(out))
      <3>1. /\ pend' = [pend EXCEPT ![Head(out).id] = "none"] /\ Head(out).id \in Pending
            /\ micro' = Append(micro, Answered(Head(out).id, Head(out).of # "failed", Head(out).of))
        <4>1. Head(out).id \in Pending
          BY <2>3 DEF Known
        <4> QED  BY <2>1, <2>3, <4>1 DEF RpcDispatch, Breaks
      <3> QED  BY <1>1, <2>1, <3>1, AnswerShakes
    <2> QED  BY <2>1, <2>2, <2>3 DEF RpcDispatch
  <1>14. CASE RpcExits
    <2>1. CASE ended
      BY <1>14, <2>1, ShakeStays DEF RpcExits, Shakes
    <2>2. CASE ~ended
      BY <1>1, <1>14, <2>2, RejectShakes DEF RpcExits
    <2> QED  BY <2>1, <2>2
  <1> QED  BY <1>5, <1>6, <1>7, <1>8, <1>9, <1>10, <1>11, <1>12, <1>13, <1>14 DEF RpcHub

\* The types and the handshake, together.
Sound == TypeInv /\ (kind \in Rpc => ShakeInv)

LEMMA PlanStays == ASSUME [Next]_vars PROVE plan' = plan
  <1>1. CASE Shared
    BY <1>1 DEF Shared, ProcessStep, FirstStop, ChainedStop, LaterStop, LadderStep, LadderTimer, LadderExit,
       LadderProven, LadderGroup, LadderRest, BackgroundKill, BackgroundTimer, BackgroundGroup
  <1>2. CASE Agy
    BY <1>2 DEF Agy, AgyProvider, AgyHub, AgySpawn, AgyReported, AgyReportFails, AgyOpens, AgyOpenFails,
       AgyPrompt, AgyFollowUp, AgyCancel, AgyReads, AgyExits, Untouched
  <1>3. CASE Acp
    BY <1>3 DEF Acp, AcpProvider, AcpHub, AcpSpawn, AcpReported, AcpReportFails, AcpOpens, AcpOpenFails,
       AcpPrompt, AcpFollowUp, AcpCancel, AcpVerdict, AcpPermissionTimer, AcpStop, AcpChainedStop,
       AcpGuard, AcpReads, AcpExits, AcpRest, Untouched, FirstStop, ChainedStop, base
  <1>4. CASE RpcSteps
    BY <1>4 DEF RpcSteps, RpcProvider, RpcHub, RpcSpawn, RpcReported, RpcGate, RpcFatalOpen, RpcLaunchFailed,
       RpcContinues, RpcSend, RpcTimer, RpcReads, RpcExits
  <1> QED  BY <1>1, <1>2, <1>3, <1>4 DEF Next, vars, base

\* The dialects take the steps of their own class alone.
LEMMA AgyKind == ASSUME TypeInv, Agy PROVE kind = "agy"
  <1>1. CASE AgyOpens
    <2>1. kind = "hermes" => Head(micro) \in AcpAnswer
      BY <1>1, Headless DEF AgyOpens, TypeInv, PipesTypeOK
    <2>2. kind \in Rpc => Head(micro) \in RpcAnswer
      BY <1>1, Headless DEF AgyOpens, TypeInv, PipesTypeOK
    <2> QED  BY <1>1, <2>1, <2>2, PlanType DEF AgyOpens, TypeInv, HubTypes, AcpAnswer, RpcAnswer, Rpc
  <1>2. CASE AgyProvider
    BY <1>2 DEF AgyProvider, AgyInits, AgyAnswers
  <1>3. CASE AgyHub /\ ~AgyOpens
    BY <1>3 DEF AgyHub, AgySpawn, AgyReported, AgyReportFails, AgyOpenFails, AgyPrompt, AgyFollowUp,
       AgyCancel, AgyReads, AgyExits
  <1> QED  BY <1>1, <1>2, <1>3 DEF Agy

LEMMA AcpKind == ASSUME Acp PROVE kind = "hermes"
  <1>1. CASE AcpProvider
    BY <1>1 DEF AcpProvider, AcpShakes, AcpAnswers, AcpAsks, AcpMisnames
  <1>2. CASE AcpHub
    BY <1>2 DEF AcpHub, AcpSpawn, AcpReported, AcpReportFails, AcpOpens, AcpOpenFails, AcpPrompt, AcpFollowUp,
       AcpCancel, AcpVerdict, AcpPermissionTimer, AcpStop, AcpChainedStop, AcpGuard, AcpReads, AcpExits
  <1> QED  BY <1>1, <1>2 DEF Acp

LEMMA RpcKind == ASSUME RpcSteps PROVE kind \in Rpc
  BY DEF RpcSteps, RpcProvider, RpcHub, RpcReady, RpcReplies, RpcBegins, RpcEnds, RpcGoesOn, RpcGarbage,
     RpcSpawn, RpcReported, RpcGate, RpcFatalOpen, RpcLaunchFailed, RpcContinues, RpcSend, RpcTimer,
     RpcReads, RpcExits, Rpc

LEMMA SoundKept == ASSUME Sound, [Next]_vars PROVE Sound'
  <1>1. plan' = plan /\ kind' = kind
    BY PlanStays DEF kind
  <1>2. TypeInv'
    BY NextTypes DEF Sound, ShakeInv
  <1>3. ASSUME kind \in Rpc PROVE ShakeInv'
    <2>1. TypeInv /\ ShakeInv
      BY <1>3 DEF Sound
    <2>2. CASE UNCHANGED vars
      BY <2>1, <2>2, ShakeStays DEF vars, base, launch, rpc, Shakes
    <2>3. CASE Shared
      BY <1>1, <2>1, <2>3, StopStepTypes, ShakeStays DEF Shared, launch, rpc, Shakes
    <2>4. CASE Agy \/ Acp
      BY <1>3, <2>1, <2>4, AgyKind, AcpKind DEF Rpc
    <2>5. CASE RpcSteps /\ RpcProvider
      BY <2>1, <2>5, ShakeStays DEF RpcProvider, Shakes
    <2>6. CASE RpcSteps /\ RpcHub
      BY <2>1, <2>6, HubShakes
    <2> QED  BY <2>2, <2>3, <2>4, <2>5, <2>6 DEF Next, RpcSteps
  <1> QED  BY <1>1, <1>2, <1>3 DEF Sound

LEMMA SoundInitially == Init => Sound
  <1> SUFFICES ASSUME Init PROVE Sound
    OBVIOUS
  <1>1. ShakeInv
    BY InitTypes, ShakeNumbers DEF Init, TransportInit, RpcInit, ShakeInv, Handshaking
  <1> QED  BY <1>1, InitTypes DEF Sound

LEMMA SoundAlways == Spec => []Sound
  BY SoundInitially, SoundKept, PTL DEF Spec

-----------------------------------------------------------------------------
(* The process, its exit and what a stop found.                            *)

Gone == leader = "none" \/ (leader = "dead" /\ ~helpers /\ observed)

ProcessInv ==
  /\ phase = "new" => leader = "none" /\ attempts = <<>>
  /\ leader = "none" => ~helpers
  /\ observed => leader = "dead"
  /\ ladder.at = "group" => observed
  /\ \A i \in DOMAIN attempts : attempts[i].result = "closed" => Gone

\* A kill beside stop() is one of a launch that failed, or of a broken stream.
KillInv == background # "none" => fatal \/ phase \in {"failing", "failed"}

\* What the steps of the dialects do to the process and to the stop.
Calm == UNCHANGED <<leader, helpers, observed, attempts, ladder>> /\ (phase' = "new" => phase = "new")

Spawns ==
  /\ phase = "new" /\ phase' # "new" /\ UNCHANGED <<observed, attempts, ladder>>
  /\ Launched \/ UNCHANGED <<leader, helpers>>

Exits == leader = "dead" /\ observed' = TRUE /\ UNCHANGED <<phase, leader, helpers, attempts, ladder>>

StopsItself == StopItself /\ phase # "new" /\ phase' # "new" /\ UNCHANGED observed

Touches == Calm \/ Spawns \/ Exits \/ StopsItself

LEMMA AgyTouches == ASSUME Agy PROVE Touches
  <1> USE DEF stopping, surface, launch, process
  <1>1. CASE AgySpawn
    BY <1>1 DEF AgySpawn, Touches, Spawns
  <1>2. CASE AgyExits
    BY <1>2 DEF AgyExits, Touches, Exits
  <1>3. CASE AgyProvider
    BY <1>3 DEF AgyProvider, Touches, Calm
  <1>4. CASE AgyReported \/ AgyReportFails \/ AgyPrompt \/ AgyFollowUp \/ AgyCancel
    BY <1>4 DEF AgyReported, AgyReportFails, AgyPrompt, AgyFollowUp, AgyCancel, Untouched, Touches, Calm
  <1>5. CASE AgyOpens \/ AgyOpenFails
    BY <1>5 DEF AgyOpens, AgyOpenFails, Touches, Calm, StopsItself
  <1>6. CASE AgyReads
    <2>1. phase # "new" /\ UNCHANGED <<phase, observed>>
      BY <1>6 DEF AgyReads
    <2>2. CASE UNCHANGED <<process, stopping>>
      BY <2>1, <2>2 DEF Touches, Calm
    <2>3. CASE StopItself
      BY <2>1, <2>3 DEF Touches, StopsItself
    <2> QED  BY <1>6, <2>2, <2>3 DEF AgyReads, AgyResult, AgyFatal
  <1> QED  BY <1>1, <1>2, <1>3, <1>4, <1>5, <1>6 DEF Agy, AgyHub

LEMMA AcpTouches == ASSUME Acp, ~AcpStop, ~AcpChainedStop PROVE Touches
  <1> USE DEF stopping, surface, launch, process, base
  <1>1. CASE AcpSpawn
    BY <1>1 DEF AcpSpawn, Touches, Spawns
  <1>2. CASE AcpExits
    BY <1>2 DEF AcpExits, Touches, Exits
  <1>3. CASE AcpProvider
    BY <1>3 DEF AcpProvider, Touches, Calm
  <1>4. CASE AcpReported \/ AcpReportFails \/ AcpPrompt \/ AcpFollowUp \/ AcpCancel \/ AcpVerdict \/ AcpPermissionTimer
    BY <1>4 DEF AcpReported, AcpReportFails, AcpPrompt, AcpFollowUp, AcpCancel, AcpVerdict, AcpPermissionTimer,
       AcpRest, Untouched, Touches, Calm
  <1>5. CASE AcpOpens \/ AcpOpenFails
    BY <1>5 DEF AcpOpens, AcpOpenFails, AcpFailOpen, AcpStopItself, Touches, Calm, StopsItself
  <1>6. CASE AcpReads \/ AcpGuard
    <2>1. phase # "new" /\ UNCHANGED <<phase, observed>>
      BY <1>6 DEF AcpReads, AcpGuard
    <2>2. CASE UNCHANGED <<process, stopping>>
      BY <2>1, <2>2 DEF Touches, Calm
    <2>3. CASE StopItself
      BY <2>1, <2>3 DEF Touches, StopsItself
    <2>4. CASE AcpReads
      BY <2>2, <2>3, <2>4 DEF AcpReads, AcpFatal, AcpStopItself, Quiet
    <2>5. CASE AcpGuard
      BY <2>2, <2>3, <2>5 DEF AcpGuard, AcpFatal, AcpStopItself
    <2> QED  BY <1>6, <2>4, <2>5
  <1> QED  BY <1>1, <1>2, <1>3, <1>4, <1>5, <1>6 DEF Acp, AcpHub

LEMMA RpcTouches == ASSUME RpcSteps PROVE Touches
  <1> USE DEF stopping, surface, launch, process
  <1>1. CASE RpcSpawn
    BY <1>1 DEF RpcSpawn, Touches, Spawns
  <1>2. CASE RpcExits
    BY <1>2 DEF RpcExits, Touches, Exits
  <1>3. CASE RpcProvider
    BY <1>3 DEF RpcProvider, Touches, Calm
  <1>4. CASE RpcReported \/ RpcGate \/ RpcFatalOpen \/ RpcLaunchFailed \/ RpcSend \/ RpcTimer \/ RpcReads
    BY <1>4 DEF RpcReported, RpcGate, RpcFatalOpen, RpcLaunchFailed, RpcFailLaunch, RpcSend, RpcTimer, RpcReads,
       Touches, Calm
  <1>5. CASE RpcContinues
    BY <1>5 DEF RpcContinues, RpcShakes, RpcFailLaunch, RpcSettles, Touches, Calm
  <1> QED  BY <1>1, <1>2, <1>3, <1>4, <1>5 DEF RpcSteps, RpcHub

\* None of them takes a proof away.
LEMMA TouchesKeep == ASSUME StopTypes, ProcessInv, Touches PROVE ProcessInv'
  <1> USE DEF ProcessInv, Gone
  <1>1. CASE Calm
    BY <1>1 DEF Calm
  <1>2. CASE Spawns
    BY <1>2 DEF Spawns, Launched
  <1>3. CASE Exits
    BY <1>3 DEF Exits
  <1>4. CASE StopsItself
    <2>1. UNCHANGED <<leader, helpers, observed>> /\ phase # "new" /\ phase' # "new"
      BY <1>4 DEF StopsItself, StopItself, SignalGroup, process
    <2>2. CASE attempts = <<>>
      <3>1. attempts' = <<Attempt("terminate", FALSE)>> /\ (ladder'.at = "group" => observed)
        <4>1. CASE observed
          BY <1>4, <2>2, <4>1 DEF StopsItself, StopItself
        <4>2. CASE ~observed
          <5>1. attempts' = <<Attempt("terminate", FALSE)>> /\ ladder' = [at |-> "wait", step |-> 1]
            BY <1>4, <2>2, <4>2 DEF StopsItself, StopItself
          <5> QED  BY <5>1
        <4> QED  BY <4>1, <4>2
      <3>2. \A i \in DOMAIN attempts' : attempts'[i].result = "none"
        BY <3>1 DEF Attempt
      <3> QED  BY <2>1, <3>1, <3>2
    <2>3. CASE attempts # <<>>
      BY <1>4, <2>1, <2>3 DEF StopsItself, StopItself
    <2> QED  BY <2>2, <2>3
  <1> QED  BY <1>1, <1>2, <1>3, <1>4 DEF Touches

LEMMA ShutdownKeeps ==
  ASSUME ProcessInv, phase # "new", phase' # "new", NEW mode, Shutdown(mode), UNCHANGED observed,
         \A i \in DOMAIN attempts' : attempts'[i].result = "closed" =>
            i \in DOMAIN attempts /\ attempts[i].result = "closed"
  PROVE  ProcessInv'
  <1>1. UNCHANGED <<leader, helpers>>
    BY DEF Shutdown, process
  <1>2. ladder'.at = "group" => observed
    <2>1. CASE observed
      BY <2>1
    <2>2. CASE ~observed
      <3>1. ladder' = [at |-> "wait", step |-> 1]
        BY <2>2 DEF Shutdown
      <3> QED  BY <3>1
    <2> QED  BY <2>1, <2>2
  <1> QED  BY <1>1, <1>2 DEF ProcessInv, Gone

LEMMA StopCallsKeep ==
  ASSUME TypeInv, ProcessInv,
         \/ \E mode \in Modes : FirstStop(mode) \/ LaterStop(mode)
         \/ \E i \in DOMAIN attempts : ChainedStop(i)
  PROVE  ProcessInv'
  <1> USE DEF launch, surface, process
  <1>1. attempts \in Seq(Attempts)
    BY DEF TypeInv, StopTypes
  <1>2. ASSUME NEW mode \in Modes, FirstStop(mode) PROVE ProcessInv'
    <2>1. attempts = <<>> /\ phase # "new" /\ UNCHANGED <<phase, observed>>
      BY <1>2 DEF FirstStop, Callable
    <2>2. CASE leader = "none"
      BY <1>2, <2>1, <2>2 DEF FirstStop, ProcessInv, Gone
    <2>3. CASE leader # "none"
      <3>1. Shutdown(mode) /\ attempts' = <<Attempt(mode, TRUE)>>
        BY <1>2, <2>3 DEF FirstStop
      <3>2. \A i \in DOMAIN attempts' : attempts'[i].result = "none"
        BY <3>1 DEF Attempt
      <3> QED  BY <2>1, <3>1, <3>2, ShutdownKeeps
    <2> QED  BY <2>2, <2>3
  <1>3. ASSUME NEW mode \in Modes, LaterStop(mode) PROVE ProcessInv'
    <2>1. /\ phase # "new" /\ UNCHANGED <<phase, observed, leader, helpers, ladder>>
          /\ attempts' = Append(attempts, Attempt("terminate", TRUE))
      BY <1>3 DEF LaterStop, Callable
    <2>2. \A i \in DOMAIN attempts' : attempts'[i].result = "closed" =>
            i \in DOMAIN attempts /\ attempts[i].result = "closed"
      <3>1. Attempt("terminate", TRUE).result = "none" /\ Attempt("terminate", TRUE) \in Attempts
        BY DEF Attempt, Attempts, Modes
      <3>3. /\ DOMAIN Append(attempts, Attempt("terminate", TRUE)) = 1 .. (Len(attempts) + 1)
            /\ \A i \in 1 .. Len(attempts) : Append(attempts, Attempt("terminate", TRUE))[i] = attempts[i]
            /\ Append(attempts, Attempt("terminate", TRUE))[Len(attempts) + 1] = Attempt("terminate", TRUE)
        <4>1. \A e \in Attempts : /\ DOMAIN Append(attempts, e) = 1 .. (Len(attempts) + 1)
                                  /\ \A i \in 1 .. Len(attempts) : Append(attempts, e)[i] = attempts[i]
                                  /\ Append(attempts, e)[Len(attempts) + 1] = e
          BY <1>1
        <4> QED  BY <3>1, <4>1
      <3>4. DOMAIN attempts = 1 .. Len(attempts) /\ Len(attempts) \in Nat
        BY <1>1
      <3> QED
        <4> SUFFICES ASSUME NEW i \in DOMAIN attempts', attempts'[i].result = "closed"
                     PROVE  i \in DOMAIN attempts /\ attempts[i].result = "closed"
          OBVIOUS
        <4>1. i \in 1 .. (Len(attempts) + 1) /\ i # Len(attempts) + 1
          BY <2>1, <3>1, <3>3, <3>4
        <4> QED  BY <2>1, <3>3, <3>4, <4>1
    <2> QED  BY <2>1, <2>2 DEF ProcessInv, Gone
  <1>4. ASSUME NEW i \in DOMAIN attempts, ChainedStop(i) PROVE ProcessInv'
    <2>1. attempts # <<>> /\ phase # "new" /\ i - 1 \in DOMAIN attempts /\ UNCHANGED <<phase, observed>>
      BY <1>1, <1>4 DEF ChainedStop, ProcessInv
    <2>2. CASE attempts[i - 1].result = "closed"
      <3>1. /\ attempts' = [attempts EXCEPT ![i].result = "closed"] /\ Gone
            /\ UNCHANGED <<ladder, leader, helpers>>
        BY <1>4, <2>1, <2>2 DEF ChainedStop, ProcessInv
      <3> QED  BY <2>1, <3>1 DEF ProcessInv, Gone
    <2>3. CASE attempts[i - 1].result # "closed"
      BY <1>4, <2>1, <2>3, ShutdownKeeps DEF ChainedStop
    <2> QED  BY <2>2, <2>3
  <1> QED  BY <1>2, <1>3, <1>4

\* A settled attempt is a closed one only where there is proof.
LEMMA SettleKeeps ==
  ASSUME ProcessInv, StopTypes, NEW i \in DOMAIN attempts, NEW result \in {"closed", "orphaned"}, Settle(i, result),
         result = "closed" => Gone, UNCHANGED <<phase, observed, leader, helpers>>
  PROVE  ProcessInv'
  <1>1. /\ attempts \in Seq(Attempts) /\ attempts' = [attempts EXCEPT ![i].result = result]
        /\ ladder'.at = "idle"
    BY DEF Settle, Resting, StopTypes
  <1>2. /\ DOMAIN attempts' = DOMAIN attempts /\ attempts[i] \in Attempts
        /\ \A j \in DOMAIN attempts : j # i => attempts'[j] = attempts[j]
        /\ attempts'[i].result = result
    <2>1. attempts[i] \in Attempts
      BY <1>1
    <2>2. attempts' = [attempts EXCEPT ![i] = [attempts[i] EXCEPT !.result = result]]
      BY <1>1
    <2>3. [attempts[i] EXCEPT !.result = result].result = result
      BY <2>1 DEF Attempts
    <2> QED  BY <1>1, <2>1, <2>2, <2>3
  <1>3. attempts = <<>> => attempts' = <<>>
    BY <1>1
  <1>4. \A j \in DOMAIN attempts' : attempts'[j].result = "closed" => Gone
    BY <1>2 DEF ProcessInv
  <1>5. Gone' = Gone
    BY DEF Gone
  <1> QED  BY <1>1, <1>3, <1>4, <1>5 DEF ProcessInv

LEMMA LadderKeeps == ASSUME TypeInv, ProcessInv, LadderStep PROVE ProcessInv'
  <1> USE DEF launch, surface, process, LadderRest
  <1>1. PICK i \in DOMAIN attempts :
          LadderTimer(i) \/ LadderExit(i) \/ LadderProven(i) \/ LadderGroup(i)
    BY DEF LadderStep
  <1>2. StopTypes /\ attempts # <<>> /\ phase # "new" /\ UNCHANGED <<phase, observed>>
    BY <1>1 DEF TypeInv, ProcessInv, LadderTimer, LadderExit, LadderProven, LadderGroup, StopTypes
  <1>3. CASE LadderExit(i)
    BY <1>2, <1>3 DEF LadderExit, ProcessInv, Gone
  <1>4. CASE LadderProven(i)
    <2>1. Settle(i, "closed") /\ Gone /\ UNCHANGED <<leader, helpers>>
      BY <1>4 DEF LadderProven, GroupAlive, Gone, ProcessInv
    <2> QED  BY <1>2, <2>1, SettleKeeps
  <1>5. CASE LadderTimer(i)
    <2>1. UNCHANGED <<leader, helpers>>
      BY <1>5 DEF LadderTimer, SignalGroup
    <2>2. CASE ladder.step < Len(Rungs(attempts[i].mode))
      <3>1. UNCHANGED attempts /\ ladder' = [ladder EXCEPT !.step = @ + 1]
        BY <1>5, <2>2 DEF LadderTimer
      <3>2. ladder'.at = ladder.at
        BY <1>2, <3>1 DEF StopTypes, Ladders
      <3> QED  BY <1>2, <2>1, <3>1, <3>2 DEF ProcessInv, Gone
    <2>3. CASE ~(ladder.step < Len(Rungs(attempts[i].mode)))
      BY <1>2, <1>5, <2>1, <2>3, SettleKeeps DEF LadderTimer
    <2> QED  BY <2>2, <2>3
  <1>6. CASE LadderGroup(i)
    <2>1. UNCHANGED <<leader, helpers>>
      BY <1>6 DEF LadderGroup, SignalGroup
    <2>2. CASE ladder.step < Len(GroupRungs(attempts[i].mode))
      <3>1. UNCHANGED attempts /\ ladder' = [ladder EXCEPT !.step = @ + 1]
        BY <1>6, <2>2 DEF LadderGroup
      <3>2. ladder'.at = ladder.at
        BY <1>2, <3>1 DEF StopTypes, Ladders
      <3> QED  BY <1>2, <2>1, <3>1, <3>2 DEF ProcessInv, Gone
    <2>3. CASE ~(ladder.step < Len(GroupRungs(attempts[i].mode)))
      BY <1>2, <1>6, <2>1, <2>3, SettleKeeps DEF LadderGroup
    <2> QED  BY <2>2, <2>3
  <1> QED  BY <1>1, <1>3, <1>4, <1>5, <1>6

LEMMA ProcessKept == ASSUME TypeInv, ProcessInv, [Next]_vars PROVE ProcessInv'
  <1> USE DEF launch, surface, stopping, process
  <1>1. StopTypes
    BY DEF TypeInv
  <1>2. CASE UNCHANGED vars
    BY <1>2 DEF vars, base, ProcessInv, Gone
  <1>3. CASE ProcessStep
    BY <1>1, <1>3 DEF ProcessStep, LeaderExits, HelperExits, KillLands, GroupAlive, ProcessInv, Gone, StopTypes
  <1>4. CASE BackgroundKill
    BY <1>4 DEF BackgroundKill, BackgroundTimer, BackgroundGroup, SignalGroup, ProcessInv, Gone
  <1>5. CASE Shared
    BY <1>3, <1>4, <1>5, StopCallsKeep, LadderKeeps DEF Shared
  <1>6. CASE Acp
    <2>1. CASE AcpStop \/ AcpChainedStop
      BY <2>1, StopCallsKeep DEF AcpStop, AcpChainedStop
    <2> QED  BY <1>1, <1>6, <2>1, AcpTouches, TouchesKeep
  <1> QED  BY <1>1, <1>2, <1>5, <1>6, AgyTouches, RpcTouches, TouchesKeep DEF Next

(***************************************************************************)
(* A stop that reports closed has observed the exit of the leader and      *)
(* found no member of its group, whatever the order of exits, timers and   *)
(* calls: for any number of attempts of stop(), in every class.            *)
(***************************************************************************)
THEOREM ClosedProvenAlways == Spec => []ClosedProven
  <1>1. Init => ProcessInv
    BY DEF Init, TransportInit, Resting, ProcessInv
  <1>2. Sound /\ ProcessInv /\ [Next]_vars => ProcessInv'
    BY ProcessKept DEF Sound
  <1>3. Sound /\ ProcessInv => ClosedProven
    BY TypesAgree DEF Sound, TypeInv, ProcessInv, Gone, ClosedProven
  <1> QED  BY <1>1, <1>2, <1>3, SoundAlways, PTL DEF Spec

-----------------------------------------------------------------------------
(* Who may kill.                                                           *)

\* A graceful ladder has no SIGKILL.
LEMMA GracefulRungs ==
  \A mode, k : mode # "terminate" /\ (mode \in Modes)
    => /\ k \in 1 .. Len(Rungs(mode)) => Rungs(mode)[k] # "KILL"
       /\ k \in 1 .. Len(GroupRungs(mode)) => GroupRungs(mode)[k] # "KILL"
  <1> SUFFICES ASSUME NEW mode, NEW k, mode = "graceful"
               PROVE  /\ k \in 1 .. Len(Rungs(mode)) => Rungs(mode)[k] # "KILL"
                      /\ k \in 1 .. Len(GroupRungs(mode)) => GroupRungs(mode)[k] # "KILL"
    BY DEF Modes
  <1>1. AgyRungs(mode) = <<"INT", "TERM">> /\ AcpRungs(mode) = <<"TERM">> /\ GroupRungs(mode) = <<"none">>
    BY DEF AgyRungs, AcpRungs, GroupRungs
  <1>2. RpcRungs(mode) = <<"none", "TERM">>
    BY DEF RpcRungs
  <1>3. Rungs(mode) \in {<<"INT", "TERM">>, <<"TERM">>, <<"none", "TERM">>}
    BY <1>1, <1>2 DEF Rungs
  <1> QED  BY <1>1, <1>3

\* No dialect step sends a SIGKILL, and a graceful stop neither.
LEMMA WhoKills ==
  ASSUME TypeInv, Next, killing' # killing
  PROVE  \/ \E i \in DOMAIN attempts : attempts[i].mode = "terminate"
         \/ background # "none"
  <1> USE DEF stopping, surface, launch, process, base
  <1>1. ASSUME StopItself PROVE killing' = killing
    <2>1. killing \in BOOLEAN
      BY DEF TypeInv, StopTypes
    <2> QED  BY <1>1, <2>1 DEF StopItself, SignalGroup
  <1>2. killing' = killing \/ LadderStep \/ BackgroundKill
    <2>1. ASSUME \/ \E mode \in Modes : FirstStop(mode) \/ LaterStop(mode)
                 \/ \E i \in DOMAIN attempts : ChainedStop(i)
          PROVE  killing' = killing
      BY <2>1 DEF FirstStop, LaterStop, ChainedStop, Shutdown
    <2>2. CASE Shared
      <3>1. ProcessStep => killing' = killing
        BY DEF ProcessStep, LeaderExits, HelperExits, KillLands
      <3> QED  BY <2>1, <2>2, <3>1 DEF Shared
    <2>3. CASE Agy
      <3>1. CASE AgyProvider
        BY <3>1 DEF AgyProvider
      <3>2. CASE \/ AgySpawn \/ AgyReported \/ AgyReportFails \/ AgyOpens \/ AgyOpenFails
                 \/ AgyPrompt \/ AgyFollowUp \/ AgyCancel \/ AgyExits
        BY <1>1, <3>2 DEF AgySpawn, AgyReported, AgyReportFails, AgyOpens, AgyOpenFails, AgyPrompt,
           AgyFollowUp, AgyCancel, AgyExits
      <3>3. CASE AgyReads
        BY <1>1, <3>3 DEF AgyReads, AgyResult, AgyFatal
      <3> QED  BY <2>3, <3>1, <3>2, <3>3 DEF Agy, AgyHub
    <2>4. CASE Acp
      <3>1. CASE AcpProvider
        BY <3>1 DEF AcpProvider
      <3>2. CASE \/ AcpSpawn \/ AcpReported \/ AcpReportFails \/ AcpOpens \/ AcpOpenFails \/ AcpPrompt
                 \/ AcpFollowUp \/ AcpCancel \/ AcpVerdict \/ AcpPermissionTimer \/ AcpExits
        BY <1>1, <3>2 DEF AcpSpawn, AcpReported, AcpReportFails, AcpOpens, AcpOpenFails, AcpFailOpen, AcpStopItself,
           AcpPrompt, AcpFollowUp, AcpCancel, AcpVerdict, AcpPermissionTimer, AcpExits, AcpRest
      <3>3. CASE AcpStop \/ AcpChainedStop
        BY <2>1, <3>3 DEF AcpStop, AcpChainedStop
      <3>4. CASE AcpReads \/ AcpGuard
        BY <1>1, <3>4 DEF AcpReads, AcpGuard, AcpFatal, AcpStopItself, Quiet
      <3> QED  BY <2>4, <3>1, <3>2, <3>3, <3>4 DEF Acp, AcpHub
    <2>5. CASE RpcSteps
      BY <2>5 DEF RpcSteps, RpcProvider, RpcHub, RpcSpawn, RpcReported, RpcGate, RpcFatalOpen, RpcLaunchFailed,
         RpcContinues, RpcSend, RpcTimer, RpcReads, RpcExits
    <2> QED  BY <2>2, <2>3, <2>4, <2>5 DEF Next
  <1>3. CASE BackgroundKill
    BY <1>3 DEF BackgroundKill, BackgroundTimer, BackgroundGroup
  <1>4. CASE LadderStep
    <2>1. PICK i \in DOMAIN attempts :
            LadderTimer(i) \/ LadderExit(i) \/ LadderProven(i) \/ LadderGroup(i)
      BY <1>4 DEF LadderStep
    <2>2. killing \in BOOLEAN /\ ladder \in Ladders /\ attempts[i] \in Attempts
      BY DEF TypeInv, StopTypes
    <2>3. PICK rungs \in {Rungs(attempts[i].mode), GroupRungs(attempts[i].mode)} :
            ladder.step < Len(rungs) /\ SignalGroup(rungs[ladder.step + 1])
      BY <2>1 DEF LadderTimer, LadderExit, LadderProven, LadderGroup
    <2>4. rungs[ladder.step + 1] = "KILL"
      BY <2>2, <2>3 DEF SignalGroup
    <2>5. Len(rungs) \in Nat /\ ladder.step + 1 \in 1 .. Len(rungs)
      BY <2>2, <2>3, RungsType DEF Ladders
    <2>6. attempts[i].mode \in Modes
      BY <2>2 DEF Attempts
    <2> QED  BY <2>3, <2>4, <2>5, <2>6, GracefulRungs
  <1> QED  BY <1>2, <1>3, <1>4

\* A launch that failed has failed, and a broken stream stays broken.
GivesUp == fatal \/ phase \in {"failing", "failed"}

LEMMA KillKept == ASSUME TypeInv, KillInv, [Next]_vars PROVE KillInv'
  <1> USE DEF stopping, surface, launch, process, base
  <1>1. ASSUME GivesUp => GivesUp', UNCHANGED background PROVE KillInv'
    BY <1>1 DEF KillInv, GivesUp
  <1>2. ASSUME UNCHANGED <<fatal, phase, background>> PROVE KillInv'
    BY <1>2 DEF KillInv
  <1>3. CASE UNCHANGED vars
    BY <1>2, <1>3 DEF vars
  <1>4. ASSUME \/ \E mode \in Modes : FirstStop(mode) \/ LaterStop(mode)
               \/ \E i \in DOMAIN attempts : ChainedStop(i)
        PROVE  UNCHANGED <<fatal, phase, background>>
    BY <1>4 DEF FirstStop, LaterStop, ChainedStop
  <1>5. CASE Shared
    <2>1. ProcessStep \/ LadderStep => UNCHANGED <<fatal, phase, background>>
      BY DEF ProcessStep, LadderStep, LadderTimer, LadderExit, LadderProven, LadderGroup, LadderRest
    <2>2. BackgroundKill => background # "none" /\ UNCHANGED <<fatal, phase>>
      BY DEF BackgroundKill, BackgroundTimer, BackgroundGroup
    <2>3. CASE BackgroundKill
      BY <2>2, <2>3 DEF KillInv
    <2> QED  BY <1>2, <1>4, <1>5, <2>1, <2>3 DEF Shared
  <1>6. CASE Agy
    <2>1. CASE AgyReportFails
      BY <2>1 DEF AgyReportFails, KillInv
    <2>2. CASE AgyProvider \/ AgyPrompt \/ AgyFollowUp \/ AgyCancel \/ AgyExits
      BY <1>2, <2>2 DEF AgyProvider, AgyPrompt, AgyFollowUp, AgyCancel, AgyExits
    <2>3. CASE AgySpawn \/ AgyReported
      BY <2>3 DEF AgySpawn, AgyReported, KillInv
    <2>4. CASE AgyOpens \/ AgyOpenFails
      BY <2>4 DEF AgyOpens, AgyOpenFails, StopItself, KillInv
    <2>5. CASE AgyReads
      BY <2>5 DEF AgyReads, AgyResult, AgyFatal, StopItself, KillInv
    <2> QED  BY <1>6, <2>1, <2>2, <2>3, <2>4, <2>5 DEF Agy, AgyHub
  <1>7. CASE Acp
    <2>1. CASE AcpReportFails
      BY <2>1 DEF AcpReportFails, KillInv
    <2>2. CASE AcpProvider \/ AcpPrompt \/ AcpFollowUp \/ AcpCancel \/ AcpVerdict \/ AcpPermissionTimer \/ AcpExits
      BY <1>2, <2>2 DEF AcpProvider, AcpPrompt, AcpFollowUp, AcpCancel, AcpVerdict, AcpPermissionTimer, AcpExits, AcpRest
    <2>3. CASE AcpSpawn \/ AcpReported
      BY <2>3 DEF AcpSpawn, AcpReported, KillInv
    <2>4. CASE AcpOpens \/ AcpOpenFails
      BY <2>4 DEF AcpOpens, AcpOpenFails, AcpFailOpen, AcpStopItself, StopItself, KillInv
    <2>5. CASE AcpReads \/ AcpGuard
      BY <2>5 DEF AcpReads, AcpGuard, AcpFatal, AcpStopItself, StopItself, Quiet, KillInv
    <2>6. CASE AcpStop \/ AcpChainedStop
      BY <1>2, <1>4, <2>6 DEF AcpStop, AcpChainedStop
    <2> QED  BY <1>7, <2>1, <2>2, <2>3, <2>4, <2>5, <2>6 DEF Acp, AcpHub
  <1>8. CASE RpcSteps
    <2>1. CASE RpcProvider \/ RpcSend \/ RpcTimer \/ RpcExits
      BY <1>2, <2>1 DEF RpcProvider, RpcSend, RpcTimer, RpcExits
    <2>2. CASE RpcSpawn \/ RpcReported \/ RpcGate \/ RpcFatalOpen \/ RpcLaunchFailed
      BY <2>2 DEF RpcSpawn, RpcReported, RpcGate, RpcFatalOpen, RpcLaunchFailed, RpcFailLaunch, KillInv
    <2>3. CASE RpcContinues
      BY <2>3 DEF RpcContinues, RpcShakes, RpcFailLaunch, RpcSettles, KillInv
    <2>4. CASE RpcReads
      <3>1. phase' = phase /\ (UNCHANGED <<fatal, background>> \/ fatal')
        BY <2>4 DEF RpcReads, RpcDispatch, FailProtocol
      <3> QED  BY <3>1 DEF KillInv
    <2> QED  BY <1>8, <2>1, <2>2, <2>3, <2>4 DEF RpcSteps, RpcHub
  <1> QED  BY <1>3, <1>5, <1>6, <1>7, <1>8 DEF Next

(***************************************************************************)
(* A SIGKILL goes out under a terminate call, or from a transport that     *)
(* gives up on its launch or on its stream: a graceful stop never forces.  *)
(***************************************************************************)
THEOREM KillIsAuthorised == Spec => KillAuthorised
  <1>1. Init => KillInv
    BY DEF Init, TransportInit, KillInv
  <1>2. Sound /\ KillInv /\ [Next]_vars => KillInv'
    BY KillKept DEF Sound
  <1>3. Sound /\ KillInv /\ [Next]_vars =>
          [killing' # killing =>
             \/ \E i \in DOMAIN attempts : attempts[i].mode = "terminate"
             \/ fatal \/ phase \in {"failing", "failed"}]_vars
    <2>1. ASSUME Sound, KillInv, Next, killing' # killing
          PROVE  \/ \E i \in DOMAIN attempts : attempts[i].mode = "terminate"
                 \/ fatal \/ phase \in {"failing", "failed"}
      BY <2>1, WhoKills DEF Sound, KillInv
    <2> QED  BY <2>1
  <1> QED  BY <1>1, <1>2, <1>3, SoundAlways, PTL DEF Spec, KillAuthorised

-----------------------------------------------------------------------------
(* The session of a resume.                                                *)

Items(s) == {s[i] : i \in DOMAIN s}

\* What becomes of the items of a sequence.
LEMMA ItemsOf ==
  ASSUME NEW S, NEW s \in Seq(S)
  PROVE  /\ Items(s) \subseteq S
         /\ s # <<>> => Head(s) \in Items(s) /\ Items(Tail(s)) \subseteq Items(s)
         /\ \A e \in S : Items(Append(s, e)) = Items(s) \cup {e}
         /\ \A i \in DOMAIN s : Items(SubSeq(s, 1, i - 1)) \subseteq Items(s)
         /\ Items(<<>>) = {}
  <1>1. Items(s) \subseteq S
    BY DEF Items
  <1>2. s # <<>> => Head(s) \in Items(s) /\ Items(Tail(s)) \subseteq Items(s)
    <2> SUFFICES ASSUME s # <<>> PROVE Head(s) \in Items(s) /\ Items(Tail(s)) \subseteq Items(s)
      OBVIOUS
    <2>1. /\ Head(s) = s[1] /\ 1 \in DOMAIN s /\ DOMAIN Tail(s) = 1 .. Len(s) - 1 /\ DOMAIN s = 1 .. Len(s)
          /\ Len(s) \in Nat /\ \A i \in 1 .. Len(s) - 1 : Tail(s)[i] = s[i + 1]
      BY Headless
    <2>2. \A i \in DOMAIN Tail(s) : i + 1 \in DOMAIN s /\ Tail(s)[i] = s[i + 1]
      BY <2>1
    <2> QED  BY <2>1, <2>2 DEF Items
  <1>3. ASSUME NEW e \in S PROVE Items(Append(s, e)) = Items(s) \cup {e}
    <2>1. /\ DOMAIN Append(s, e) = 1 .. Len(s) + 1 /\ DOMAIN s = 1 .. Len(s) /\ Len(s) \in Nat
          /\ \A i \in 1 .. Len(s) : Append(s, e)[i] = s[i]
          /\ Append(s, e)[Len(s) + 1] = e
      BY Appended
    <2>2. \A i \in DOMAIN Append(s, e) : (i \in DOMAIN s /\ Append(s, e)[i] = s[i]) \/ Append(s, e)[i] = e
      BY <2>1
    <2>3. /\ Len(s) + 1 \in DOMAIN Append(s, e)
          /\ \A i \in DOMAIN s : i \in DOMAIN Append(s, e)
      BY <2>1
    <2> QED  BY <2>1, <2>2, <2>3 DEF Items
  <1>4. ASSUME NEW i \in DOMAIN s PROVE Items(SubSeq(s, 1, i - 1)) \subseteq Items(s)
    <2>1. \A j \in DOMAIN SubSeq(s, 1, i - 1) : j \in DOMAIN s /\ SubSeq(s, 1, i - 1)[j] = s[j]
      OBVIOUS
    <2> QED  BY <2>1 DEF Items
  <1>5. Items(<<>>) = {}
    BY DEF Items
  <1> QED  BY <1>1, <1>2, <1>3, <1>4, <1>5

ResumeInv ==
  /\ kind = "agy" => /\ \A m \in Items(out) : m.type = "init" => m.of = session
                     /\ \A m \in Items(micro) : m.of = session
  /\ kind = "hermes" => /\ session \in {"none", IF wants THEN "wanted" ELSE "fresh"}
                        /\ \A m \in Items(out) \cup Items(micro) :
                              m.type = "session" /\ m.of = "ok" => session # "none"
  /\ kind \in Rpc => /\ \A m \in Items(out) : m.type = "response" /\ m.of = "wanted" => session = "wanted"
                     /\ \A m \in Items(micro) : m.of = "wanted" => session = "wanted"
  /\ ResumeNeverFresh

\* What a continuation was told came from the provider.
Told(m) ==
  \/ m \in Items(micro)
  \/ kind = "agy" /\ m \in Items(out) /\ m.type = "init"
  \/ kind = "hermes" /\ m \in Items(out)
  \/ kind \in Rpc /\ (m.of = "wanted" => \E o \in Items(out) : o.type = "response" /\ o.of = "wanted")

LEMMA ResumeCalm ==
  ASSUME ResumeInv, TypeInv, UNCHANGED <<plan, session>>, phase' = "open" => phase = "open",
         \A m \in Items(out') : m \in Items(out) \/ m.type \notin {"init", "session", "response"},
         \A m \in Items(micro') : Told(m)
  PROVE  ResumeInv'
  <1> USE DEF ResumeInv
  <1>1. UNCHANGED <<kind, wants>> /\ kind \in {"agy", "hermes"} \cup Rpc
    BY PlanType DEF kind, wants, TypeInv, HubTypes, Rpc
  <1>2. CASE kind = "agy"
    BY <1>1, <1>2 DEF Told, ResumeNeverFresh, Rpc
  <1>3. CASE kind = "hermes"
    BY <1>1, <1>3 DEF Told, ResumeNeverFresh, Rpc
  <1>4. CASE kind \in Rpc
    BY <1>1, <1>4 DEF Told, ResumeNeverFresh, Rpc
  <1> QED  BY <1>1, <1>2, <1>3, <1>4

LEMMA AgyResumes == ASSUME TypeInv, ResumeInv, Agy PROVE ResumeInv'
  <1> USE DEF stopping, surface, launch, pipes, process
  <1>1. kind = "agy" /\ kind \notin Rpc /\ out \in Seq(AgyLine) /\ micro \in Seq(AgyInit)
        /\ UNCHANGED <<plan, kind, wants>>
    BY AgyKind, PlanStays DEF TypeInv, PipesTypeOK, Next, Rpc, kind, wants
  <1>2. \A m \in Items(micro) : Told(m)
    BY DEF Told
  <1>3. ASSUME UNCHANGED <<session, out, micro>>, phase' = "open" => phase = "open" PROVE ResumeInv'
    BY <1>1, <1>2, <1>3, ResumeCalm
  <1>4. ASSUME NEW line \in AgyLine, Emits(line)
        PROVE  out' = Append(out, line) /\ Items(out') = Items(out) \cup {line}
    BY <1>1, <1>4, ItemsOf DEF Emits
  <1>5. CASE AgyProvider
    <2>1. UNCHANGED <<phase, micro>>
      BY <1>5 DEF AgyProvider
    <2>2. CASE AgyInits
      <3>1. session = "none" /\ Items(micro) \subseteq AgyInit /\ Items(out) \subseteq AgyLine
        BY <1>1, <2>2, ItemsOf DEF AgyInits
      <3>2. PICK conversation \in {"wanted", "other", "fresh"} :
              Emits([type |-> "init", of |-> conversation]) /\ session' = conversation
              /\ (wants => conversation \in {"wanted", "other"})
        BY <2>2 DEF AgyInits
      <3>3. [type |-> "init", of |-> conversation] \in AgyLine
        BY DEF AgyLine, AgyInit
      <3>4. Items(out') = Items(out) \cup {[type |-> "init", of |-> conversation]}
        BY <1>4, <3>2, <3>3
      <3>5. \A m \in Items(out) : m.type # "init"
        BY <1>1, <3>1 DEF ResumeInv, AgyLine, AgyInit
      <3>6. Items(micro) = {}
        BY <1>1, <3>1 DEF ResumeInv, AgyInit
      <3>7. ~(phase = "open" /\ wants)
        BY <3>1 DEF ResumeInv, ResumeNeverFresh
      <3> QED  BY <1>1, <2>1, <3>2, <3>4, <3>5, <3>6, <3>7 DEF ResumeInv, ResumeNeverFresh
    <2>3. CASE TakesText
      BY <1>3, <2>1, <2>3 DEF TakesText
    <2>4. CASE AgyAnswers \/ EmitsGarbage
      <3>1. PICK line \in AgyLine : Emits(line) /\ line.type \in {"result", "garbage"} /\ session' = session
        BY <2>4 DEF AgyAnswers, EmitsGarbage, AgyLine
      <3>2. \A m \in Items(out') : m \in Items(out) \/ m.type \notin {"init", "session", "response"}
        BY <1>4, <3>1
      <3> QED  BY <1>1, <1>2, <2>1, <3>1, <3>2, ResumeCalm
    <2> QED  BY <1>5, <2>2, <2>3, <2>4 DEF AgyProvider
  <1>6. CASE AgySpawn \/ AgyReported \/ AgyOpenFails \/ AgyPrompt \/ AgyFollowUp \/ AgyCancel \/ AgyExits
    BY <1>3, <1>6 DEF AgySpawn, AgyReported, AgyOpenFails, AgyPrompt, AgyFollowUp, AgyCancel, AgyExits
  <1>7. CASE AgyReportFails
    <2>1. Items(micro') = {} /\ UNCHANGED <<session, out>> /\ phase' = "failed"
      BY <1>7 DEF AgyReportFails, Items
    <2> QED  BY <1>1, <2>1, ResumeCalm
  <1>8. CASE AgyOpens
    <2>1. /\ Head(micro) \in Items(micro) /\ Items(micro') \subseteq Items(micro) /\ UNCHANGED <<session, out>>
          /\ phase' = "open" /\ wants => Head(micro).of = "wanted"
      BY <1>1, <1>8, ItemsOf DEF AgyOpens
    <2> QED  BY <1>1, <2>1 DEF ResumeInv, ResumeNeverFresh
  <1>9. CASE AgyReads
    <2>1. /\ Head(out) \in Items(out) /\ Items(out') \subseteq Items(out) /\ UNCHANGED <<session, phase>>
          /\ Head(out) \in AgyLine
      BY <1>1, <1>9, ItemsOf, Headless DEF AgyReads
    <2>2. micro' = micro \/ (Head(out).type = "init" /\ micro' = Append(micro, Head(out)))
      BY <1>9 DEF AgyReads, AgyResult, AgyFatal
    <2>3. \A m \in Items(micro') : Told(m)
      <3>1. CASE micro' = micro
        BY <1>2, <3>1
      <3>2. CASE Head(out).type = "init" /\ micro' = Append(micro, Head(out))
        <4>1. Head(out) \in AgyInit
          BY <2>1, <3>2 DEF AgyLine
        <4>2. Items(micro') = Items(micro) \cup {Head(out)}
          BY <1>1, <3>2, <4>1, ItemsOf
        <4> QED  BY <1>1, <2>1, <3>2, <4>2 DEF Told
      <3> QED  BY <2>2, <3>1, <3>2
    <2> QED  BY <1>1, <2>1, <2>3, ResumeCalm
  <1> QED  BY <1>5, <1>6, <1>7, <1>8, <1>9 DEF Agy, AgyHub

LEMMA AcpResumes == ASSUME TypeInv, ResumeInv, Acp PROVE ResumeInv'
  <1> USE DEF stopping, surface, launch, pipes, process, base
  <1>1. kind = "hermes" /\ kind \notin Rpc /\ out \in Seq(AcpMessage) /\ micro \in Seq(AcpAnswer)
        /\ UNCHANGED <<plan, kind, wants>>
    BY AcpKind, PlanStays DEF TypeInv, PipesTypeOK, Next, Rpc, kind, wants
  <1>2. \A m \in Items(micro) : Told(m)
    BY DEF Told
  <1>3. ASSUME UNCHANGED <<session, out, micro>>, phase' = "open" => phase = "open" PROVE ResumeInv'
    BY <1>1, <1>2, <1>3, ResumeCalm
  <1>4. ASSUME NEW m \in AcpMessage, Emits(m)
        PROVE  out' = Append(out, m) /\ Items(out') = Items(out) \cup {m}
    BY <1>1, <1>4, ItemsOf DEF Emits
  <1>5. CASE AcpProvider
    <2>1. UNCHANGED <<phase, micro>>
      BY <1>5 DEF AcpProvider
    <2>2. CASE AcpShakes
      <3>1. PICK m \in AcpAnswer :
              /\ Emits(m) /\ session' \in {session, IF wants THEN "wanted" ELSE "fresh"}
              /\ m.type = "session" /\ m.of = "ok" => session' # "none"
        <4>1. ASSUME NEW of \in {"loads", "plain", "refused"}, Emits([type |-> "initialized", of |-> of]), UNCHANGED session
              PROVE  \E m \in AcpAnswer :
                       /\ Emits(m) /\ session' \in {session, IF wants THEN "wanted" ELSE "fresh"}
                       /\ m.type = "session" /\ m.of = "ok" => session' # "none"
          BY <4>1 DEF AcpAnswer
        <4>2. ASSUME NEW of \in {"ok", "refused"}, Emits([type |-> "session", of |-> of]),
                     session' = IF of = "ok" THEN IF wants THEN "wanted" ELSE "fresh" ELSE session
              PROVE  \E m \in AcpAnswer :
                       /\ Emits(m) /\ session' \in {session, IF wants THEN "wanted" ELSE "fresh"}
                       /\ m.type = "session" /\ m.of = "ok" => session' # "none"
          BY <4>2 DEF AcpAnswer
        <4> QED  BY <2>2, <4>1, <4>2 DEF AcpShakes
      <3>2. m \in AcpMessage
        BY DEF AcpMessage
      <3>3. Items(out') = Items(out) \cup {m}
        BY <1>4, <3>1, <3>2
      <3>4. phase = "handshake" /\ (session # "none" => session' = session)
        BY <1>1, <2>2, <3>1 DEF AcpShakes, ResumeInv
      <3>5. session' # "none" \/ session = "none"
        BY <3>1
      <3> QED  BY <1>1, <2>1, <3>1, <3>3, <3>4, <3>5 DEF ResumeInv, ResumeNeverFresh
    <2>3. CASE AcpAnswers \/ AcpAsks \/ AcpMisnames \/ EmitsGarbage
      <3>1. PICK m \in AcpMessage : Emits(m) /\ m.type \notin {"init", "session", "response"} /\ session' = session
        <4>1. CASE AcpAnswers
          <5>1. working \in Texts
            BY <4>1, PlanType DEF AcpAnswers, TypeInv, HubTypes, DialectTypes, Texts
          <5>2. [type |-> "done", of |-> working] \in AcpMessage
            BY <5>1 DEF AcpMessage
          <5> QED  BY <4>1, <5>2 DEF AcpAnswers
        <4>2. CASE AcpAsks
          <5>1. \A p \in Perms : [type |-> "asks", of |-> p] \in AcpMessage
            BY DEF AcpMessage
          <5> QED  BY <4>2, <5>1 DEF AcpAsks
        <4>3. CASE AcpMisnames \/ EmitsGarbage
          BY <4>3 DEF AcpMisnames, EmitsGarbage, AcpMessage
        <4> QED  BY <2>3, <4>1, <4>2, <4>3
      <3>2. \A e \in Items(out') : e \in Items(out) \/ e.type \notin {"init", "session", "response"}
        BY <1>4, <3>1
      <3> QED  BY <1>1, <1>2, <2>1, <3>1, <3>2, ResumeCalm
    <2>4. CASE TakesText
      BY <1>3, <2>1, <2>4 DEF TakesText
    <2> QED  BY <1>5, <2>2, <2>3, <2>4 DEF AcpProvider
  <1>6. CASE \/ AcpSpawn \/ AcpReported \/ AcpReportFails \/ AcpOpenFails \/ AcpPrompt \/ AcpFollowUp \/ AcpCancel
             \/ AcpVerdict \/ AcpPermissionTimer \/ AcpExits
    BY <1>3, <1>6 DEF AcpSpawn, AcpReported, AcpReportFails, AcpOpenFails, AcpFailOpen, AcpPrompt, AcpFollowUp,
       AcpCancel, AcpVerdict, AcpPermissionTimer, AcpExits, AcpRest
  <1>7. CASE AcpStop \/ AcpChainedStop
    BY <1>3, <1>7 DEF AcpStop, AcpChainedStop, FirstStop, ChainedStop
  <1>8. CASE AcpOpens
    <2> DEFINE answer == Head(micro)
    <2>1. /\ answer \in Items(micro) /\ Items(micro') \subseteq Items(micro) /\ UNCHANGED <<session, out>>
          /\ answer \in AcpAnswer
      BY <1>1, <1>8, ItemsOf, Headless DEF AcpOpens
    <2>2. phase' = "open" => answer.type # "initialized" /\ answer.of # "refused"
      BY <1>8 DEF AcpOpens, AcpFailOpen
    <2>3. phase' = "open" => session # "none"
      BY <1>1, <2>1, <2>2 DEF ResumeInv, AcpAnswer
    <2> QED  BY <1>1, <2>1, <2>3 DEF ResumeInv, ResumeNeverFresh
  <1>9. CASE AcpGuard
    <2>1. Items(out') \subseteq Items(out)
      BY <1>1, <1>9, ItemsOf DEF AcpGuard
    <2>2. UNCHANGED <<session, phase, micro>>
      BY <1>9 DEF AcpGuard
    <2> QED  BY <1>1, <1>2, <2>1, <2>2, ResumeCalm
  <1>10. CASE AcpReads
    <2>1. /\ Head(out) \in Items(out) /\ Items(out') \subseteq Items(out) /\ UNCHANGED <<session, phase>>
          /\ Head(out) \in AcpMessage
      BY <1>1, <1>10, ItemsOf, Headless DEF AcpReads
    <2>2. micro' = micro \/ (Head(out).type \in {"initialized", "session"} /\ micro' = Append(micro, Head(out)))
      BY <1>10 DEF AcpReads, AcpFatal
    <2>3. \A m \in Items(micro') : Told(m)
      <3>1. CASE micro' = micro
        BY <1>2, <3>1
      <3>2. CASE Head(out).type \in {"initialized", "session"} /\ micro' = Append(micro, Head(out))
        <4>1. Head(out) \in AcpAnswer
          BY <2>1, <3>2 DEF AcpMessage
        <4>2. Items(micro') = Items(micro) \cup {Head(out)}
          BY <1>1, <3>2, <4>1, ItemsOf
        <4> QED  BY <1>1, <2>1, <4>2 DEF Told
      <3> QED  BY <2>2, <3>1, <3>2
    <2> QED  BY <1>1, <2>1, <2>3, ResumeCalm
  <1> QED  BY <1>5, <1>6, <1>7, <1>8, <1>9, <1>10 DEF Acp, AcpHub

LEMMA RpcResumes == ASSUME Sound, ResumeInv, RpcSteps PROVE ResumeInv'
  <1> USE DEF stopping, surface, launch, pipes, process, rpc
  <1>1. /\ TypeInv /\ kind \in Rpc /\ kind # "agy" /\ kind # "hermes" /\ out \in Seq(RpcFrame) /\ micro \in Seq(RpcAnswer)
        /\ UNCHANGED <<plan, kind, wants>>
    BY RpcKind, RpcPartsNow, PlanStays DEF Sound, Next, Rpc, kind, wants
  <1>2. \A m \in Items(micro) : Told(m)
    BY DEF Told
  <1>3. ASSUME UNCHANGED <<session, out, micro>>, phase' = "open" => phase = "open" PROVE ResumeInv'
    BY <1>1, <1>2, <1>3, ResumeCalm
  <1>4. ASSUME NEW m \in RpcFrame, Writes(m) PROVE Items(out') = Items(out) \cup {m}
    BY <1>1, <1>4, ItemsOf DEF Writes
  <1>5. ASSUME NEW id \in Pending, NEW ok \in BOOLEAN, NEW of \in Said \cup {"timeout"},
               of = "wanted" => \E o \in Items(out) : o.type = "response" /\ o.of = "wanted",
               micro' = Append(micro, Answered(id, ok, of))
        PROVE  \A m \in Items(micro') : Told(m)
    <2>1. Append(micro, Answered(id, ok, of)) \in Seq(RpcAnswer) /\ pend[id] \in Commands
      <3>1. reqs <= MaxReqs
        BY <1>1 DEF Sound, ShakeInv
      <3>2. id \in 1 .. MaxReqs /\ pend[id] # "none"
        BY <1>1, <3>1, RpcPartsNow, ShakeNumbers DEF Pending
      <3> QED  BY <1>1, <3>1, <3>2, AnsweredType, RpcPartsNow
    <2>2. Answered(id, ok, of) \in RpcAnswer /\ Answered(id, ok, of).of = of
      BY <2>1 DEF Answered, RpcAnswer
    <2>3. Items(micro') = Items(micro) \cup {Answered(id, ok, of)}
      BY <1>1, <1>5, <2>2, ItemsOf
    <2> QED  BY <1>1, <1>2, <1>5, <2>2, <2>3 DEF Told
  <1>6. ASSUME RejectAll PROVE \A m \in Items(micro') : Told(m)
    <2> DEFINE late == [type |-> "answer", cmd |-> "state", ok |-> FALSE, of |-> "closed"]
    <2>1. late \in RpcAnswer /\ late.of # "wanted"
      BY DEF RpcAnswer, Commands, Shaking
    <2>2. micro' = micro \/ micro' = Append(micro, late)
      BY <1>6 DEF RejectAll
    <2> HIDE DEF late
    <2>3. Items(Append(micro, late)) = Items(micro) \cup {late}
      BY <1>1, <2>1, ItemsOf
    <2>4. Told(late)
      BY <1>1, <2>1 DEF Told
    <2> QED  BY <1>2, <2>2, <2>3, <2>4
  <1>7. CASE RpcProvider
    <2>1. UNCHANGED <<phase, micro>>
      BY <1>7 DEF RpcProvider
    <2>2. CASE RpcReady
      <3>1. PICK of \in {"v2", "v1"} : Writes([type |-> "ready", of |-> of])
        BY <2>2 DEF RpcReady
      <3>2. [type |-> "ready", of |-> of] \in RpcFrame
        BY DEF RpcFrame
      <3>3. Items(out') = Items(out) \cup {[type |-> "ready", of |-> of]}
        BY <1>4, <3>1, <3>2
      <3>4. session = "none" /\ phase \in {"spawned", "handshake"}
        BY <2>2 DEF RpcReady
      <3> QED  BY <1>1, <2>1, <3>3, <3>4 DEF ResumeInv, ResumeNeverFresh
    <2>3. CASE RpcReplies
      <3>1. PICK of \in Said : /\ Writes(Response(Head(inp), of))
                               /\ session = "wanted" => session' = "wanted"
                               /\ of = "wanted" => session' = "wanted"
        <4>1. session \in Sessions /\ session' \in Sessions
          BY <1>1, <2>3, RepliesTypes DEF TypeInv, HubTypes
        <4> QED  BY <2>3, <4>1 DEF RpcReplies, Said, Sessions
      <3>2. Head(inp) \in RpcRequest
        BY <1>1, <2>3, RpcPartsNow, Headless DEF RpcReplies
      <3>3. Response(Head(inp), of) \in RpcFrame /\ Response(Head(inp), of).of = of
        BY <3>2, ResponseType DEF Response
      <3>4. Items(out') = Items(out) \cup {Response(Head(inp), of)}
        BY <1>4, <3>1, <3>3
      <3> QED  BY <1>1, <2>1, <3>1, <3>3, <3>4 DEF ResumeInv, ResumeNeverFresh
    <2>4. CASE RpcBegins \/ RpcEnds \/ RpcGoesOn \/ RpcGarbage
      <3>1. PICK m \in RpcFrame : Writes(m) /\ m.type \notin {"init", "session", "response"}
        BY <2>4 DEF RpcBegins, RpcEnds, RpcGoesOn, RpcGarbage, RpcFrame
      <3>2. \A e \in Items(out') : e \in Items(out) \/ e.type \notin {"init", "session", "response"}
        BY <1>4, <3>1
      <3>3. session' = session
        BY <2>4 DEF RpcBegins, RpcEnds, RpcGoesOn, RpcGarbage
      <3> QED  BY <1>1, <1>2, <2>1, <3>2, <3>3, ResumeCalm
    <2> QED  BY <1>7, <2>2, <2>3, <2>4 DEF RpcProvider
  <1>8. CASE RpcSpawn \/ RpcReported \/ RpcGate \/ RpcFatalOpen \/ RpcSend
    BY <1>3, <1>8 DEF RpcSpawn, RpcReported, RpcGate, RpcFatalOpen, RpcFailLaunch, RpcSend
  <1>9. CASE RpcLaunchFailed
    BY <1>1, <1>6, <1>9, ResumeCalm DEF RpcLaunchFailed
  <1>10. CASE RpcContinues
    <2>1. /\ Head(micro) \in Items(micro) /\ Items(micro') \subseteq Items(micro) /\ UNCHANGED <<session, out>>
      BY <1>1, <1>10, ItemsOf DEF RpcContinues
    <2>2. phase' = "open" /\ phase # "open" /\ wants => Head(micro).of = "wanted"
      <3> SUFFICES ASSUME phase' = "open", phase # "open", wants PROVE Head(micro).of = "wanted"
        OBVIOUS
      <3>1. RpcShakes(Head(micro)) /\ phase = "handshake" /\ Verdict(Head(micro)) = "open"
        BY <1>10 DEF RpcContinues, RpcShakes, RpcSettles, RpcFailLaunch
      <3> QED  BY <3>1 DEF Verdict
    <2> QED  BY <1>1, <2>1, <2>2 DEF ResumeInv, ResumeNeverFresh
  <1>11. CASE RpcTimer
    <2>1. \A m \in Items(micro') : Told(m)
      <3>1. PICK id \in Pending : micro' = Append(micro, Answered(id, FALSE, "timeout"))
        BY <1>11 DEF RpcTimer
      <3> QED  BY <1>5, <3>1
    <2> QED  BY <1>1, <1>11, <2>1, ResumeCalm DEF RpcTimer
  <1>12. CASE RpcReads
    <2>1. /\ Head(out) \in Items(out) /\ Items(out') \subseteq Items(out) /\ UNCHANGED <<session, phase>>
          /\ Head(out) \in RpcFrame /\ RpcDispatch(Head(out))
      BY <1>1, <1>12, ItemsOf, Headless DEF RpcReads
    <2>2. \A m \in Items(micro') : Told(m)
      <3>1. CASE micro' = micro
        BY <1>2, <3>1
      <3>2. CASE Head(out).type = "response" /\ Known(Head(out))
        <4>1. Head(out).id \in Pending /\ Head(out).of \in Said
          BY <2>1, <3>2 DEF Known, RpcFrame
        <4>2. micro' = Append(micro, Answered(Head(out).id, Head(out).of # "failed", Head(out).of))
          BY <2>1, <3>2, <4>1 DEF RpcDispatch, Breaks
        <4> QED  BY <1>5, <2>1, <3>2, <4>1, <4>2
      <3> QED  BY <2>1, <3>1, <3>2 DEF RpcDispatch
    <2> QED  BY <1>1, <2>1, <2>2, ResumeCalm
  <1>13. CASE RpcExits
    <2>1. \A m \in Items(micro') : Told(m)
      BY <1>2, <1>6, <1>13 DEF RpcExits
    <2>2. Items(out') = {}
      BY <1>13 DEF RpcExits, Items
    <2>3. UNCHANGED <<session, phase>>
      BY <1>13 DEF RpcExits
    <2> QED  BY <1>1, <2>1, <2>2, <2>3, ResumeCalm
  <1> QED  BY <1>7, <1>8, <1>9, <1>10, <1>11, <1>12, <1>13 DEF RpcSteps, RpcHub

(***************************************************************************)
(* A resume that opened is in the session it was asked for, in whatever    *)
(* session the provider came up, and whatever it answered.                 *)
(***************************************************************************)
THEOREM ResumeNeverFreshAlways == Spec => []ResumeNeverFresh
  <1>1. Init => ResumeInv
    BY DEF Init, TransportInit, ResumeInv, ResumeNeverFresh, Items
  <1>2. Sound /\ ResumeInv /\ [Next]_vars => ResumeInv'
    <2> SUFFICES ASSUME Sound, ResumeInv, [Next]_vars PROVE ResumeInv'
      OBVIOUS
    <2>1. ASSUME UNCHANGED <<plan, launch, pipes, micro>> PROVE ResumeInv'
      BY <2>1 DEF launch, pipes, ResumeInv, ResumeNeverFresh, Items, kind, wants
    <2>2. CASE Shared
      BY <2>1, <2>2, StopStepTypes DEF Shared, Sound
    <2> QED  BY <2>1, <2>2, AgyResumes, AcpResumes, RpcResumes DEF Next, vars, base, Sound
  <1>3. ResumeInv => ResumeNeverFresh
    BY DEF ResumeInv
  <1> QED  BY <1>1, <1>2, <1>3, SoundAlways, PTL DEF Spec

-----------------------------------------------------------------------------
(* The order of the texts.                                                 *)

Increasing(s) == \A i, j \in DOMAIN s : i < j => s[i] < s[j]

LEMMA IncreasingSeq ==
  ASSUME NEW s \in Seq(Nat), Increasing(s)
  PROVE  /\ s # <<>> => Increasing(Tail(s)) /\ \A e \in Items(Tail(s)) : Head(s) < e
         /\ \A e \in Nat : (\A x \in Items(s) : x < e) => Increasing(Append(s, e))
  <1>1. ASSUME s # <<>> PROVE Increasing(Tail(s)) /\ \A e \in Items(Tail(s)) : Head(s) < e
    <2>1. /\ Head(s) = s[1] /\ 1 \in DOMAIN s /\ DOMAIN Tail(s) = 1 .. Len(s) - 1 /\ DOMAIN s = 1 .. Len(s)
          /\ Len(s) \in Nat /\ \A i \in 1 .. Len(s) - 1 : Tail(s)[i] = s[i + 1]
      BY <1>1, Headless
    <2>2. \A i \in DOMAIN Tail(s) : i \in Nat /\ i + 1 \in DOMAIN s /\ 1 < i + 1 /\ Tail(s)[i] = s[i + 1]
      BY <2>1
    <2>3. Increasing(Tail(s))
      BY <2>2 DEF Increasing
    <2>4. \A i \in DOMAIN Tail(s) : Head(s) < Tail(s)[i]
      BY <2>1, <2>2 DEF Increasing
    <2> QED  BY <2>3, <2>4 DEF Items
  <1>2. ASSUME NEW e \in Nat, \A x \in Items(s) : x < e PROVE Increasing(Append(s, e))
    <2>1. \A i \in DOMAIN s : s[i] < e
      BY <1>2 DEF Items
    <2>2. /\ DOMAIN Append(s, e) = 1 .. Len(s) + 1 /\ DOMAIN s = 1 .. Len(s) /\ Len(s) \in Nat
          /\ \A i \in 1 .. Len(s) : Append(s, e)[i] = s[i]
          /\ Append(s, e)[Len(s) + 1] = e
      BY Appended
    <2> SUFFICES ASSUME NEW i \in DOMAIN Append(s, e), NEW j \in DOMAIN Append(s, e), i < j
                 PROVE  Append(s, e)[i] < Append(s, e)[j]
      BY DEF Increasing
    <2>3. i \in DOMAIN s /\ Append(s, e)[i] = s[i]
      BY <2>2
    <2>4. CASE j \in DOMAIN s
      BY <2>2, <2>3, <2>4 DEF Increasing
    <2>5. CASE j \notin DOMAIN s
      BY <2>1, <2>2, <2>3, <2>5
    <2> QED  BY <2>4, <2>5
  <1> QED  BY <1>1, <1>2

LEMMA SeqOfMore == ASSUME NEW S, NEW T, S \subseteq T, NEW s \in Seq(S) PROVE s \in Seq(T)
  <1>1. s \in [1 .. Len(s) -> S] /\ Len(s) \in Nat
    OBVIOUS
  <1>2. s \in [1 .. Len(s) -> T]
    BY <1>1
  <1> QED  BY <1>1, <1>2

\* Nothing more is written to a provider of which one of these is true.
Stuck == fatal \/ observed \/ (kind = "agy" /\ stdin = "closed")

(***************************************************************************)
(* Texts are numbered as they are accepted.  What hermes was sent once its *)
(* exit was observed can not be answered: a turn that ends there is one of *)
(* before.                                                                 *)
(***************************************************************************)
OrderInv ==
  /\ Increasing(delivered) /\ Increasing(queue)
  /\ \A t \in Items(delivered) \cup Items(queue) : t <= accepted
  /\ kind = "agy" \/ ~observed => \A d \in Items(delivered), q \in Items(queue) : d < q
  /\ kind = "hermes" =>
       /\ \A m \in Items(inp) : m.of <= accepted
       /\ working <= accepted
       /\ \A m \in Items(out) : m.type = "done" => m.of <= accepted /\ (observed => m.of # turn)
  /\ kind \in Line /\ turn = 0 /\ queue # <<>> => Stuck

\* A step that neither accepts nor delivers.
LEMMA OrderCalm ==
  ASSUME OrderInv, UNCHANGED <<plan, observed, queue, delivered, accepted>>, Stuck => Stuck',
         turn' = 0 => turn = 0 \/ Stuck',
         kind = "hermes" =>
           /\ Items(inp') \subseteq Items(inp) /\ working' <= accepted
           /\ \A m \in Items(out') : m.type = "done" => m.of <= accepted /\ (observed => m.of # turn')
  PROVE  OrderInv'
  BY DEF OrderInv, kind, Increasing, Items

\* One that changes nothing of the order at all.
LEMMA OrderStays ==
  ASSUME OrderInv, UNCHANGED <<plan, observed, turns, inp, out>>, Stuck => Stuck'
  PROVE  OrderInv'
  <1>1. UNCHANGED <<turn, queue, accepted, delivered, working>>
    BY DEF turns
  <1>2. UNCHANGED <<Items(inp), Items(out)>>
    BY DEF Items
  <1> QED  BY <1>1, <1>2, OrderCalm DEF OrderInv

\* What is true of the texts by their types.
LEMMA TextTypes ==
  ASSUME TypeInv
  PROVE  /\ accepted \in Nat /\ turn \in Nat /\ working \in Nat
         /\ queue \in Seq(Nat) /\ delivered \in Seq(Nat)
         /\ Items(queue) \subseteq Texts /\ Items(delivered) \subseteq Texts
         /\ Texts \subseteq Nat \ {0}
  <1>1. Texts \subseteq Nat \ {0} /\ plan.texts \in Nat
    BY PlanType DEF Texts, TypeInv, HubTypes
  <1>2. queue \in Seq(Texts) /\ delivered \in Seq(Texts)
    BY DEF TypeInv, PipesTypeOK
  <1>3. queue \in Seq(Nat) /\ delivered \in Seq(Nat)
    BY <1>1, <1>2, SeqOfMore
  <1>4. Items(queue) \subseteq Texts /\ Items(delivered) \subseteq Texts
    BY <1>2, ItemsOf
  <1>5. accepted \in Nat /\ turn \in Nat /\ working \in Nat
    BY <1>1 DEF TypeInv, PipesTypeOK, DialectTypes
  <1> QED  BY <1>1, <1>3, <1>4, <1>5

\* A text that goes out behind all that went before it, and before all that wait.
LEMMA DeliveryKeepsOrder ==
  ASSUME TypeInv, NEW text \in Nat, \A d \in Items(delivered) : d < text, Increasing(delivered),
         delivered' = Append(delivered, text)
  PROVE  Increasing(delivered') /\ Items(delivered') = Items(delivered) \cup {text}
  <1>1. delivered \in Seq(Nat)
    BY TextTypes
  <1> QED  BY <1>1, IncreasingSeq, ItemsOf

\* Nothing that stops the texts is undone.
LEMMA StuckStays ==
  ASSUME Next
  PROVE  /\ fatal' = fatal \/ fatal' = TRUE
         /\ observed' = observed \/ observed' = TRUE
         /\ stdin' = stdin \/ stdin' = "closed"
  <1> DEFINE Goal == /\ fatal' = fatal \/ fatal' = TRUE
                     /\ observed' = observed \/ observed' = TRUE
                     /\ stdin' = stdin \/ stdin' = "closed"
  <1> USE DEF stopping, surface, launch, process, base
  <1>1. ASSUME \/ \E mode \in Modes : FirstStop(mode) \/ LaterStop(mode)
               \/ \E i \in DOMAIN attempts : ChainedStop(i)
        PROVE  Goal
    BY <1>1 DEF FirstStop, LaterStop, ChainedStop, Shutdown
  <1>2. CASE Shared
    <2>1. ProcessStep \/ LadderStep \/ BackgroundKill => UNCHANGED <<fatal, observed, stdin>>
      BY DEF ProcessStep, LadderStep, LadderTimer, LadderExit, LadderProven, LadderGroup, LadderRest,
         BackgroundKill, BackgroundTimer, BackgroundGroup
    <2> QED  BY <1>1, <1>2, <2>1 DEF Shared
  <1>3. CASE Agy
    <2>1. CASE AgyProvider \/ AgySpawn \/ AgyReported \/ AgyReportFails \/ AgyPrompt \/ AgyFollowUp \/ AgyCancel \/ AgyExits
      BY <2>1 DEF AgyProvider, AgySpawn, AgyReported, AgyReportFails, AgyPrompt, AgyFollowUp, AgyCancel, AgyExits
    <2>2. CASE AgyOpens \/ AgyOpenFails
      BY <2>2 DEF AgyOpens, AgyOpenFails, StopItself
    <2>3. CASE AgyReads
      BY <2>3 DEF AgyReads, AgyResult, AgyFatal, StopItself
    <2> QED  BY <1>3, <2>1, <2>2, <2>3 DEF Agy, AgyHub
  <1>4. CASE Acp
    <2>1. CASE \/ AcpProvider \/ AcpSpawn \/ AcpReported \/ AcpReportFails \/ AcpPrompt \/ AcpFollowUp \/ AcpCancel
               \/ AcpVerdict \/ AcpPermissionTimer \/ AcpExits
      BY <2>1 DEF AcpProvider, AcpSpawn, AcpReported, AcpReportFails, AcpPrompt, AcpFollowUp, AcpCancel,
         AcpVerdict, AcpPermissionTimer, AcpExits, AcpRest
    <2>2. CASE AcpOpens \/ AcpOpenFails
      BY <2>2 DEF AcpOpens, AcpOpenFails, AcpFailOpen, AcpStopItself, StopItself
    <2>3. CASE AcpReads \/ AcpGuard
      BY <2>3 DEF AcpReads, AcpGuard, AcpFatal, AcpStopItself, StopItself, Quiet
    <2>4. CASE AcpStop \/ AcpChainedStop
      BY <1>1, <2>4 DEF AcpStop, AcpChainedStop
    <2> QED  BY <1>4, <2>1, <2>2, <2>3, <2>4 DEF Acp, AcpHub
  <1>5. CASE RpcSteps
    <2>1. CASE RpcProvider \/ RpcSend \/ RpcTimer \/ RpcExits \/ RpcSpawn \/ RpcLaunchFailed
      BY <2>1 DEF RpcProvider, RpcSend, RpcTimer, RpcExits, RpcSpawn, RpcLaunchFailed
    <2>2. CASE RpcReported \/ RpcGate \/ RpcFatalOpen
      BY <2>2 DEF RpcReported, RpcGate, RpcFatalOpen, RpcFailLaunch
    <2>3. CASE RpcContinues
      BY <2>3 DEF RpcContinues, RpcShakes, RpcFailLaunch, RpcSettles
    <2>4. CASE RpcReads
      BY <2>4 DEF RpcReads, RpcDispatch, FailProtocol
    <2> QED  BY <1>5, <2>1, <2>2, <2>3, <2>4 DEF RpcSteps, RpcHub
  <1> QED  BY <1>2, <1>3, <1>4, <1>5 DEF Next

LEMMA StuckKept == ASSUME Next, kind' = kind, Stuck PROVE Stuck'
  <1>1. CASE fatal
    BY <1>1, StuckStays DEF Stuck
  <1>2. CASE observed
    BY <1>2, StuckStays DEF Stuck
  <1>3. CASE kind = "agy" /\ stdin = "closed"
    BY <1>3, StuckStays DEF Stuck
  <1> QED  BY <1>1, <1>2, <1>3 DEF Stuck

LEMMA AgyOrders == ASSUME TypeInv, OrderInv, Agy PROVE OrderInv'
  <1> USE DEF stopping, surface, launch, pipes, process
  <1>1. /\ kind = "agy" /\ kind # "hermes" /\ kind' = kind /\ plan' = plan /\ kind \in Line
        /\ Stuck => Stuck'
    <2>1. kind = "agy" /\ plan' = plan /\ kind' = kind
      BY AgyKind, PlanStays DEF Next, kind
    <2>2. Stuck => Stuck'
      BY <2>1, StuckKept DEF Next
    <2> QED  BY <2>1, <2>2 DEF Line
  <1>2. /\ accepted \in Nat /\ queue \in Seq(Nat) /\ delivered \in Seq(Nat)
        /\ Items(queue) \subseteq Nat \ {0} /\ Items(delivered) \subseteq Nat /\ stdin \in {"open", "closed"}
    BY TextTypes DEF TypeInv, StopTypes
  <1>3. Writable <=> ~Stuck
    BY <1>1, <1>2 DEF Writable, Stuck
  <1>4. /\ Increasing(delivered) /\ Increasing(queue)
        /\ \A t \in Items(delivered) \cup Items(queue) : t <= accepted
        /\ \A d \in Items(delivered), q \in Items(queue) : d < q
        /\ turn = 0 /\ queue # <<>> => Stuck
    BY <1>1 DEF OrderInv
  <1>5. ASSUME Increasing(delivered'), Increasing(queue'),
               \A t \in Items(delivered') \cup Items(queue') : t <= accepted',
               \A d \in Items(delivered'), q \in Items(queue') : d < q,
               turn' = 0 /\ queue' # <<>> => Stuck'
        PROVE  OrderInv'
    BY <1>1, <1>5 DEF OrderInv
  <1>6. ASSUME UNCHANGED <<queue, delivered, accepted>>, turn' = 0 => turn = 0 \/ Stuck' PROVE OrderInv'
    BY <1>1, <1>4, <1>5, <1>6 DEF Items, Increasing
  <1>7. ASSUME NEW text \in Nat, accepted' = accepted + 1, text = accepted + 1, AgyDeliver(text), UNCHANGED queue,
               turn = 0, UNCHANGED <<fatal, stdin, observed>>
        PROVE  OrderInv'
    <2>1. CASE Writable
      <3>1. queue = <<>> /\ Items(queue') = {} /\ Increasing(queue')
        BY <1>3, <1>4, <1>7, <2>1 DEF Items, Increasing
      <3>2. \A d \in Items(delivered) : d < text
        BY <1>2, <1>4, <1>7
      <3>3. Increasing(delivered') /\ Items(delivered') = Items(delivered) \cup {text}
        BY <1>4, <1>7, <2>1, <3>2, DeliveryKeepsOrder DEF AgyDeliver
      <3>4. turn' # 0
        BY <1>2, <1>7, <2>1 DEF AgyDeliver
      <3> QED  BY <1>2, <1>4, <1>5, <1>7, <3>1, <3>3, <3>4
    <2>2. CASE ~Writable
      <3>1. UNCHANGED <<delivered, queue>> /\ Stuck'
        BY <1>1, <1>3, <1>7, <2>2 DEF AgyDeliver
      <3>2. \A t \in Items(delivered) \cup Items(queue) : t <= accepted + 1
        BY <1>2, <1>4
      <3> QED  BY <1>4, <1>5, <1>7, <3>1, <3>2 DEF Items, Increasing
    <2> QED  BY <2>1, <2>2
  <1>8. CASE AgyProvider
    BY <1>6, <1>8 DEF AgyProvider
  <1>9. CASE AgySpawn \/ AgyReported \/ AgyReportFails \/ AgyOpens \/ AgyOpenFails \/ AgyCancel
    BY <1>6, <1>9 DEF AgySpawn, AgyReported, AgyReportFails, AgyOpens, AgyOpenFails, AgyCancel, turns
  <1>10. CASE AgyPrompt
    BY <1>2, <1>7, <1>10 DEF AgyPrompt
  <1>11. CASE AgyFollowUp
    <2>1. CASE turn # 0 \/ queue # <<>>
      <3>1. /\ queue' = Append(queue, accepted + 1) /\ UNCHANGED <<turn, delivered, fatal, stdin, observed>>
            /\ accepted' = accepted + 1
        BY <1>11, <2>1 DEF AgyFollowUp
      <3>2. \A t \in Items(delivered) \cup Items(queue) : t < accepted + 1 /\ t <= accepted + 1
        BY <1>2, <1>4
      <3>3. Increasing(queue') /\ Items(queue') = Items(queue) \cup {accepted + 1}
        <4>1. accepted + 1 \in Nat
          BY <1>2
        <4>2. Increasing(Append(queue, accepted + 1))
          BY <1>2, <1>4, <3>2, <4>1, IncreasingSeq
        <4>3. Items(Append(queue, accepted + 1)) = Items(queue) \cup {accepted + 1}
          BY <1>2, <4>1, ItemsOf
        <4> QED  BY <3>1, <4>2, <4>3
      <3>4. Items(delivered') = Items(delivered) /\ Increasing(delivered')
        BY <1>4, <3>1 DEF Items
      <3>5. turn' = 0 => Stuck'
        BY <1>1, <1>4, <2>1, <3>1
      <3> QED  BY <1>2, <1>4, <1>5, <3>1, <3>2, <3>3, <3>4, <3>5
    <2>2. CASE turn = 0 /\ queue = <<>>
      BY <1>2, <1>7, <1>11, <2>2 DEF AgyFollowUp
    <2> QED  BY <2>1, <2>2
  <1>12. CASE AgyReads
    <2>1. UNCHANGED <<accepted, observed>>
      BY <1>12 DEF AgyReads
    <2>2. CASE UNCHANGED <<queue, delivered, turn>>
      BY <1>6, <2>1, <2>2
    <2>3. CASE AgyFatal
      BY <1>6, <2>1, <2>3 DEF AgyFatal, Stuck
    <2>4. CASE AgyResult /\ turn # 0
      <3>1. CASE queue = <<>>
        <4>1. queue' = <<>> /\ delivered' = delivered
          BY <2>4, <3>1 DEF AgyResult
        <4> QED  BY <1>4, <1>5, <2>1, <3>1, <4>1 DEF Items, Increasing
      <3>2. CASE queue # <<>>
        <4>1. /\ queue' = Tail(queue) /\ UNCHANGED <<fatal, stdin>>
              /\ Head(queue) \in Items(queue) /\ Items(Tail(queue)) \subseteq Items(queue)
              /\ Increasing(Tail(queue)) /\ \A e \in Items(Tail(queue)) : Head(queue) < e
          BY <1>2, <1>4, <2>4, <3>2, ItemsOf, IncreasingSeq DEF AgyResult
        <4>2. CASE Writable
          <5>1. turn' = Head(queue) /\ delivered' = Append(delivered, Head(queue)) /\ Head(queue) \in Nat \ {0}
            BY <1>2, <2>4, <3>2, <4>1, <4>2 DEF AgyResult
          <5>2. \A d \in Items(delivered) : d < Head(queue)
            BY <1>4, <4>1
          <5>3. Increasing(delivered') /\ Items(delivered') = Items(delivered) \cup {Head(queue)}
            BY <1>4, <5>1, <5>2, DeliveryKeepsOrder
          <5> QED  BY <1>4, <1>5, <2>1, <4>1, <5>1, <5>3
        <4>3. CASE ~Writable
          <5>1. delivered' = delivered /\ Stuck'
            BY <1>1, <1>3, <2>4, <3>2, <4>3 DEF AgyResult
          <5>2. Items(delivered') = Items(delivered) /\ Increasing(delivered')
            BY <1>4, <5>1 DEF Items
          <5> QED  BY <1>4, <1>5, <2>1, <4>1, <5>1, <5>2
        <4> QED  BY <4>2, <4>3
      <3> QED  BY <3>1, <3>2
    <2> QED  BY <1>12, <2>2, <2>3, <2>4 DEF AgyReads
  <1>13. CASE AgyExits
    BY <1>6, <1>13 DEF AgyExits, Stuck
  <1> QED  BY <1>8, <1>9, <1>10, <1>11, <1>12, <1>13 DEF Agy, AgyHub

\* A turn that starts, of the texts or of what waits.
LEMMA StartKeepsOrder ==
  ASSUME TypeInv, OrderInv, kind = "hermes", NEW text \in Texts, AcpStart(text),
         UNCHANGED <<plan, observed, fatal, working>>,
         text <= accepted', accepted <= accepted', accepted' \in Nat,
         \A d \in Items(delivered) : d < text,
         Increasing(queue'), \A q \in Items(queue') : q <= accepted',
         ~observed => \A q \in Items(queue') : \A d \in Items(delivered) \cup {text} : fatal \/ d < q,
         fatal => \A q \in Items(queue') : q \in Items(queue),
         Items(out') \subseteq Items(out),
         observed => \A m \in Items(out') : m.type = "done" => m.of # text
  PROVE  OrderInv'
  <1>1. /\ kind' = kind /\ accepted \in Nat /\ Items(delivered) \subseteq Nat /\ Items(queue) \subseteq Nat
        /\ working \in Nat /\ text \in Nat \ {0} /\ inp \in Seq(LineText) /\ out \in Seq(AcpMessage)
        /\ \A m \in Items(inp) : m.of \in Nat
        /\ \A m \in Items(out) : m.type = "done" => m.of \in Nat \ {0}
    <2>1. inp \in Seq(LineText) /\ out \in Seq(AcpMessage)
      BY DEF TypeInv, PipesTypeOK, Line
    <2>2. Items(inp) \subseteq LineText /\ Items(out) \subseteq AcpMessage
      BY <2>1, ItemsOf
    <2>3. Texts \subseteq Nat \ {0}
      BY TextTypes
    <2>4. \A m \in Items(inp) : m.of \in Nat
      BY <2>2, <2>3 DEF LineText
    <2>5. \A m \in Items(out) : m.type = "done" => m.of \in Nat \ {0}
      BY <2>2, <2>3 DEF AcpMessage, AcpAnswer
    <2> QED  BY <2>1, <2>3, <2>4, <2>5, TextTypes DEF kind
  <1>2. /\ Increasing(delivered) /\ \A t \in Items(delivered) \cup Items(queue) : t <= accepted
        /\ ~observed => \A d \in Items(delivered), q \in Items(queue) : d < q
        /\ \A m \in Items(inp) : m.of <= accepted
        /\ working <= accepted
        /\ \A m \in Items(out) : m.type = "done" => m.of <= accepted
    BY DEF OrderInv
  <1>3. /\ working' <= accepted'
        /\ \A m \in Items(out') : m.type = "done" => m.of <= accepted' /\ m.of # 0
        /\ \A m \in Items(inp) : m.of <= accepted'
        /\ \A d \in Items(delivered) : d <= accepted'
    BY <1>1, <1>2
  <1>4. CASE fatal
    <2>1. turn' = 0 /\ UNCHANGED <<inp, delivered>> /\ fatal'
      BY <1>4 DEF AcpStart
    <2>2. Items(inp') = Items(inp) /\ Items(delivered') = Items(delivered) /\ Increasing(delivered')
      BY <1>2, <2>1 DEF Items
    <2>3. ~observed => \A d \in Items(delivered'), q \in Items(queue') : d < q
      BY <1>2, <1>4, <2>2
    <2> QED  BY <1>1, <1>3, <2>1, <2>2, <2>3 DEF OrderInv, Stuck
  <1>5. CASE ~fatal
    <2>1. /\ turn' = text /\ delivered' = Append(delivered, text)
          /\ inp' = inp \/ inp' = Append(inp, Text(text))
      BY <1>5 DEF AcpStart
    <2>2. Increasing(delivered') /\ Items(delivered') = Items(delivered) \cup {text}
      BY <1>1, <1>2, <2>1, DeliveryKeepsOrder
    <2>3. \A m \in Items(inp') : m.of <= accepted'
      <3>1. CASE inp' = inp
        BY <1>3, <3>1
      <3>2. CASE inp' = Append(inp, Text(text))
        <4>1. Text(text) \in LineText /\ Text(text).of = text
          BY DEF Text, LineText
        <4>2. Items(inp') = Items(inp) \cup {Text(text)}
          BY <1>1, <3>2, <4>1, ItemsOf
        <4> QED  BY <1>3, <4>1, <4>2
      <3> QED  BY <2>1, <3>1, <3>2
    <2>4. \A t \in Items(delivered') \cup Items(queue') : t <= accepted'
      BY <1>3, <2>2
    <2>5. ~observed => \A d \in Items(delivered'), q \in Items(queue') : d < q
      BY <1>5, <2>2
    <2> QED  BY <1>1, <1>3, <2>1, <2>2, <2>3, <2>4, <2>5 DEF OrderInv
  <1> QED  BY <1>4, <1>5

\* The order of hermes' texts, taken apart.
LEMMA AcpOrderParts ==
  ASSUME TypeInv, OrderInv, Acp
  PROVE  /\ kind = "hermes" /\ kind' = kind /\ plan' = plan /\ (Stuck => Stuck')
         /\ accepted \in Nat /\ queue \in Seq(Nat) /\ queue \in Seq(Texts)
         /\ Items(queue) \subseteq Nat \ {0} /\ Items(delivered) \subseteq Nat
         /\ inp \in Seq(LineText) /\ out \in Seq(AcpMessage) /\ turn \in Nat /\ working \in Nat
         /\ Texts \subseteq Nat \ {0}
         /\ Increasing(delivered) /\ Increasing(queue)
         /\ \A t \in Items(delivered) \cup Items(queue) : t <= accepted
         /\ ~observed => \A d \in Items(delivered), q \in Items(queue) : d < q
         /\ \A m \in Items(inp) : m.of <= accepted
         /\ working <= accepted
         /\ \A m \in Items(out) : m.type = "done" => m.of <= accepted /\ (observed => m.of # turn)
         /\ \A m \in Items(out) : m.type = "done" => m.of \in Nat \ {0}
         /\ turn = 0 /\ queue # <<>> => Stuck
  <1>1. kind = "hermes" /\ kind' = kind /\ plan' = plan
    BY AcpKind, PlanStays DEF Next, kind
  <1>2. Stuck => Stuck'
    BY <1>1, StuckKept DEF Next
  <1>3. /\ accepted \in Nat /\ queue \in Seq(Nat) /\ queue \in Seq(Texts)
        /\ Items(queue) \subseteq Nat \ {0} /\ Items(delivered) \subseteq Nat
        /\ inp \in Seq(LineText) /\ out \in Seq(AcpMessage) /\ turn \in Nat /\ working \in Nat
        /\ Texts \subseteq Nat \ {0}
    BY <1>1, TextTypes DEF TypeInv, PipesTypeOK, Line
  <1>4. /\ Increasing(delivered) /\ Increasing(queue)
        /\ \A t \in Items(delivered) \cup Items(queue) : t <= accepted
        /\ ~observed => \A d \in Items(delivered), q \in Items(queue) : d < q
        /\ \A m \in Items(inp) : m.of <= accepted
        /\ working <= accepted
        /\ \A m \in Items(out) : m.type = "done" => m.of <= accepted /\ (observed => m.of # turn)
        /\ turn = 0 /\ queue # <<>> => Stuck
    BY <1>1 DEF OrderInv, Line
  <1>5. \A m \in Items(out) : m.type = "done" => m.of \in Nat \ {0}
    <2>1. Items(out) \subseteq AcpMessage
      BY <1>3, ItemsOf
    <2> QED  BY <1>3, <2>1 DEF AcpMessage, AcpAnswer
  <1> QED  BY <1>1, <1>2, <1>3, <1>4, <1>5

\* The texts a caller hands over.
LEMMA AcpSendOrders ==
  ASSUME TypeInv, OrderInv, Acp, AcpPrompt \/ AcpFollowUp PROVE OrderInv'
  <1> USE DEF stopping, surface, launch, pipes, process
  <1>1. /\ kind = "hermes" /\ plan' = plan /\ kind' = kind /\ (Stuck => Stuck')
        /\ accepted \in Nat /\ queue \in Seq(Nat) /\ Items(delivered) \subseteq Nat /\ Items(queue) \subseteq Nat
        /\ working \in Nat /\ turn \in Nat
    BY AcpOrderParts
  <1>2. /\ Increasing(delivered) /\ Increasing(queue)
        /\ \A t \in Items(delivered) \cup Items(queue) : t <= accepted
        /\ ~observed => \A d \in Items(delivered), q \in Items(queue) : d < q
        /\ \A m \in Items(inp) : m.of <= accepted
        /\ working <= accepted
        /\ \A m \in Items(out) : m.type = "done" => m.of <= accepted /\ (observed => m.of # turn)
        /\ turn = 0 /\ queue # <<>> => Stuck
    BY AcpOrderParts
  <1>3. \A m \in Items(out) : m.type = "done" => m.of \in Nat
    BY AcpOrderParts
  <1>4. /\ accepted' = accepted + 1 /\ UNCHANGED <<observed, fatal, working, out>> /\ Sendable
        /\ \/ AcpStart(accepted + 1) /\ queue' = queue /\ turn = 0
           \/ (turn # 0 \/ queue # <<>>) /\ queue' = Append(queue, accepted + 1) /\ UNCHANGED <<turn, inp, delivered>>
    BY DEF AcpPrompt, AcpFollowUp, AcpRest
  <1>5. accepted + 1 \in Texts /\ accepted + 1 \in Nat
    BY <1>1, <1>4, NextText
  <1>6. /\ \A t \in Items(delivered) \cup Items(queue) : t < accepted + 1 /\ t <= accepted + 1
        /\ \A m \in Items(out) : m.type = "done" => m.of < accepted + 1 /\ m.of <= accepted + 1
        /\ working <= accepted + 1
    BY <1>1, <1>2, <1>3
  <1>7. CASE AcpStart(accepted + 1) /\ queue' = queue /\ turn = 0
    <2>1. Items(queue') = Items(queue) /\ Increasing(queue') /\ Items(out') = Items(out)
      BY <1>2, <1>4, <1>7 DEF Items
    <2>2. fatal \/ observed \/ Items(queue') = {}
      BY <1>1, <1>2, <1>7 DEF Items, Stuck
    <2>3. observed => \A m \in Items(out') : m.type = "done" => m.of # accepted + 1
      BY <1>1, <1>3, <1>6, <2>1
    <2>4. \A q \in Items(queue') : q <= accepted'
      BY <1>4, <1>6, <2>1
    <2>5. ~observed => \A q \in Items(queue') : \A d \in Items(delivered) \cup {accepted + 1} : fatal \/ d < q
      BY <2>2
    <2>6. accepted + 1 <= accepted' /\ accepted <= accepted' /\ accepted' \in Nat
      BY <1>1, <1>4
    <2> QED  BY <1>1, <1>4, <1>5, <1>6, <1>7, <2>1, <2>3, <2>4, <2>5, <2>6, StartKeepsOrder
  <1>8. CASE /\ turn # 0 \/ queue # <<>>
             /\ queue' = Append(queue, accepted + 1) /\ UNCHANGED <<turn, inp, delivered>>
    <2>1. Increasing(queue') /\ Items(queue') = Items(queue) \cup {accepted + 1}
      <3>1. Increasing(Append(queue, accepted + 1))
        BY <1>1, <1>2, <1>5, <1>6, IncreasingSeq
      <3>2. Items(Append(queue, accepted + 1)) = Items(queue) \cup {accepted + 1}
        BY <1>1, <1>5, ItemsOf
      <3> QED  BY <1>8, <3>1, <3>2
    <2>2. /\ Items(delivered') = Items(delivered) /\ Increasing(delivered') /\ Items(out') = Items(out)
          /\ Items(inp') = Items(inp)
      BY <1>2, <1>4, <1>8 DEF Items
    <2>3. turn' = 0 => Stuck'
      BY <1>1, <1>2, <1>8
    <2>4. \A m \in Items(inp') : m.of <= accepted + 1
      <3>1. \A m \in Items(inp) : m.of \in Nat
        <4>1. Items(inp) \subseteq LineText /\ Texts \subseteq Nat \ {0}
          BY AcpOrderParts, ItemsOf
        <4> QED  BY <4>1 DEF LineText
      <3> QED  BY <1>1, <1>2, <2>2, <3>1
    <2>5. \A t \in Items(delivered') \cup Items(queue') : t <= accepted'
      BY <1>1, <1>4, <1>6, <2>1, <2>2
    <2>6. ~observed' => \A d \in Items(delivered'), q \in Items(queue') : d < q
      BY <1>2, <1>4, <1>6, <2>1, <2>2
    <2>7. /\ \A m \in Items(inp') : m.of <= accepted'
          /\ working' <= accepted'
          /\ \A m \in Items(out') : m.type = "done" => m.of <= accepted' /\ (observed' => m.of # turn')
      BY <1>2, <1>4, <1>6, <1>8, <2>2, <2>4
    <2> QED  BY <1>1, <2>1, <2>2, <2>3, <2>5, <2>6, <2>7 DEF OrderInv
  <1> QED  BY <1>4, <1>7, <1>8

\* The end of a turn: the next text that waits goes out.
LEMMA AcpSettleOrders ==
  ASSUME TypeInv, OrderInv, Acp, AcpSettle, turn # 0, ~observed,
         UNCHANGED <<observed, fatal, working, accepted>>, Items(out') \subseteq Items(out)
  PROVE  OrderInv'
  <1>1. /\ kind = "hermes" /\ plan' = plan /\ kind' = kind /\ (Stuck => Stuck')
        /\ accepted \in Nat /\ queue \in Seq(Nat) /\ Items(delivered) \subseteq Nat /\ Items(queue) \subseteq Nat
    BY AcpOrderParts
  <1>2. /\ Increasing(delivered) /\ Increasing(queue)
        /\ \A t \in Items(delivered) \cup Items(queue) : t <= accepted
        /\ \A d \in Items(delivered), q \in Items(queue) : d < q
        /\ \A m \in Items(inp) : m.of <= accepted
        /\ working <= accepted
        /\ \A m \in Items(out) : m.type = "done" => m.of <= accepted
    BY AcpOrderParts
  <1>3. CASE queue = <<>>
    <2>1. turn' = 0 /\ UNCHANGED <<queue, inp, delivered>>
      BY <1>3 DEF AcpSettle
    <2>2. Items(queue') = {} /\ Items(inp') = Items(inp) /\ Items(delivered') = Items(delivered)
          /\ Increasing(delivered') /\ Increasing(queue') /\ queue' = <<>>
      BY <1>2, <1>3, <2>1 DEF Items, Increasing
    <2> QED  BY <1>1, <1>2, <2>1, <2>2 DEF OrderInv
  <1>4. CASE queue # <<>>
    <2>1. queue' = Tail(queue) /\ AcpStart(Head(queue))
      BY <1>4 DEF AcpSettle
    <2>2. /\ Head(queue) \in Items(queue) /\ Items(queue') \subseteq Items(queue)
          /\ Increasing(queue') /\ \A q \in Items(queue') : Head(queue) < q
      BY <1>1, <1>2, <1>4, <2>1, ItemsOf, IncreasingSeq
    <2>3. Head(queue) \in Texts
      BY <1>1, <1>4, FollowUpTypes DEF Line
    <2>4. Head(queue) <= accepted' /\ accepted <= accepted' /\ accepted' \in Nat
          /\ \A q \in Items(queue') : q <= accepted'
      BY <1>1, <1>2, <2>2
    <2>5. \A d \in Items(delivered) : d < Head(queue)
      BY <1>2, <2>2
    <2>6. \A q \in Items(queue') : \A d \in Items(delivered) \cup {Head(queue)} : fatal \/ d < q
      BY <1>2, <2>2
    <2> QED  BY <1>1, <2>1, <2>2, <2>3, <2>4, <2>5, <2>6, StartKeepsOrder
  <1> QED  BY <1>3, <1>4

\* What the transport reads.
LEMMA AcpReadOrders ==
  ASSUME TypeInv, OrderInv, Acp, AcpReads \/ AcpGuard PROVE OrderInv'
  <1> USE DEF stopping, surface, launch, pipes, process
  <1>1. /\ kind = "hermes" /\ plan' = plan /\ (Stuck => Stuck') /\ accepted \in Nat
        /\ out \in Seq(AcpMessage) /\ turn \in Nat
    BY AcpOrderParts
  <1>2. /\ working <= accepted
        /\ \A m \in Items(out) : m.type = "done" => m.of <= accepted /\ (observed => m.of # turn)
    BY AcpOrderParts
  <1>3. \A m \in Items(out) : m.type = "done" => m.of \in Nat \ {0}
    BY AcpOrderParts
  <1>4. UNCHANGED <<plan, observed, accepted, working>> /\ Items(out') \subseteq Items(out)
    <2>1. CASE AcpReads
      <3>1. out # <<>> /\ out' = Tail(out) /\ UNCHANGED <<plan, observed, accepted, working>>
        BY <2>1 DEF AcpReads
      <3> QED  BY <1>1, <3>1, ItemsOf
    <2>2. CASE AcpGuard
      <3>1. UNCHANGED <<plan, observed, accepted, working>>
        BY <2>2 DEF AcpGuard
      <3>2. PICK i \in DOMAIN out : out' = SubSeq(out, 1, i - 1)
        BY <2>2 DEF AcpGuard
      <3> QED  BY <1>1, <3>1, <3>2, ItemsOf
    <2> QED  BY <2>1, <2>2
  <1>5. ASSUME UNCHANGED <<queue, inp, delivered>>, turn' = turn \/ (turn' = 0 /\ Stuck') PROVE OrderInv'
    <2>1. Items(inp') = Items(inp) /\ working' <= accepted
      BY <1>2, <1>4, <1>5 DEF Items
    <2>2. \A m \in Items(out') : m.type = "done" => m.of <= accepted /\ (observed => m.of # turn')
      BY <1>2, <1>3, <1>4, <1>5
    <2> QED  BY <1>1, <1>4, <1>5, <2>1, <2>2, OrderCalm
  <1>6. CASE AcpGuard
    <2>1. UNCHANGED <<queue, inp, delivered>>
      BY <1>6 DEF AcpGuard
    <2>2. turn' = turn \/ (turn' = 0 /\ fatal')
      BY <1>6 DEF AcpGuard, AcpFatal
    <2> QED  BY <1>5, <2>1, <2>2 DEF Stuck
  <1>7. CASE AcpReads
    <2>1. CASE Head(out).type = "done" /\ turn = Head(out).of /\ ~fatal
      <3>1. AcpSettle /\ Quiet /\ out # <<>>
        BY <1>7, <2>1 DEF AcpReads
      <3>2. Head(out) \in Items(out)
        BY <1>1, <3>1, ItemsOf
      <3>3. turn # 0 /\ ~observed
        BY <1>2, <1>3, <2>1, <3>2
      <3>4. fatal' = fatal
        BY <3>1 DEF Quiet
      <3> QED  BY <1>4, <3>1, <3>3, <3>4, AcpSettleOrders
    <2>2. CASE ~(Head(out).type = "done" /\ turn = Head(out).of /\ ~fatal)
      <3>1. UNCHANGED <<queue, inp, delivered>> /\ (turn' = turn \/ (turn' = 0 /\ fatal'))
        BY <1>7, <2>2 DEF AcpReads, AcpFatal
      <3> QED  BY <1>5, <3>1 DEF Stuck
    <2> QED  BY <2>1, <2>2
  <1> QED  BY <1>6, <1>7
LEMMA AcpOrders == ASSUME TypeInv, ProcessInv, OrderInv, Acp PROVE OrderInv'
  <1> USE DEF stopping, surface, launch, pipes, process, base
  <1>1. kind = "hermes" /\ kind' = kind /\ plan' = plan
    BY AcpOrderParts
  <1>2. Stuck => Stuck'
    BY AcpOrderParts
  <1>3. /\ accepted \in Nat /\ inp \in Seq(LineText) /\ out \in Seq(AcpMessage) /\ working \in Nat
    BY AcpOrderParts
  <1>4. /\ Increasing(delivered) /\ Increasing(queue)
        /\ \A t \in Items(delivered) \cup Items(queue) : t <= accepted
        /\ \A m \in Items(inp) : m.of <= accepted
        /\ working <= accepted
        /\ \A m \in Items(out) : m.type = "done" => m.of <= accepted /\ (observed => m.of # turn)
    BY AcpOrderParts
  <1>5. \A m \in Items(out) : m.type = "done" => m.of \in Nat \ {0}
    BY AcpOrderParts
  <1>6. ASSUME UNCHANGED <<observed, turns, inp, out>> PROVE OrderInv'
    BY <1>1, <1>2, <1>6, OrderStays
  <1>7. ASSUME NEW m \in AcpMessage, Emits(m) PROVE ~observed /\ Items(out') = Items(out) \cup {m}
    BY <1>3, <1>7, ItemsOf DEF Emits, ProcessInv
  <1>8. CASE AcpProvider
    <2>1. UNCHANGED <<observed, queue, accepted, delivered, turn>>
      BY <1>8 DEF AcpProvider
    <2>2. CASE TakesText
      <3>1. /\ working' = Head(inp).of /\ inp' = Tail(inp) /\ out' = out
            /\ Head(inp) \in Items(inp) /\ Items(inp') \subseteq Items(inp)
        BY <1>3, <2>2, ItemsOf DEF TakesText
      <3> QED  BY <1>1, <1>2, <1>4, <2>1, <3>1, OrderCalm
    <2>3. CASE AcpAnswers
      <3>1. [type |-> "done", of |-> working] \in AcpMessage /\ working # 0
        <4>1. working \in Texts
          BY <2>3, PlanType DEF AcpAnswers, TypeInv, HubTypes, DialectTypes, Texts
        <4> QED  BY <2>3, <4>1 DEF AcpAnswers, AcpMessage
      <3>2. ~observed /\ Items(out') = Items(out) \cup {[type |-> "done", of |-> working]}
        BY <1>7, <2>3, <3>1 DEF AcpAnswers
      <3>3. working' = 0 /\ inp' = inp
        BY <2>3 DEF AcpAnswers
      <3>4. \A m \in Items(out') : m.type = "done" => m.of <= accepted
        BY <1>4, <3>2
      <3> QED  BY <1>1, <1>2, <1>3, <2>1, <3>2, <3>3, <3>4, OrderCalm
    <2>4. CASE AcpShakes \/ AcpAsks \/ AcpMisnames \/ EmitsGarbage
      <3>1. PICK m \in AcpMessage : Emits(m) /\ m.type # "done" /\ UNCHANGED <<inp, working>>
        <4>1. CASE AcpShakes
          BY <4>1 DEF AcpShakes, AcpMessage, AcpAnswer
        <4>2. CASE AcpAsks
          <5>1. \A p \in Perms : [type |-> "asks", of |-> p] \in AcpMessage
            BY DEF AcpMessage
          <5> QED  BY <4>2, <5>1 DEF AcpAsks
        <4>3. CASE AcpMisnames \/ EmitsGarbage
          BY <4>3 DEF AcpMisnames, EmitsGarbage, AcpMessage
        <4> QED  BY <2>4, <4>1, <4>2, <4>3
      <3>2. Items(out') = Items(out) \cup {m} /\ Items(inp') = Items(inp)
        BY <1>7, <3>1 DEF Items
      <3>3. \A e \in Items(out') : e.type = "done" => e.of <= accepted /\ (observed => e.of # turn')
        BY <1>4, <2>1, <3>1, <3>2
      <3> QED  BY <1>1, <1>2, <1>4, <2>1, <3>1, <3>2, <3>3, OrderCalm
    <2> QED  BY <1>8, <2>2, <2>3, <2>4 DEF AcpProvider
  <1>9. CASE \/ AcpSpawn \/ AcpReported \/ AcpReportFails \/ AcpOpens \/ AcpOpenFails \/ AcpVerdict
             \/ AcpPermissionTimer
    BY <1>6, <1>9 DEF AcpSpawn, AcpReported, AcpReportFails, AcpOpens, AcpOpenFails, AcpVerdict, AcpPermissionTimer
  <1>10. CASE AcpCancel
    BY <1>6, <1>10 DEF AcpCancel, turns
  <1>11. CASE AcpStop \/ AcpChainedStop
    BY <1>6, <1>11 DEF AcpStop, AcpChainedStop, AcpShutdown, FirstStop, ChainedStop
  <1>12. CASE AcpExits
    <2>1. /\ turn' = 0 /\ working' = 0 /\ inp' = <<>> /\ observed' = TRUE
          /\ UNCHANGED <<out, queue, delivered, accepted>>
      BY <1>12 DEF AcpExits
    <2>2. Items(inp') = {} /\ Items(out') = Items(out)
      BY <2>1 DEF Items
    <2>3. \A m \in Items(out') : m.type = "done" => m.of <= accepted /\ m.of # turn'
      BY <1>4, <1>5, <2>1, <2>2
    <2>4. Increasing(delivered') /\ Increasing(queue') /\ \A t \in Items(delivered') \cup Items(queue') : t <= accepted'
      BY <1>4, <2>1 DEF Increasing, Items
    <2> QED  BY <1>1, <1>3, <2>1, <2>2, <2>3, <2>4 DEF OrderInv, Stuck
  <1> QED  BY <1>8, <1>9, <1>10, <1>11, <1>12, AcpSendOrders, AcpReadOrders DEF Acp, AcpHub

\* Every step keeps the order of the texts.
LEMMA OrderKept == ASSUME TypeInv, ProcessInv, OrderInv, [Next]_vars PROVE OrderInv'
  <1>1. plan' = plan /\ kind' = kind
    BY PlanStays DEF kind
  <1>2. CASE UNCHANGED vars
    <2>1. UNCHANGED <<plan, observed, turns, inp, out, fatal, stdin>>
      BY <1>2 DEF vars, base, surface, pipes
    <2> QED  BY <2>1, OrderStays DEF Stuck, kind
  <1>3. CASE Shared
    <2>1. UNCHANGED <<turns, inp, out>>
      BY <1>3, StopStepTypes DEF Shared, TypeInv, pipes
    <2>2. Stuck => Stuck'
      BY <1>1, <1>3, StuckKept DEF Next
    <2>3. observed' = observed
      BY <1>3 DEF Shared, ProcessStep, FirstStop, ChainedStop, LaterStop, LadderStep, LadderTimer, LadderExit,
         LadderProven, LadderGroup, LadderRest, BackgroundKill, BackgroundTimer, BackgroundGroup, surface
    <2> QED  BY <1>1, <2>1, <2>2, <2>3, OrderStays
  <1>4. CASE RpcSteps
    <2>1. kind \in Rpc /\ UNCHANGED turns
      BY <1>4, RpcKind DEF RpcSteps
    <2>2. UNCHANGED <<turn, queue, accepted, delivered, working>> /\ kind' \notin Line /\ kind' \notin {"agy", "hermes"}
      BY <1>1, <2>1 DEF turns, Rpc, Line
    <2>3. observed' = observed \/ observed' = TRUE
      BY <1>4, StuckStays DEF Next
    <2>4. UNCHANGED <<Items(delivered), Items(queue), Increasing(delivered), Increasing(queue)>>
      BY <2>2 DEF Items, Increasing
    <2> QED  BY <2>1, <2>2, <2>3, <2>4 DEF OrderInv, Rpc
  <1> QED  BY <1>2, <1>3, <1>4, AgyOrders, AcpOrders DEF Next

(***************************************************************************)
(* Texts reach the provider in the order they were accepted, each once,    *)
(* and none waits in the queue of a line transport behind no turn while    *)
(* the stream is sound (startTurn, settleTurn, the queue of follow-ups).   *)
(***************************************************************************)
THEOREM FollowUpsInOrderAlways == Spec => []FollowUpsInOrder
  <1>1. Init => ProcessInv /\ OrderInv
    BY DEF Init, TransportInit, TurnsInit, Resting, ProcessInv, OrderInv, Increasing, Items
  <1>2. Sound /\ ProcessInv /\ OrderInv /\ [Next]_vars => ProcessInv' /\ OrderInv'
    BY ProcessKept, OrderKept DEF Sound
  <1>3. Sound /\ ProcessInv /\ OrderInv => FollowUpsInOrder
    <2> SUFFICES ASSUME TypeInv, OrderInv PROVE FollowUpsInOrder
      BY DEF Sound
    <2>1. Stuck => ~Writable
      BY DEF Stuck, Writable
    <2> QED  BY <2>1 DEF OrderInv, Increasing, FollowUpsInOrder
  <1> QED  BY <1>1, <1>2, <1>3, SoundAlways, PTL DEF Spec

-----------------------------------------------------------------------------
(* The status of an rpc session.                                           *)

Cycle == {"agent_start", "agent_end", "agent_settled"}

\* A place of the pipe that tells where the provider was, 0 being what was read last.
Life(i) == i = 0 \/ out[i].type \in Cycle
Now(i) == IF i = 0 THEN lifecycle ELSE out[i].now

\* A run goes on only while there is one; these are written only while there is none.
Goes(m) == m.type = "agent_end" /\ m.of = "more"
Rests(m) ==
  /\ m.type = "response"
  /\ m.of = "local" \/ (m.cmd = "cancel" /\ m.of \notin {"failed", "misdelivered"})

\* What each lifecycle frame says of the provider holds up to the next one.
FramesInv ==
  \A i \in 0 .. Len(out) : Life(i) =>
    /\ leader = "alive" /\ (\A k \in (i + 1) .. Len(out) : ~Life(k)) => (run <=> Now(i) = "running")
    /\ \A j \in (i + 1) .. Len(out) : (\A k \in (i + 1) .. (j - 1) : ~Life(k)) =>
         /\ Goes(out[j]) => Now(i) = "running"
         /\ Rests(out[j]) => Now(i) # "running"

LEMMA FramesStay ==
  ASSUME FramesInv, UNCHANGED <<out, lifecycle, run>>, leader' = leader \/ leader' # "alive"
  PROVE  FramesInv'
  BY DEF FramesInv, Life, Now, Goes, Rests

\* A frame that the provider writes.
LEMMA FramesGrow ==
  ASSUME FramesInv, NEW S, out \in Seq(S), NEW e \in S, out' = Append(out, e), lifecycle' = lifecycle,
         run \in BOOLEAN, run' \in BOOLEAN,
         leader = "alive", Goes(e) => run, Rests(e) => ~run,
         e.type \in Cycle => (run' <=> e.now = "running"),
         e.type \notin Cycle => run' = run
  PROVE  FramesInv'
  <1>0. PICK n \in Nat : n = Len(out)
    OBVIOUS
  <1>1. Len(out') = n + 1 /\ out'[n + 1] = e /\ \A i \in 1 .. n : out'[i] = out[i]
    BY <1>0, Appended
  <1>2. \A i \in 0 .. n : (Life(i)' <=> Life(i)) /\ Now(i)' = Now(i)
    BY <1>1 DEF Life, Now
  <1>3. (Life(n + 1)' <=> e.type \in Cycle) /\ Now(n + 1)' = e.now
    BY <1>1 DEF Life, Now
  <1> SUFFICES ASSUME NEW i \in 0 .. n + 1, Life(i)'
      PROVE /\ (\A k \in (i + 1) .. n + 1 : ~Life(k)') => (run' <=> Now(i)' = "running")
            /\ \A j \in (i + 1) .. n + 1 : (\A k \in (i + 1) .. (j - 1) : ~Life(k)') =>
                 /\ Goes(out'[j]) => Now(i)' = "running"
                 /\ Rests(out'[j]) => Now(i)' # "running"
    BY <1>0, <1>1 DEF FramesInv, Goes, Rests
  <1>4. CASE i = n + 1
    BY <1>3, <1>4
  <1>5. CASE i \in 0 .. n
    <2>1. Life(i) /\ Now(i)' = Now(i)
      BY <1>2, <1>5
    <2>2. /\ (\A k \in (i + 1) .. n : ~Life(k)) => (run <=> Now(i) = "running")
          /\ \A j \in (i + 1) .. n : (\A k \in (i + 1) .. (j - 1) : ~Life(k)) =>
               /\ Goes(out[j]) => Now(i) = "running"
               /\ Rests(out[j]) => Now(i) # "running"
      BY <1>0, <1>5, <2>1 DEF FramesInv
    <2>3. \A k \in (i + 1) .. n : Life(k)' <=> Life(k)
      BY <1>1, <1>2, <1>5
    <2>4. ASSUME \A k \in (i + 1) .. n + 1 : ~Life(k)' PROVE run' <=> Now(i)' = "running"
      <3>1. e.type \notin Cycle
        BY <1>1, <1>3, <1>5, <2>4
      <3>2. \A k \in (i + 1) .. n : ~Life(k)
        BY <1>1, <2>3, <2>4
      <3> QED  BY <2>1, <2>2, <3>1, <3>2
    <2>5. ASSUME NEW j \in (i + 1) .. n + 1, \A k \in (i + 1) .. (j - 1) : ~Life(k)'
          PROVE  /\ Goes(out'[j]) => Now(i)' = "running"
                 /\ Rests(out'[j]) => Now(i)' # "running"
      <3>1. \A k \in (i + 1) .. (j - 1) : ~Life(k)
        BY <1>1, <1>5, <2>3, <2>5
      <3>2. CASE j \in (i + 1) .. n
        <4>1. out'[j] = out[j]
          BY <1>1, <1>5, <3>2
        <4> QED  BY <2>1, <2>2, <3>1, <3>2, <4>1
      <3>3. CASE j = n + 1
        <4>1. run <=> Now(i) = "running"
          BY <1>1, <2>2, <3>1, <3>3
        <4> QED  BY <1>1, <2>1, <3>3, <4>1
      <3> QED  BY <1>1, <1>5, <3>2, <3>3
    <2> QED  BY <2>4, <2>5
  <1> QED  BY <1>1, <1>4, <1>5

\* A frame that is read.
LEMMA FramesShrink ==
  ASSUME FramesInv, NEW S, out \in Seq(S), out # <<>>, out' = Tail(out), UNCHANGED <<run, leader>>,
         lifecycle' = IF Head(out).type \in Cycle THEN Head(out).now ELSE lifecycle
  PROVE  FramesInv'
  <1>0. PICK n \in Nat : n = Len(out)
    OBVIOUS
  <1>1. /\ n > 0 /\ Len(out') = n - 1 /\ Head(out) = out[1]
        /\ \A i \in 1 .. n - 1 : out'[i] = out[i + 1]
    BY <1>0, Headless
  <1>2. \A i \in 1 .. n - 1 : (Life(i)' <=> Life(i + 1)) /\ Now(i)' = Now(i + 1)
    BY <1>1 DEF Life, Now
  \* The last place that tells, among those that were read.
  <1>3. Life(0) /\ Life(0)' /\ Now(0)' = (IF Life(1) THEN Now(1) ELSE Now(0))
    BY <1>1 DEF Life, Now
  <1> SUFFICES ASSUME NEW i \in 0 .. n - 1, Life(i)'
      PROVE /\ leader = "alive" /\ (\A k \in (i + 1) .. n - 1 : ~Life(k)') => (run <=> Now(i)' = "running")
            /\ \A j \in (i + 1) .. n - 1 : (\A k \in (i + 1) .. (j - 1) : ~Life(k)') =>
                 /\ Goes(out'[j]) => Now(i)' = "running"
                 /\ Rests(out'[j]) => Now(i)' # "running"
    BY <1>0, <1>1 DEF FramesInv, Goes, Rests
  <1>5. PICK h \in 0 .. n : Life(h) /\ Now(i)' = Now(h) /\ h \in {i, i + 1} /\ (h = i => i = 0 /\ ~Life(1))
    <2>1. CASE i = 0
      BY <1>1, <1>3, <2>1
    <2>2. CASE i # 0
      BY <1>1, <1>2, <2>2
    <2> QED  BY <2>1, <2>2
  <1>6. ASSUME NEW b \in 1 .. n, \A k \in (i + 1) .. (b - 1) : ~Life(k)' PROVE \A k \in (h + 1) .. b : ~Life(k)
    <2> SUFFICES ASSUME NEW k \in (h + 1) .. b, k \in Nat PROVE ~Life(k)
      OBVIOUS
    <2>1. CASE h = i /\ k = i + 1
      BY <1>5, <2>1
    <2>2. CASE ~(h = i /\ k = i + 1)
      <3>1. k - 1 \in (i + 1) .. (b - 1) /\ k - 1 \in 1 .. n - 1
        BY <1>5, <2>2
      <3>2. Life(k - 1)' <=> Life((k - 1) + 1)
        BY <1>2, <3>1
      <3> QED  BY <1>6, <3>1, <3>2
    <2> QED  BY <2>1, <2>2
  <1>7. ASSUME leader = "alive", \A k \in (i + 1) .. n - 1 : ~Life(k)' PROVE run <=> Now(i)' = "running"
    <2>1. \A k \in (h + 1) .. n : ~Life(k)
      BY <1>1, <1>6, <1>7
    <2> QED  BY <1>0, <1>5, <1>7, <2>1 DEF FramesInv
  <1>8. ASSUME NEW j \in (i + 1) .. n - 1, \A k \in (i + 1) .. (j - 1) : ~Life(k)'
        PROVE  /\ Goes(out'[j]) => Now(i)' = "running"
               /\ Rests(out'[j]) => Now(i)' # "running"
    <2>1. j \in Nat /\ j + 1 \in (h + 1) .. n /\ out'[j] = out[j + 1] /\ j <= n
      BY <1>1, <1>5
    <2>2. \A k \in (h + 1) .. ((j + 1) - 1) : ~Life(k)
      BY <1>6, <1>8, <2>1
    <2> QED  BY <1>0, <1>5, <2>1, <2>2 DEF FramesInv
  <1> QED  BY <1>7, <1>8

\* Nothing tells yet, and there is no run.
LEMMA FramesFresh ==
  ASSUME \A m \in Items(out') : m.type \notin Cycle, ~run', lifecycle' = "none"
  PROVE  FramesInv'
  <1>1. \A j \in 1 .. Len(out') : out'[j].type \notin Cycle
    BY DEF Items
  <1> QED  BY <1>1 DEF FramesInv, Life, Now, Goes, Rests, Cycle

\* Before the launch is open the provider has no turn and nothing of one.
Early ==
  phase # "open" =>
    /\ due = 0 /\ ~run /\ lifecycle = "none"
    /\ \A q \in Items(inp) : q.cmd \in Shaking
    /\ \A m \in Items(out) : m.type \notin Cycle

\* What is asked and answered is what waits under its id, or nothing waits there.
Matched ==
  /\ \A q \in Items(inp) : q.id \in 1 .. reqs /\ pend[q.id] \in {"none", q.cmd}
  /\ \A m \in Items(out) : m.type = "response" => m.id \in 1 .. reqs /\ pend[m.id] \in {"none", m.cmd}

\* How each dialect ends a run.
Dialect ==
  \A m \in Items(out) :
    /\ m.type = "agent_settled" => kind = "pi"
    /\ m.type = "agent_end" /\ m.of = "terminal" => kind = "omp"

Terminal == {"closed", "error", "orphaned"}

\* The status agrees with what was read, and so will it when a cancel is settled.
StatusOK ==
  /\ ended => status \in Terminal
  /\ status = "running" => lifecycle = "running"
  /\ status = "idle" => lifecycle # "running"
  /\ \A a \in Items(micro) : a.ok /\ a.cmd = "cancel" /\ status = "cancelling" => lifecycle # "running"

StatusInv == Early /\ Matched /\ Dialect /\ FramesInv /\ StatusOK

\* A status that is kept, or is none of a turn.
LEMMA StatusHolds ==
  ASSUME StatusOK, lifecycle' = lifecycle, status' = status \/ status' \notin {"running", "idle", "cancelling"},
         ended' => status' \in Terminal,
         \A a \in Items(micro') : a \in Items(micro) \/ ~a.ok
  PROVE  StatusOK'
  BY DEF StatusOK

\* A step that leaves the pipes and the commands as they are.
LEMMA StatusCalm ==
  ASSUME StatusInv, UNCHANGED <<plan, run, due, lifecycle, inp, out, reqs, pend>>,
         phase' = "open" \/ phase # "open", leader' = leader \/ leader' # "alive", StatusOK'
  PROVE  StatusInv'
  <1>1. UNCHANGED <<kind, Items(inp), Items(out)>>
    BY DEF Items, kind
  <1>2. FramesInv'
    BY FramesStay DEF StatusInv
  <1> QED  BY <1>1, <1>2 DEF StatusInv, Early, Matched, Dialect

\* The steps that all classes share.
LEMMA SharedStatus == ASSUME TypeInv, kind \in Rpc, StatusInv, Shared PROVE StatusInv'
  <1> USE DEF stopping, surface, launch, pipes, process, rpc
  <1>1. UNCHANGED <<plan, phase, inp, out, micro, run, due, lifecycle, reqs, pend>>
    BY StopStepTypes DEF Shared
  <1>2. ended => status \in Terminal
    BY DEF StatusInv, StatusOK
  <1>3. /\ leader' = leader \/ leader' # "alive"
        /\ ended' = ended
        /\ status' = status \/ status' \notin {"running", "idle", "cancelling"}
        /\ ended' => status' \in Terminal
    <2>1. CASE ProcessStep \/ BackgroundKill
      BY <1>2, <2>1 DEF ProcessStep, LeaderExits, HelperExits, KillLands, BackgroundKill, BackgroundTimer,
         BackgroundGroup, SignalGroup
    <2>2. ASSUME NEW i \in DOMAIN attempts, LadderTimer(i) \/ LadderExit(i) \/ LadderProven(i) \/ LadderGroup(i)
          PROVE  UNCHANGED <<leader, ended>> /\ (status' = status \/ status' = "orphaned")
      <3>1. UNCHANGED ended
        BY <2>2 DEF LadderTimer, LadderExit, LadderProven, LadderGroup, LadderRest
      <3>2. UNCHANGED leader
        BY <2>2 DEF LadderTimer, LadderExit, LadderProven, LadderGroup, SignalGroup
      <3>3. status' = status \/ status' = "orphaned"
        BY <2>2 DEF LadderTimer, LadderExit, LadderProven, LadderGroup, Settle
      <3> QED  BY <3>1, <3>2, <3>3
    <2>3. ASSUME NEW mode \in Modes, Shutdown(mode)
          PROVE  UNCHANGED leader /\ (status' = status \/ (status' = "closing" /\ ~ended))
      BY <2>3 DEF Shutdown, RpcStatus
    <2>4. ASSUME NEW mode \in Modes, FirstStop(mode) \/ LaterStop(mode)
          PROVE  UNCHANGED <<leader, ended>> /\ (status' = status \/ (status' = "closing" /\ ~ended) \/ status' = "closed")
      BY <2>3, <2>4 DEF FirstStop, LaterStop
    <2>5. ASSUME NEW i \in DOMAIN attempts, ChainedStop(i)
          PROVE  UNCHANGED <<leader, ended>> /\ (status' = status \/ (status' = "closing" /\ ~ended))
      <3>1. "terminate" \in Modes
        BY DEF Modes
      <3> QED  BY <2>3, <2>5, <3>1 DEF ChainedStop
    <2>6. CASE LadderStep
      <3>1. UNCHANGED <<leader, ended>> /\ (status' = status \/ status' = "orphaned")
        BY <2>2, <2>6 DEF LadderStep
      <3> QED  BY <1>2, <3>1 DEF Terminal
    <2> QED  BY <1>2, <2>1, <2>4, <2>5, <2>6 DEF Shared, Terminal
  <1>4. StatusOK'
    BY <1>1, <1>3, StatusHolds DEF StatusInv
  <1> QED  BY <1>1, <1>3, <1>4, StatusCalm

\* A frame that goes into the pipe as the provider's run allows.
LEMMA WritesStatus ==
  ASSUME TypeInv, kind \in Rpc, StatusInv, NEW e \in RpcFrame, Writes(e),
         UNCHANGED <<plan, phase, lifecycle, leader, micro, status, ended, reqs, pend>>,
         Items(inp') \subseteq Items(inp), run' \in BOOLEAN,
         Goes(e) => run, Rests(e) => ~run,
         e.type \in Cycle => phase = "open" /\ (run' <=> e.now = "running"),
         e.type \notin Cycle => run' = run,
         phase # "open" => due' = 0,
         e.type = "response" => e.id \in 1 .. reqs /\ pend[e.id] \in {"none", e.cmd},
         e.type = "agent_settled" => kind = "pi",
         e.type = "agent_end" /\ e.of = "terminal" => kind = "omp"
  PROVE  StatusInv'
  <1>1. /\ out \in Seq(RpcFrame) /\ run \in BOOLEAN /\ leader = "alive" /\ out' = Append(out, e)
        /\ Items(out') = Items(out) \cup {e} /\ kind' = kind
    <2>1. out \in Seq(RpcFrame) /\ run \in BOOLEAN /\ leader = "alive" /\ out' = Append(out, e)
      BY RpcPartsNow DEF TypeInv, DialectTypes, Writes
    <2> QED  BY <2>1, ItemsOf DEF kind
  <1>2. Early'
    BY <1>1 DEF StatusInv, Early
  <1>3. Matched'
    BY <1>1 DEF StatusInv, Matched
  <1>4. Dialect'
    BY <1>1 DEF StatusInv, Dialect
  <1>5. FramesInv'
    BY <1>1, FramesGrow DEF StatusInv
  <1>6. StatusOK'
    BY DEF StatusInv, StatusOK
  <1> QED  BY <1>2, <1>3, <1>4, <1>5, <1>6 DEF StatusInv

\* The provider answers, begins and ends its runs.
LEMMA ProviderStatus == ASSUME TypeInv, StatusInv, RpcSteps, RpcProvider PROVE StatusInv'
  <1>1. /\ kind \in Rpc /\ TypeInv /\ inp \in Seq(RpcRequest) /\ run \in BOOLEAN
        /\ UNCHANGED <<plan, phase, lifecycle, leader, micro, status, ended, reqs, pend>>
    BY RpcKind, RpcPartsNow DEF RpcProvider, process, surface, TypeInv, DialectTypes
  <1>2. phase # "open" => due = 0 /\ ~run /\ \A q \in Items(inp) : q.cmd \in Shaking
    BY DEF StatusInv, Early
  <1>3. ASSUME NEW e \in RpcFrame, Writes(e), e.type \notin Cycle \cup {"response"}, UNCHANGED <<inp, run, due>>
        PROVE  StatusInv'
    <2>1. Items(inp') = Items(inp)
      BY <1>3 DEF Items
    <2> QED  BY <1>1, <1>2, <1>3, <2>1, WritesStatus DEF Cycle, Goes, Rests
  <1>4. CASE RpcReady
    <2>1. PICK of \in {"v2", "v1"} : Writes([type |-> "ready", of |-> of]) /\ UNCHANGED <<inp, run, due>>
      BY <1>4 DEF RpcReady
    <2>2. [type |-> "ready", of |-> of] \in RpcFrame
      BY DEF RpcFrame
    <2> QED  BY <1>3, <2>1, <2>2 DEF Cycle
  <1>5. CASE RpcGarbage
    <2>1. [type |-> "garbage"] \in RpcFrame
      BY DEF RpcFrame
    <2> QED  BY <1>3, <1>5, <2>1 DEF RpcGarbage, Cycle
  <1>6. CASE RpcReplies
    <2> DEFINE request == Head(inp)
    <2>1. request \in Items(inp) /\ Items(inp') \subseteq Items(inp) /\ request \in RpcRequest
      BY <1>1, <1>6, ItemsOf, Headless DEF RpcReplies
    <2>2. PICK of \in Said : /\ Writes(Response(request, of)) /\ run' = run
                             /\ request.cmd = "cancel" => ~run
                             /\ of = "local" => ~run
                             /\ due' = due \/ request.cmd \in {"prompt", "follow_up"}
      <3>1. session \in Sessions /\ session' \in Sessions
        BY <1>1, <1>6, RepliesTypes DEF TypeInv, HubTypes
      <3> QED  BY <1>6, <3>1 DEF RpcReplies, Said, Sessions
    <2>3. Response(request, of) \in RpcFrame
      BY <2>1, ResponseType DEF Response
    <2>4. /\ Response(request, of).type = "response" /\ Response(request, of).id = request.id
          /\ Response(request, of).cmd = request.cmd /\ Response(request, of).of = of
      BY DEF Response
    <2>5. request.id \in 1 .. reqs /\ pend[request.id] \in {"none", request.cmd}
      BY <2>1 DEF StatusInv, Matched
    <2>6. phase # "open" => due' = 0
      BY <1>2, <2>1, <2>2 DEF Shaking
    <2> HIDE DEF request
    <2> QED  BY <1>1, <2>1, <2>2, <2>3, <2>4, <2>5, <2>6, WritesStatus DEF Cycle, Goes, Rests
  <1>7. CASE RpcBegins
    <2> DEFINE e == [type |-> "agent_start", now |-> "running"]
    <2>1. /\ e \in RpcFrame /\ e.type = "agent_start" /\ e.now = "running"
      BY DEF RpcFrame
    <2>2. Writes(e) /\ run' = TRUE /\ phase = "open" /\ inp' = inp
      BY <1>2, <1>7 DEF RpcBegins
    <2>3. Items(inp') = Items(inp)
      BY <2>2 DEF Items
    <2> HIDE DEF e
    <2> QED  BY <1>1, <2>1, <2>2, <2>3, WritesStatus DEF Cycle, Goes, Rests
  <1>8. CASE RpcEnds \/ RpcGoesOn
    <2>1. run /\ phase = "open" /\ inp' = inp
      BY <1>2, <1>8 DEF RpcEnds, RpcGoesOn
    <2>2. PICK e \in RpcFrame : /\ Writes(e) /\ e.type \in Cycle /\ run' \in BOOLEAN /\ (run' <=> e.now = "running")
                                /\ e.type = "agent_settled" => kind = "pi"
                                /\ e.type = "agent_end" /\ e.of = "terminal" => kind = "omp"
      <3>1. CASE RpcEnds
        <4>1. /\ [type |-> "agent_end", of |-> "terminal", now |-> "idle"] \in RpcFrame
              /\ [type |-> "agent_settled", now |-> "idle"] \in RpcFrame
          BY DEF RpcFrame
        <4> QED  BY <1>1, <3>1, <4>1 DEF RpcEnds, Cycle, Rpc
      <3>2. CASE RpcGoesOn
        <4>1. [type |-> "agent_end", of |-> "more", now |-> "running"] \in RpcFrame
          BY DEF RpcFrame
        <4> QED  BY <1>1, <2>1, <3>2, <4>1 DEF RpcGoesOn, Cycle
      <3> QED  BY <1>8, <3>1, <3>2
    <2>3. Items(inp') = Items(inp)
      BY <2>1 DEF Items
    <2> QED  BY <1>1, <2>1, <2>2, <2>3, WritesStatus DEF Cycle, Goes, Rests
  <1> QED  BY <1>4, <1>5, <1>6, <1>7, <1>8 DEF RpcProvider

\* A command that is sent waits under an id of its own.
LEMMA RequestStatus ==
  ASSUME TypeInv, kind \in Rpc, StatusInv, NEW cmd \in Commands, Request(cmd), reqs + 1 <= MaxReqs,
         UNCHANGED <<plan, leader, out, run, due, lifecycle>>,
         phase' = "open" <=> phase = "open", phase # "open" => cmd \in Shaking,
         StatusOK'
  PROVE  StatusInv'
  <1> DEFINE q == [id |-> reqs + 1, cmd |-> cmd]
  <1>1. /\ reqs \in Nat /\ pend \in [1 .. MaxReqs -> Commands \cup {"none"}]
        /\ inp \in Seq(RpcRequest) /\ out \in Seq(RpcFrame) /\ MaxReqs \in Nat
    BY RpcPartsNow, ShakeNumbers
  <1>2. q \in RpcRequest /\ q.id = reqs + 1 /\ q.cmd = cmd
    BY <1>1 DEF RpcRequest
  <1>3. reqs' = reqs + 1 /\ pend' = [pend EXCEPT ![reqs + 1] = cmd] /\ (inp' = inp \/ inp' = Append(inp, q))
    BY DEF Request
  <1> HIDE DEF q
  <1>4. pend'[reqs + 1] = cmd /\ \A id \in 1 .. reqs : pend'[id] = pend[id] /\ id \in 1 .. reqs + 1
    BY <1>1, <1>3
  <1>5. Items(inp') \subseteq Items(inp) \cup {q} /\ Items(out') = Items(out) /\ kind' = kind
    <2>1. Items(Append(inp, q)) = Items(inp) \cup {q}
      BY <1>1, <1>2, ItemsOf
    <2> QED  BY <1>3, <2>1 DEF Items, kind
  <1>6. Matched'
    <2>1. \A r \in Items(inp') : r.id \in 1 .. reqs' /\ pend'[r.id] \in {"none", r.cmd}
      <3> SUFFICES ASSUME NEW r \in Items(inp') PROVE r.id \in 1 .. reqs' /\ pend'[r.id] \in {"none", r.cmd}
        OBVIOUS
      <3>1. CASE r \in Items(inp)
        BY <1>3, <1>4, <3>1 DEF StatusInv, Matched
      <3>2. CASE r = q
        BY <1>1, <1>2, <1>3, <1>4, <3>2
      <3> QED  BY <1>5, <3>1, <3>2
    <2>2. \A m \in Items(out') : m.type = "response" => m.id \in 1 .. reqs' /\ pend'[m.id] \in {"none", m.cmd}
      BY <1>3, <1>4, <1>5 DEF StatusInv, Matched
    <2> QED  BY <2>1, <2>2 DEF Matched
  <1>7. Early'
    BY <1>2, <1>5 DEF StatusInv, Early
  <1>8. Dialect'
    BY <1>5 DEF StatusInv, Dialect
  <1>9. FramesInv'
    BY FramesStay DEF StatusInv
  <1> QED  BY <1>6, <1>7, <1>8, <1>9 DEF StatusInv

\* A command that waits no more.
LEMMA PendMatched ==
  ASSUME TypeInv, kind \in Rpc, Matched, reqs <= MaxReqs, reqs' = reqs,
         \A id \in 1 .. reqs : pend'[id] \in {"none", pend[id]},
         Items(inp') \subseteq Items(inp), Items(out') \subseteq Items(out)
  PROVE  Matched'
  <1>1. \A q \in Items(inp') : q.id \in 1 .. reqs' /\ pend'[q.id] \in {"none", q.cmd}
    BY DEF Matched
  <1>2. \A m \in Items(out') : m.type = "response" => m.id \in 1 .. reqs' /\ pend'[m.id] \in {"none", m.cmd}
    BY DEF Matched
  <1> QED  BY <1>1, <1>2 DEF Matched

\* The launch: the provider comes up, the handshake begins or fails.
LEMMA LaunchStatus ==
  ASSUME TypeInv, ShakeInv, ShakeInv', StatusInv, RpcSpawn \/ RpcReported \/ RpcGate \/ RpcFatalOpen
  PROVE  StatusInv'
  <1> USE DEF stopping, surface, launch, pipes, process, rpc
  <1>1. /\ kind \in Rpc /\ kind' = kind /\ UNCHANGED <<plan, out, micro, run, due, lifecycle>> /\ phase # "open"
        /\ MaxReqs' = MaxReqs /\ phase' # "open"
    BY DEF RpcSpawn, RpcReported, RpcGate, RpcFatalOpen, RpcFailLaunch, Rpc, kind, MaxReqs
  <1>2. CASE RpcSpawn
    <2>1. UNCHANGED <<inp, reqs, pend>>
      BY <1>2 DEF RpcSpawn
    <2>2. StatusOK'
      <3>1. (UNCHANGED <<status, ended>> \/ (status' = "error" /\ ended' = TRUE))
        BY <1>2 DEF RpcSpawn
      <3> QED  BY <1>1, <3>1, StatusHolds DEF StatusInv, StatusOK, Terminal
    <2>3. FramesInv'
      <3>1. \A m \in Items(out') : m.type \notin Cycle
        BY <1>1 DEF StatusInv, Early, Items
      <3>2. ~run' /\ lifecycle' = "none"
        BY <1>1 DEF StatusInv, Early
      <3> QED  BY <3>1, <3>2, FramesFresh
    <2>4. Items(inp') = Items(inp) /\ Items(out') = Items(out)
      BY <1>1, <2>1 DEF Items
    <2> QED  BY <1>1, <2>1, <2>2, <2>3, <2>4 DEF StatusInv, Early, Matched, Dialect
  <1>3. CASE ~RpcSpawn
    <2>1. UNCHANGED <<leader, status, ended>>
      BY <1>3 DEF RpcReported, RpcGate, RpcFatalOpen, RpcSpawn
    <2>2. StatusOK'
      BY <1>1, <2>1, StatusHolds DEF StatusInv, StatusOK
    <2>3. CASE UNCHANGED <<inp, reqs, pend>>
      BY <1>1, <2>1, <2>2, <2>3, StatusCalm
    <2>4. ASSUME NEW cmd \in Shaking, Request(cmd) PROVE StatusInv'
      <3>1. cmd \in Commands
        BY DEF Commands
      <3>2. reqs + 1 <= MaxReqs
        BY <1>1, <2>4 DEF Request, ShakeInv
      <3> QED  BY <1>1, <2>1, <2>2, <2>4, <3>1, <3>2, RequestStatus
    <2> QED  BY <1>3, <2>3, <2>4 DEF RpcReported, RpcGate, RpcFatalOpen, Shaking
  <1> QED  BY <1>2, <1>3

\* All that wait are rejected: nothing of it says yes.
LEMMA RejectStatus ==
  ASSUME TypeInv, kind \in Rpc, RejectAll
  PROVE  /\ \A id \in 1 .. MaxReqs : pend'[id] = "none"
         /\ \A a \in Items(micro') : a \in Items(micro) \/ ~a.ok
  <1> DEFINE late == [type |-> "answer", cmd |-> "state", ok |-> FALSE, of |-> "closed"]
  <1>1. late \in RpcAnswer /\ ~late.ok /\ micro \in Seq(RpcAnswer)
    BY RpcPartsNow DEF RpcAnswer, Commands, Shaking
  <1>2. micro' = micro \/ micro' = Append(micro, late)
    BY DEF RejectAll
  <1> HIDE DEF late
  <1>3. Items(Append(micro, late)) = Items(micro) \cup {late}
    BY <1>1, ItemsOf
  <1>4. \A a \in Items(micro') : a \in Items(micro) \/ ~a.ok
    BY <1>1, <1>2, <1>3
  <1> QED  BY <1>4 DEF RejectAll

\* The end of a launch that failed, and of the process.
LEMMA EndStatus ==
  ASSUME TypeInv, ShakeInv, StatusInv, RpcLaunchFailed \/ RpcExits
  PROVE  StatusInv'
  <1> USE DEF stopping, surface, launch, pipes, process, rpc
  <1>1. /\ kind \in Rpc /\ kind' = kind /\ UNCHANGED <<plan, leader, run, due, lifecycle, reqs>>
        /\ phase' = phase \/ (phase' = "failed" /\ phase # "open")
        /\ MaxReqs' = MaxReqs /\ reqs <= MaxReqs /\ MaxReqs \in Nat /\ reqs \in Nat
    BY RpcPartsNow, ShakeNumbers DEF RpcLaunchFailed, RpcExits, Rpc, kind, MaxReqs, ShakeInv
  <1>2. /\ \A id \in 1 .. reqs : pend'[id] \in {"none", pend[id]}
        /\ \A a \in Items(micro') : a \in Items(micro) \/ ~a.ok
        /\ ended' => status' \in Terminal
        /\ status' = status \/ status' \notin {"running", "idle", "cancelling"}
    <2>1. CASE RejectAll
      <3>1. /\ \A id \in 1 .. reqs : id \in 1 .. MaxReqs /\ pend'[id] \in {"none", pend[id]}
            /\ \A a \in Items(micro') : a \in Items(micro) \/ ~a.ok
        BY <1>1, <2>1, RejectStatus
      <3>2. /\ ended' => status' \in Terminal
            /\ status' = status \/ status' \notin {"running", "idle", "cancelling"}
        BY <2>1 DEF RpcLaunchFailed, RpcExits, Terminal, StatusInv, StatusOK
      <3> QED  BY <3>1, <3>2
    <2>2. CASE ~RejectAll
      BY <2>2 DEF RpcLaunchFailed, RpcExits, StatusInv, StatusOK
    <2> QED  BY <2>1, <2>2
  <1>3. StatusOK'
    BY <1>1, <1>2, StatusHolds DEF StatusInv
  <1>4. /\ Items(inp') \subseteq Items(inp) /\ Items(out') \subseteq Items(out)
        /\ out' = out \/ (out' = <<>> /\ leader # "alive")
    BY DEF RpcLaunchFailed, RpcExits, Items
  <1>5. Matched'
    BY <1>1, <1>2, <1>4, PendMatched DEF StatusInv
  <1>6. FramesInv'
    <2>1. CASE out' = out
      BY <1>1, <2>1, FramesStay DEF StatusInv
    <2>2. CASE out' = <<>> /\ leader # "alive"
      BY <1>1, <2>2 DEF FramesInv
    <2> QED  BY <1>4, <2>1, <2>2
  <1>7. Early' /\ Dialect'
    BY <1>1, <1>4 DEF StatusInv, Early, Dialect
  <1> QED  BY <1>3, <1>5, <1>6, <1>7 DEF StatusInv

\* An answer is taken: the handshake goes on, or send() does.
LEMMA ContinueStatus ==
  ASSUME "status" \notin Steering, TypeInv, ShakeInv, ShakeInv', StatusInv, RpcContinues
  PROVE  StatusInv'
  <1> USE DEF stopping, surface, launch, pipes, process, rpc
  <1> DEFINE answer == Head(micro)
  <1>1. /\ kind \in Rpc /\ kind' = kind /\ UNCHANGED <<plan, leader, out, run, due, lifecycle, ended>>
        /\ MaxReqs' = MaxReqs /\ micro' = Tail(micro)
    BY DEF RpcContinues, kind, MaxReqs
  <1>2. answer \in Items(micro) /\ Items(micro') \subseteq Items(micro) /\ answer \in RpcAnswer
    BY <1>1, RpcPartsNow, ItemsOf, Headless DEF RpcContinues
  <1>3. answer.cmd # "status"
    BY <1>2, RpcAssumption DEF RpcAnswer, Commands, Shaking
  <1>4. CASE answer.cmd \in Shaking /\ phase = "handshake"
    <2>1. RpcShakes(answer) /\ phase # "open"
      BY <1>4 DEF RpcContinues
    <2>2. lifecycle = "none" /\ (phase' = "handshake" => Items(out') = Items(out))
      BY <1>1, <2>1 DEF StatusInv, Early, Items
    <2>3. StatusOK'
      <3>1. status' = status \/ (status' = "idle" /\ ~ended)
        BY <1>4, <2>1 DEF RpcShakes, RpcFailLaunch
      <3> QED  BY <1>1, <1>2, <2>2, <3>1 DEF StatusInv, StatusOK
    <2>4. CASE UNCHANGED <<inp, reqs, pend>>
      BY <1>1, <2>1, <2>3, <2>4, StatusCalm
    <2>5. CASE ~UNCHANGED <<inp, reqs, pend>>
      <3>1. Verdict(answer) \in Shaking /\ Request(Verdict(answer)) /\ phase' = phase
        <4>1. Verdict(answer) \in Shaking \cup {"open", "failed"}
          BY DEF Verdict, Shaking
        <4> QED  BY <1>4, <2>1, <2>5, <4>1 DEF RpcShakes
      <3>2. Verdict(answer) \in Commands
        BY <3>1 DEF Commands
      <3>3. reqs + 1 <= MaxReqs
        BY <1>1, <3>1 DEF Request, ShakeInv
      <3> HIDE DEF answer
      <3> QED  BY <1>1, <2>1, <2>3, <3>1, <3>2, <3>3, RequestStatus
    <2> QED  BY <2>4, <2>5
  <1>5. CASE ~(answer.cmd \in Shaking /\ phase = "handshake")
    <2>1. UNCHANGED <<phase, inp, reqs, pend>>
      BY <1>5 DEF RpcContinues, RpcShakes, RpcSettles
    <2>2. status' = status \/ (status' = "idle" /\ answer.ok /\ answer.cmd = "cancel" /\ status = "cancelling" /\ ~ended)
      <3>1. RpcStatus("idle") \in {status, "idle"} /\ (ended => RpcStatus("idle") = status)
        BY DEF RpcStatus
      <3> QED  BY <1>3, <1>5, <3>1 DEF RpcContinues, RpcShakes, RpcSettles
    <2>3. StatusOK'
      BY <1>1, <1>2, <2>2 DEF StatusInv, StatusOK
    <2> QED  BY <1>1, <2>1, <2>3, StatusCalm
  <1> QED  BY <1>4, <1>5

\* A command is sent, and its timer may run out.
LEMMA SendStatus ==
  ASSUME TypeInv, ShakeInv, ShakeInv', StatusInv, RpcSend \/ RpcTimer
  PROVE  StatusInv'
  <1> USE DEF stopping, surface, launch, pipes, process, rpc
  <1>1. /\ kind \in Rpc /\ kind' = kind /\ UNCHANGED <<plan, leader, phase, out, run, due, lifecycle, ended>>
        /\ MaxReqs' = MaxReqs /\ reqs <= MaxReqs /\ MaxReqs \in Nat /\ reqs \in Nat
        /\ pend \in [1 .. MaxReqs -> Commands \cup {"none"}] /\ micro \in Seq(RpcAnswer)
    BY RpcPartsNow, ShakeNumbers DEF RpcSend, RpcTimer, kind, MaxReqs, ShakeInv
  <1>2. CASE RpcSend
    <2>1. PICK cmd \in {"prompt", "follow_up"} \cup Steering :
            /\ Request(cmd)
            /\ status' = IF cmd = "cancel" /\ status = "running" THEN RpcStatus("cancelling") ELSE status
      BY <1>2 DEF RpcSend
    <2>2. micro = <<>> /\ micro' = micro /\ phase = "open" /\ cmd \in Commands /\ reqs + 1 <= MaxReqs
      <3>1. reqs' = reqs + 1
        BY <2>1 DEF Request
      <3> QED  BY <1>1, <1>2, <3>1 DEF RpcSend, Turnover, Commands, ShakeInv
    <2>3. StatusOK'
      <3>1. status' = status \/ (status' = "cancelling" /\ ~ended)
        BY <2>1 DEF RpcStatus
      <3>2. Items(micro') = {}
        BY <2>2 DEF Items
      <3> QED  BY <1>1, <3>1, <3>2 DEF StatusInv, StatusOK
    <2> QED  BY <1>1, <2>1, <2>2, <2>3, RequestStatus
  <1>3. CASE RpcTimer
    <2>1. PICK id \in Pending : /\ pend' = [pend EXCEPT ![id] = "none"]
                                /\ micro' = Append(micro, Answered(id, FALSE, "timeout"))
      BY <1>3 DEF RpcTimer
    <2>2. /\ Answered(id, FALSE, "timeout") \in RpcAnswer /\ ~Answered(id, FALSE, "timeout").ok
          /\ UNCHANGED <<inp, reqs, status>>
      <3>1. id \in 1 .. MaxReqs /\ pend[id] \in Commands
        BY <1>1 DEF Pending
      <3> QED  BY <1>3, <3>1 DEF Answered, RpcAnswer, RpcTimer
    <2>3. Items(micro') = Items(micro) \cup {Answered(id, FALSE, "timeout")}
      <3>1. \A e \in RpcAnswer : Items(Append(micro, e)) = Items(micro) \cup {e}
        BY <1>1, ItemsOf
      <3> QED  BY <2>1, <2>2, <3>1
    <2>4. StatusOK'
      BY <1>1, <2>2, <2>3 DEF StatusInv, StatusOK
    <2>5. \A j \in 1 .. reqs : pend'[j] \in {"none", pend[j]}
      BY <1>1, <2>1
    <2>6. Items(inp') = Items(inp) /\ Items(out') = Items(out)
      BY <1>1, <2>2 DEF Items
    <2>7. Matched'
      BY <1>1, <2>2, <2>5, <2>6, PendMatched DEF StatusInv
    <2>8. FramesInv'
      BY <1>1, FramesStay DEF StatusInv
    <2>9. Early' /\ Dialect'
      BY <1>1, <2>6 DEF StatusInv, Early, Dialect
    <2> QED  BY <2>4, <2>7, <2>8, <2>9 DEF StatusInv
  <1> QED  BY <1>2, <1>3

\* What is read first tells as the whole pipe does.
LEMMA FirstFrame ==
  ASSUME FramesInv, NEW S, out \in Seq(S), out # <<>>
  PROVE  /\ Goes(Head(out)) => lifecycle = "running"
         /\ Rests(Head(out)) => lifecycle # "running"
  <1>1. Head(out) = out[1] /\ Len(out) \in Nat /\ Len(out) > 0
    BY Headless
  <1>2. 0 \in 0 .. Len(out) /\ Life(0) /\ Now(0) = lifecycle /\ 1 \in (0 + 1) .. Len(out)
        /\ \A k \in (0 + 1) .. (1 - 1) : ~Life(k)
    BY <1>1 DEF Life, Now
  <1>3. Goes(out[1]) => Now(0) = "running"
    BY <1>2 DEF FramesInv
  <1>4. Rests(out[1]) => Now(0) # "running"
    BY <1>2 DEF FramesInv
  <1> QED  BY <1>1, <1>2, <1>3, <1>4

\* What a frame of the life cycle makes of the status.
LEMMA FrameStatusIs ==
  ASSUME kind \in Rpc, NEW m \in RpcFrame, m.type \in Cycle,
         m.type = "agent_settled" => kind = "pi",
         m.type = "agent_end" /\ m.of = "terminal" => kind = "omp"
  PROVE  /\ m.now \in {"running", "idle"}
         /\ FrameStatus(m) = "running" => m.now = "running"
         /\ FrameStatus(m) = "idle" => m.now = "idle"
         /\ FrameStatus(m) = "same" => Goes(m) /\ m.now = "running"
  <1>1. m.now \in {"running", "idle"}
    BY DEF RpcFrame, Cycle
  <1>2. CASE m.type = "agent_start"
    BY <1>1, <1>2 DEF RpcFrame, FrameStatus, OmpStatus, PiStatus
  <1>3. CASE m.type = "agent_settled"
    BY <1>1, <1>3 DEF RpcFrame, FrameStatus, OmpStatus, PiStatus, Rpc
  <1>4. CASE m.type = "agent_end" /\ m.of = "terminal"
    BY <1>1, <1>4 DEF RpcFrame, FrameStatus, OmpStatus, PiStatus, Rpc
  <1>5. CASE m.type = "agent_end" /\ m.of # "terminal"
    <2>1. m.of = "more" /\ m.now = "running"
      BY <1>5 DEF RpcFrame
    <2> QED  BY <1>5, <2>1 DEF FrameStatus, OmpStatus, PiStatus, Goes
  <1> QED  BY <1>2, <1>3, <1>4, <1>5 DEF Cycle

\* A frame is read.
LEMMA ReadStatus ==
  ASSUME TypeInv, ShakeInv, StatusInv, RpcReads
  PROVE  StatusInv'
  <1> USE DEF stopping, surface, launch, pipes, process, rpc
  <1>1. /\ kind \in Rpc /\ kind' = kind /\ UNCHANGED <<plan, leader, phase, inp, run, due, ended, reqs>>
        /\ out \in Seq(RpcFrame) /\ micro \in Seq(RpcAnswer) /\ reqs <= MaxReqs /\ MaxReqs \in Nat
        /\ reqs \in Nat /\ pend \in [1 .. MaxReqs -> Commands \cup {"none"}]
    BY RpcPartsNow, ShakeNumbers DEF RpcReads, kind, ShakeInv
  <1>2. PICK m \in RpcFrame : m = Head(out)
    BY <1>1, Headless DEF RpcReads
  <1>3. /\ m \in Items(out) /\ Items(out') \subseteq Items(out) /\ RpcDispatch(m) /\ out' = Tail(out)
        /\ out # <<>>
    BY <1>1, <1>2, ItemsOf DEF RpcReads
  <1>4. /\ Goes(m) => lifecycle = "running"
        /\ Rests(m) => lifecycle # "running"
    BY <1>1, <1>2, <1>3, FirstFrame DEF StatusInv
  <1>5. Items(inp') = Items(inp)
    BY <1>1 DEF Items
  <1>6. /\ ended => status \in Terminal
        /\ status = "running" => lifecycle = "running"
        /\ status = "idle" => lifecycle # "running"
        /\ \A a \in Items(micro) : a.ok /\ a.cmd = "cancel" /\ status = "cancelling" => lifecycle # "running"
    BY DEF StatusInv, StatusOK
  <1>7. /\ lifecycle' = IF m.type \in Cycle THEN m.now ELSE lifecycle
        /\ \A id \in 1 .. reqs : pend'[id] \in {"none", pend[id]}
        /\ StatusOK'
    <2>1. CASE m.type \in Cycle
      <3>1. /\ status' = IF FrameStatus(m) = "same" THEN status ELSE RpcStatus(FrameStatus(m))
            /\ lifecycle' = m.now /\ UNCHANGED <<pend, micro>>
        BY <1>3, <2>1 DEF RpcDispatch, Cycle, Breaks
      <3>2. /\ FrameStatus(m) = "running" => m.now = "running"
            /\ FrameStatus(m) = "idle" => m.now = "idle"
            /\ FrameStatus(m) = "same" => Goes(m) /\ m.now = "running"
            /\ FrameStatus(m) \in {"running", "idle", "same"}
        BY <1>1, <1>3, <2>1, FrameStatusIs, FrameStatusType DEF StatusInv, Dialect
      <3>3. CASE FrameStatus(m) = "same"
        <4>1. status' = status /\ lifecycle' = lifecycle
          BY <1>4, <3>1, <3>2, <3>3
        <4>2. StatusOK'
          BY <1>1, <1>6, <3>1, <4>1 DEF StatusOK
        <4> QED  BY <2>1, <3>1, <4>2
      <3>4. CASE FrameStatus(m) # "same"
        <4>1. \/ status' = FrameStatus(m) /\ ~ended
              \/ status' = status /\ status \in Terminal
          BY <1>6, <3>1, <3>4 DEF RpcStatus, Terminal
        <4>2. StatusOK'
          BY <1>1, <3>1, <3>2, <3>4, <4>1 DEF StatusOK, Terminal
        <4> QED  BY <2>1, <3>1, <4>2
      <3> QED  BY <3>3, <3>4
    <2>2. CASE m.type = "response" /\ Known(m)
      <3>1. m.id \in Pending /\ m.id \in 1 .. reqs /\ pend[m.id] = m.cmd /\ m.type \notin Cycle
        BY <2>2, <1>3 DEF Known, Pending, StatusInv, Matched, Cycle
      <3>2. /\ pend' = [pend EXCEPT ![m.id] = "none"]
            /\ micro' = Append(micro, Answered(m.id, m.of # "failed", m.of))
            /\ status' = IF m.of = "local" THEN RpcStatus("idle") ELSE status
            /\ lifecycle' = lifecycle
        BY <1>3, <2>2, <3>1 DEF RpcDispatch, Breaks
      <3>3. PICK a \in RpcAnswer : /\ a = Answered(m.id, m.of # "failed", m.of)
                                   /\ a.cmd = m.cmd /\ (a.ok <=> m.of # "failed")
        <4>1. m.cmd \in Commands /\ m.of \in Said
          BY <2>2 DEF RpcFrame
        <4>2. Answered(m.id, m.of # "failed", m.of) \in RpcAnswer
          BY <3>1, <4>1 DEF Answered, RpcAnswer
        <4> QED  BY <3>1, <4>2 DEF Answered
      <3>4. Items(micro') = Items(micro) \cup {a}
        <4>1. \A e \in RpcAnswer : Items(Append(micro, e)) = Items(micro) \cup {e}
          BY <1>1, ItemsOf
        <4> QED  BY <3>2, <3>3, <4>1
      <3>5. a.ok /\ a.cmd = "cancel" => lifecycle # "running"
        BY <1>4, <2>2, <3>3 DEF Rests, Known
      <3>6. status' = status \/ (status' = "idle" /\ ~ended /\ lifecycle # "running")
        BY <1>4, <2>2, <3>2 DEF RpcStatus, Rests
      <3>7. StatusOK'
        BY <1>1, <1>6, <3>2, <3>4, <3>5, <3>6 DEF StatusOK
      <3>8. \A id \in 1 .. reqs : pend'[id] \in {"none", pend[id]}
        BY <1>1, <3>2
      <3> QED  BY <3>1, <3>2, <3>7, <3>8
    <2>3. CASE UNCHANGED <<pend, micro, status, lifecycle>> /\ m.type \notin Cycle
      BY <1>1, <1>6, <2>3 DEF StatusOK
    <2> QED  BY <1>3, <2>1, <2>2, <2>3 DEF RpcDispatch, Cycle
  <1>8. FramesInv'
    BY <1>1, <1>2, <1>3, <1>7, FramesShrink DEF StatusInv
  <1>9. Matched'
    BY <1>1, <1>3, <1>5, <1>7, PendMatched DEF StatusInv
  <1>10. Dialect'
    BY <1>1, <1>3 DEF StatusInv, Dialect
  <1>11. Early'
    BY <1>1, <1>3, <1>5, <1>7 DEF StatusInv, Early
  <1> QED  BY <1>7, <1>8, <1>9, <1>10, <1>11 DEF StatusInv

\* Every step keeps what the status rests on.
LEMMA StatusKept ==
  ASSUME "status" \notin Steering, Sound, Sound', kind \in Rpc, StatusInv, [Next]_vars
  PROVE  StatusInv'
  <1>1. TypeInv /\ ShakeInv /\ ShakeInv'
    <2>1. kind' = kind
      BY PlanStays DEF kind
    <2> QED  BY <2>1 DEF Sound
  <1>2. CASE UNCHANGED vars
    <2>1. UNCHANGED <<plan, run, due, lifecycle, inp, out, reqs, pend, phase, leader, status, ended, micro>>
      BY <1>2 DEF vars, base, process, launch, surface, pipes, rpc
    <2>2. StatusOK'
      BY <2>1 DEF StatusInv, StatusOK, Items
    <2> QED  BY <2>1, <2>2, StatusCalm
  <1>3. CASE Shared
    BY <1>1, <1>3, SharedStatus
  <1>4. CASE Agy \/ Acp
    BY <1>1, <1>4, AgyKind, AcpKind DEF Rpc
  <1>5. CASE RpcSteps /\ RpcProvider
    BY <1>1, <1>5, ProviderStatus
  <1>6. CASE RpcSteps /\ RpcHub
    BY <1>1, <1>6, LaunchStatus, EndStatus, ContinueStatus, SendStatus, ReadStatus DEF RpcHub
  <1> QED  BY <1>2, <1>3, <1>4, <1>5, <1>6 DEF Next, RpcSteps

(***************************************************************************)
(* The status of an rpc session tells what the last lifecycle frame meant, *)
(* whatever the provider answers, refuses or leaves unanswered, as long as *)
(* no caller asks for the status itself: that answer is looked at after    *)
(* the frames that were read behind it.                                    *)
(***************************************************************************)
THEOREM StatusTruthfulAlways ==
  ASSUME "status" \notin Steering
  PROVE  Spec => []StatusTruthful
  <1>1. Init => (kind \in Rpc => StatusInv)
    <2> SUFFICES ASSUME Init PROVE StatusInv
      OBVIOUS
    <2>1. /\ Items(inp) = {} /\ Items(out) = {} /\ Items(micro) = {} /\ out = <<>> /\ leader = "none"
          /\ due = 0 /\ ~run /\ lifecycle = "none" /\ status = "starting" /\ ~ended
      BY DEF Init, TransportInit, RpcInit, Items
    <2>2. FramesInv
      BY <2>1 DEF FramesInv
    <2> QED  BY <2>1, <2>2 DEF StatusInv, Early, Matched, Dialect, StatusOK
  <1>2. Sound /\ Sound' /\ (kind \in Rpc => StatusInv) /\ [Next]_vars => (kind \in Rpc => StatusInv)'
    <2>1. ASSUME [Next]_vars PROVE kind' = kind
      BY <2>1, PlanStays DEF kind
    <2> QED  BY <2>1, StatusKept
  <1>3. (kind \in Rpc => StatusInv) => StatusTruthful
    BY DEF StatusInv, StatusOK, StatusTruthful
  <1> QED  BY <1>1, <1>2, <1>3, SoundAlways, PTL DEF Spec

=============================================================================
