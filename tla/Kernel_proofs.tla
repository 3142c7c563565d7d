--------------------------- MODULE Kernel_proofs ---------------------------
(***************************************************************************)
(* Theorems about one live session of the kernel.                          *)
(*                                                                         *)
(* Two inductive invariants.  EndInv, for every value of the constants,    *)
(* follows the writes of the mirror and gives what the durable record says *)
(* at the end of a session (StopProven, RecordIsLast).  TurnInv adds whose *)
(* turn it is: the provider is busy with the turn or with nothing, and the *)
(* end of a turn is told once.  It needs a provider that answers a command *)
(* before it ends its turn and follow-ups that wait in the hub; then no    *)
(* accepted command is forgotten, and none is told another's success.      *)
(***************************************************************************)
EXTENDS Kernel, TLAPS

-----------------------------------------------------------------------------
(* Sequences: what Append and Tail do to the writes of the mirror, the     *)
(* frames of the inbox and the queues.                                     *)

Write == [by : Writers, status : Statuses, revision : Nat]

Authors(w) == {w[i].by : i \in DOMAIN w}
OneEach(w) == \A i, j \in DOMAIN w : w[i].by = w[j].by => i = j

\* The first write leaves, and with it its author.
LEMMA TailAuthors ==
  ASSUME NEW w \in Seq(Write), w # <<>>, OneEach(w)
  PROVE  /\ Tail(w) \in Seq(Write) /\ OneEach(Tail(w))
         /\ Authors(Tail(w)) = Authors(w) \ {Head(w).by}
<1>1. /\ Tail(w) \in Seq(Write) /\ Len(w) \in Nat /\ Len(w) > 0
      /\ DOMAIN w = 1..Len(w) /\ DOMAIN Tail(w) = 1..(Len(w) - 1)
      /\ \A i \in 1..(Len(w) - 1) : Tail(w)[i] = w[i + 1]
      /\ Head(w) = w[1]
  OBVIOUS
<1>2. OneEach(Tail(w))
  BY <1>1 DEF OneEach
<1>3. ASSUME NEW by PROVE by \in Authors(Tail(w)) <=> by \in Authors(w) /\ by # Head(w).by
  <2>1. ASSUME NEW i \in 1..(Len(w) - 1), by = Tail(w)[i].by
        PROVE  by \in Authors(w) /\ by # Head(w).by
    <3>1. i + 1 \in DOMAIN w /\ 1 \in DOMAIN w /\ by = w[i + 1].by /\ i + 1 # 1
      BY <1>1, <2>1
    <3> QED
      BY <3>1, <1>1 DEF Authors, OneEach
  <2>2. ASSUME NEW i \in 1..Len(w), by = w[i].by, by # Head(w).by
        PROVE  by \in Authors(Tail(w))
    <3>1. i - 1 \in 1..(Len(w) - 1) /\ Tail(w)[i - 1] = w[i]
      BY <1>1, <2>2
    <3> QED
      BY <3>1, <1>1, <2>2 DEF Authors
  <2> QED
    BY <2>1, <2>2, <1>1 DEF Authors
<1> QED
  BY <1>1, <1>2, <1>3

\* A write joins whose author has none yet.
LEMMA AppendAuthors ==
  ASSUME NEW w \in Seq(Write), NEW e \in Write, OneEach(w), e.by \notin Authors(w)
  PROVE  /\ Append(w, e) \in Seq(Write) /\ OneEach(Append(w, e))
         /\ Authors(Append(w, e)) = Authors(w) \cup {e.by}
<1>1. /\ Append(w, e) \in Seq(Write) /\ Len(w) \in Nat
      /\ DOMAIN w = 1..Len(w) /\ DOMAIN Append(w, e) = 1..(Len(w) + 1)
      /\ \A i \in 1..Len(w) : Append(w, e)[i] = w[i]
      /\ Append(w, e)[Len(w) + 1] = e
  OBVIOUS
<1>2. OneEach(Append(w, e))
  BY <1>1 DEF OneEach, Authors
<1>3. Authors(Append(w, e)) = Authors(w) \cup {e.by}
  BY <1>1 DEF Authors
<1> QED
  BY <1>1, <1>2, <1>3

\* What holds of every write holds of the ones that are left.
LEMMA TailKeeps ==
  ASSUME NEW S, NEW s \in Seq(S), s # <<>>
  PROVE  /\ Head(s) \in S /\ Tail(s) \in Seq(S)
         /\ Head(s) = s[1] /\ 1 \in DOMAIN s
         /\ \A i \in DOMAIN Tail(s) : i + 1 \in DOMAIN s /\ Tail(s)[i] = s[i + 1]
         /\ Range(s) = {Head(s)} \cup Range(Tail(s))
<1>1. /\ Tail(s) \in Seq(S) /\ Len(s) \in Nat /\ Len(s) > 0
      /\ DOMAIN s = 1..Len(s) /\ DOMAIN Tail(s) = 1..(Len(s) - 1)
      /\ \A i \in 1..(Len(s) - 1) : Tail(s)[i] = s[i + 1]
      /\ Head(s) = s[1]
  OBVIOUS
<1>2. Head(s) \in S /\ 1 \in DOMAIN s /\ \A i \in DOMAIN Tail(s) : i + 1 \in DOMAIN s
  BY <1>1
<1>3. ASSUME NEW x PROVE x \in Range(s) <=> x = Head(s) \/ x \in Range(Tail(s))
  <2>1. ASSUME NEW i \in 1..Len(s), x = s[i], x # Head(s)
        PROVE  i - 1 \in 1..(Len(s) - 1) /\ x = Tail(s)[i - 1]
    BY <1>1, <2>1
  <2>2. ASSUME x \in Range(s), x # Head(s) PROVE x \in Range(Tail(s))
    <3> PICK i \in 1..Len(s) : x = s[i]
      BY <1>1, <2>2 DEF Range
    <3> QED
      BY <2>1, <2>2, <1>1 DEF Range
  <2>3. ASSUME NEW i \in DOMAIN Tail(s), x = Tail(s)[i] PROVE x \in Range(s)
    BY <1>1, <1>2, <2>3 DEF Range
  <2>4. Head(s) \in Range(s)
    BY <1>1, <1>2 DEF Range
  <2> QED
    BY <2>2, <2>3, <2>4 DEF Range
<1> QED
  BY <1>1, <1>2, <1>3

\* What Append does to a sequence, its domain and its range.
LEMMA AppendKeeps ==
  ASSUME NEW S, NEW s \in Seq(S), NEW e \in S
  PROVE  /\ Append(s, e) \in Seq(S)
         /\ Len(s) \in Nat /\ DOMAIN s = 1..Len(s) /\ DOMAIN Append(s, e) = 1..(Len(s) + 1)
         /\ \A i \in DOMAIN s : Append(s, e)[i] = s[i]
         /\ Append(s, e)[Len(s) + 1] = e
         /\ Range(Append(s, e)) = Range(s) \cup {e}
         /\ Append(s, e) # <<>>
<1>1. /\ Append(s, e) \in Seq(S) /\ Len(s) \in Nat
      /\ DOMAIN s = 1..Len(s) /\ DOMAIN Append(s, e) = 1..(Len(s) + 1)
      /\ \A i \in 1..Len(s) : Append(s, e)[i] = s[i]
      /\ Append(s, e)[Len(s) + 1] = e
      /\ Append(s, e) # <<>>
  OBVIOUS
<1>2. Range(Append(s, e)) = Range(s) \cup {e}
  BY <1>1 DEF Range
<1> QED
  BY <1>1, <1>2

\* The empty sequence holds nothing.
LEMMA EmptyHasNone == Range(<<>>) = {}
BY DEF Range

-----------------------------------------------------------------------------
(* Types.                                                                  *)

USE DEF turnVars, queueVars, lifeVars, mirror, provider, transport, places

\* TypeOK in three parts: scalars and records, the functions of commands, sequences.
ScalarTypes ==
  /\ status \in Statuses
  /\ turn \in Commands \cup {None} /\ prompted \in Commands \cup {None}
  /\ cancelRequested \subseteq Commands /\ errorSeen \subseteq Commands
  /\ closing \in BOOLEAN /\ finished \in BOOLEAN /\ degraded \in BOOLEAN
  /\ pump \in [place : PumpPlaces, turn : Commands \cup {None}, outcome : Results]
  /\ closer \in CloserPlaces
  /\ record \in [status : Statuses, revision : Nat]
  /\ wire \in [status : Statuses, stopping : BOOLEAN, ended : BOOLEAN]
  /\ running \in Commands \cup {None}
  /\ alive \in {"leader", "group", "none"}
  /\ ran \subseteq Commands
  /\ failures \in 0..MaxFailures

FunctionTypes ==
  /\ result \in [Commands -> Results]
  /\ sending \in [Commands -> {"no", "turn", "queue"}]

SequenceTypes ==
  /\ queue \in Seq(Commands) /\ providerQueued \in Seq(Commands)
  /\ writes \in Seq(Write)
  /\ stream \in Seq(Events)
  /\ inbox \in Seq(Commands \cup {Abort}) /\ held \in Seq(Commands)

\* The three parts are TypeOK, now and after a step.
LEMMA TypeParts ==
  /\ TypeOK <=> ScalarTypes /\ FunctionTypes /\ SequenceTypes
  /\ TypeOK' <=> ScalarTypes' /\ FunctionTypes' /\ SequenceTypes'
BY DEF TypeOK, ScalarTypes, FunctionTypes, SequenceTypes, Write

\* Adding to a sequence of the state, and taking its first element.
LEMMA SequencesType ==
  ASSUME TypeOK
  PROVE  /\ \A c \in Commands : /\ Append(inbox, c) \in Seq(Commands \cup {Abort})
                                /\ Append(queue, c) \in Seq(Commands)
                                /\ Append(providerQueued, c) \in Seq(Commands)
                                /\ Append(held, c) \in Seq(Commands)
         /\ Append(inbox, Abort) \in Seq(Commands \cup {Abort})
         /\ \A e \in Events : Append(stream, e) \in Seq(Events)
         /\ \A w \in Write : Append(writes, w) \in Seq(Write)
         /\ inbox # <<>> => /\ Head(inbox) \in Commands \cup {Abort}
                            /\ Tail(inbox) \in Seq(Commands \cup {Abort})
         /\ queue # <<>> => Head(queue) \in Commands /\ Tail(queue) \in Seq(Commands)
         /\ providerQueued # <<>> =>
              Head(providerQueued) \in Commands /\ Tail(providerQueued) \in Seq(Commands)
         /\ held # <<>> => Head(held) \in Commands /\ Tail(held) \in Seq(Commands)
         /\ stream # <<>> => Head(stream) \in Events /\ Tail(stream) \in Seq(Events)
         /\ writes # <<>> => /\ Head(writes) \in Write /\ Tail(writes) \in Seq(Write)
                             /\ \A w \in Write : Append(Tail(writes), w) \in Seq(Write)
<1>1. /\ queue \in Seq(Commands) /\ providerQueued \in Seq(Commands)
      /\ writes \in Seq(Write) /\ stream \in Seq(Events)
      /\ inbox \in Seq(Commands \cup {Abort}) /\ held \in Seq(Commands)
  BY DEF TypeOK, Write
<1>2. \A S : \A s \in Seq(S) : \A e \in S : Append(s, e) \in Seq(S)
  OBVIOUS
<1>3. \A S : \A s \in Seq(S) : s # <<>> => Head(s) \in S /\ Tail(s) \in Seq(S)
  BY TailKeeps
<1>4. writes # <<>> => Tail(writes) \in Seq(Write)
  BY <1>1, <1>3
<1>5. \A c \in Commands \cup {Abort} : Append(inbox, c) \in Seq(Commands \cup {Abort})
  BY <1>1, <1>2
<1>6. \A c \in Commands : /\ Append(queue, c) \in Seq(Commands)
                          /\ Append(providerQueued, c) \in Seq(Commands)
                          /\ Append(held, c) \in Seq(Commands)
  BY <1>1, <1>2
<1>7. \A e \in Events : Append(stream, e) \in Seq(Events)
  BY <1>1, <1>2
<1>8. /\ \A w \in Write : Append(writes, w) \in Seq(Write)
      /\ writes # <<>> => \A w \in Write : Append(Tail(writes), w) \in Seq(Write)
  BY <1>1, <1>2, <1>4
<1> QED
  BY <1>1, <1>3, <1>5, <1>6, <1>7, <1>8

\* The wire and the stream, by their types.
WireType ==
  /\ wire \in [status : Statuses, stopping : BOOLEAN, ended : BOOLEAN]
  /\ stream \in Seq(Events)

\* A status the transport reports is an event of its stream.
LEMMA SetStatusType ==
  ASSUME TypeOK, NEW s \in Statuses, s \in Events \/ s = wire.status, SetStatus(s)
  PROVE  WireType'
<1>1. s \in Events => Append(stream, s) \in Seq(Events)
  BY SequencesType
<1> QED
  BY <1>1 DEF TypeOK, SetStatus, WireType

\* Withdrawing a command from the inbox leaves an inbox.
LEMMA WithdrawnType ==
  ASSUME TypeOK, NEW c \in Commands
  PROVE  Withdrawn(c) \in Seq(Commands \cup {Abort})
<1>1. CASE c \notin Range(inbox)
  BY <1>1 DEF Withdrawn, TypeOK
<1>2. CASE c \in Range(inbox)
  <2> DEFINE at == CHOOSE i \in DOMAIN inbox : inbox[i] = c
             rest == [i \in 1..Len(inbox) - 1 |-> IF i < at THEN inbox[i] ELSE inbox[i + 1]]
  <2>1. inbox \in Seq(Commands \cup {Abort}) /\ Len(inbox) \in Nat /\ DOMAIN inbox = 1..Len(inbox)
    BY DEF TypeOK
  <2>2. Len(inbox) > 0
    BY <2>1, <1>2 DEF Range
  <2>3. \A i \in 1..Len(inbox) - 1 : inbox[i] \in Commands \cup {Abort} /\ inbox[i + 1] \in Commands \cup {Abort}
    BY <2>1
  <2>4. Len(inbox) - 1 \in Nat /\ rest \in [1..Len(inbox) - 1 -> Commands \cup {Abort}]
    BY <2>1, <2>2, <2>3
  <2>5. rest \in Seq(Commands \cup {Abort})
    BY <2>4
  <2> QED
    BY <2>5, <1>2 DEF Withdrawn
<1> QED
  BY <1>1, <1>2

\* A commit is a write of its author, with the status asked for.
LEMMA CommitType ==
  ASSUME TypeOK, NEW by \in Writers, NEW s \in Statuses
  PROVE  /\ Commit(by, s) \in Write
         /\ Commit(by, s).by = by /\ Commit(by, s).status = s
BY DEF TypeOK, Commit, Write

\* Settling futures leaves a result for every command.
LEMMA SettleType ==
  ASSUME TypeOK, NEW cs, NEW outcome \in Results
  PROVE  Settle(cs, outcome) \in [Commands -> Results]
BY DEF TypeOK, Settle

PumpType == pump \in [place : PumpPlaces, turn : Commands \cup {None}, outcome : Results]

\* A pump that moves on carries no turn and no outcome with it.
LEMMA PumpGoesType ==
  ASSUME NEW place \in PumpPlaces, PumpGoes(place)
  PROVE  PumpType' /\ pump'.place = place /\ pump'.turn = None /\ pump'.outcome = "none"
BY DEF PumpType, PumpGoes, Reading, Results

\* The write under way lands or fails.
LEMMA WriteType ==
  ASSUME TypeOK, NEW by \in Writers, Writing(by), Lands \/ Fails
  PROVE  /\ record' \in [status : Statuses, revision : Nat]
         /\ failures' \in 0..MaxFailures
         /\ Head(writes) \in Write /\ Head(writes).status \in Statuses
         /\ Tail(writes) \in Seq(Write)
<1>1. Head(writes) \in Write /\ Tail(writes) \in Seq(Write)
  BY SequencesType DEF Writing
<1>2. Head(writes).status \in Statuses /\ Head(writes).revision \in Nat
  BY <1>1 DEF Write
<1>3. record' \in [status : Statuses, revision : Nat]
  BY <1>2 DEF Lands, Fails, TypeOK
<1>4. failures' \in 0..MaxFailures
  BY KernelAssumption DEF Lands, Fails, TypeOK
<1> QED
  BY <1>1, <1>2, <1>3, <1>4

\* What degradeOnDurableFailure leaves: no queue, no turn, and one write.
LEMMA DegradeType ==
  ASSUME TypeOK, NEW by \in Writers, Writing(by), NEW s \in Statuses, NEW lost, Degrade(by, s, lost)
  PROVE  /\ result' \in [Commands -> Results] /\ writes' \in Seq(Write)
         /\ queue' = <<>> /\ providerQueued' = <<>>
         /\ turn' = None /\ status' = s /\ degraded' = TRUE
<1>1. Commit(by, s) \in Write
  BY CommitType
<1>2. writes # <<>>
  BY DEF Writing
<1>3. Append(Tail(writes), Commit(by, s)) \in Seq(Write)
  BY <1>1, <1>2, SequencesType
<1>4. \A cs : Settle(cs, "failed") \in [Commands -> Results]
  BY SettleType DEF Results
<1> QED
  BY <1>3, <1>4 DEF Degrade

\* Every step keeps the types of the futures and of the sends.
LEMMA FunctionSteps == ASSUME TypeOK, Next PROVE FunctionTypes'
<1> USE DEF FunctionTypes
<1>1. result \in [Commands -> Results] /\ sending \in [Commands -> {"no", "turn", "queue"}]
  BY DEF TypeOK
<1>2. ASSUME NEW c \in Commands, Prompt(c) \/ FollowUpNow(c) PROVE FunctionTypes'
  BY <1>1, <1>2 DEF Prompt, FollowUpNow, Dispatch, Results
<1>3. ASSUME NEW c \in Commands, FollowUpLater(c) PROVE FunctionTypes'
  BY <1>1, <1>3 DEF FollowUpLater, Results
<1>4. ASSUME NEW c \in Commands, SendAnswered(c) PROVE FunctionTypes'
  BY <1>1, <1>4 DEF SendAnswered, Results
<1>5. ASSUME NEW c \in Commands, SendFails(c) PROVE FunctionTypes'
  BY <1>1, <1>5 DEF SendFails, Results
<1>6. \A cs, by, s, lost : Degrade(by, s, lost) => result' \in [Commands -> Results]
  BY SettleType DEF Degrade, Results
<1>7. ASSUME StatusCommitted \/ CloseCommitted PROVE FunctionTypes'
  BY <1>1, <1>6, <1>7 DEF StatusCommitted, CloseCommitted
<1>8. ASSUME TurnCommitted PROVE FunctionTypes'
  <2>1. Settle({pump.turn}, pump.outcome) \in [Commands -> Results]
    BY SettleType DEF TypeOK
  <2>2. ASSUME DrainProvider \/ NoDrain PROVE FunctionTypes'
    BY <1>1, <2>1, <2>2 DEF DrainProvider, NoDrain
  <2>3. ASSUME DrainQueue PROVE FunctionTypes'
    BY <1>1, <2>1, <2>3 DEF DrainQueue, Results
  <2> QED
    BY <1>1, <1>6, <1>8, <2>2, <2>3 DEF TurnCommitted
<1>9. ASSUME NEW proven \in BOOLEAN, CrashStopped(proven) \/ CloseStopped(proven) PROVE FunctionTypes'
  <2>1. \A cs : \A outcome \in {"failed", "cancelled"} : Settle(cs, outcome) \in [Commands -> Results]
    BY SettleType DEF Results
  <2> QED
    BY <1>1, <1>9, <2>1 DEF CrashStopped, CloseStopped
<1>10. ASSUME Close PROVE FunctionTypes'
  BY <1>1, <1>10, SettleType DEF Close, Results
<1>11. ASSUME \/ Cancel \/ ReadTurnEnd \/ ReadStatus \/ ReadExit \/ ReadOther \/ StreamExhausted
              \/ PumpDegraded \/ CrashCommitted \/ CloserDegraded \/ RetryCommitted \/ RetryTerminate
              \/ \E proven \in BOOLEAN : RetryStopped(proven)
              \/ ProviderStep
       PROVE  UNCHANGED <<result, sending>>
  BY <1>11 DEF Cancel, ReadTurnEnd, ReadStatus, ReadExit, ReadOther, StreamExhausted, PumpDegraded,
     CrashCommitted, CloserDegraded, Degraded, RetryCommitted, RetryTerminate, RetryStopped,
     ProviderStep, ProviderReads, ProviderResumes, ProviderEnds, ProviderExits, GroupDies
<1> QED
  BY <1>1, <1>2, <1>3, <1>4, <1>5, <1>7, <1>8, <1>9, <1>10, <1>11
  DEF Next, CommandStep, SendStep, PumpStep, CloserStep

\* Every step keeps the types of the queues, the writes, the stream and the inbox.
LEMMA SequenceSteps == ASSUME TypeOK, Next PROVE SequenceTypes'
<1> USE DEF SequenceTypes
<1>1. SequenceTypes
  BY TypeParts
<1>2. ASSUME NEW c \in Commands, Prompt(c) \/ FollowUpNow(c) \/ FollowUpLater(c) \/ SendAnswered(c)
      PROVE SequenceTypes'
  <2>1. /\ Append(inbox, c) \in Seq(Commands \cup {Abort})
        /\ Append(queue, c) \in Seq(Commands)
        /\ Append(providerQueued, c) \in Seq(Commands)
    BY SequencesType
  <2> QED
    BY <1>1, <1>2, <2>1 DEF Prompt, FollowUpNow, Dispatch, FollowUpLater, SendAnswered
<1>3. ASSUME NEW c \in Commands, SendFails(c) PROVE SequenceTypes'
  BY <1>1, <1>3, WithdrawnType DEF SendFails
<1>4. \A s : SetStatus(s) /\ s \in Statuses /\ (s \in Events \/ s = wire.status) => stream' \in Seq(Events)
  BY SetStatusType DEF WireType
<1>5. Append(inbox, Abort) \in Seq(Commands \cup {Abort})
  BY SequencesType
<1>6. ASSUME Cancel PROVE SequenceTypes'
  BY <1>1, <1>4, <1>5, <1>6 DEF Cancel, Events, Statuses, Live
<1>7. /\ \A e \in Events : Append(stream, e) \in Seq(Events)
      /\ \A w \in Write : Append(writes, w) \in Seq(Write)
      /\ stream # <<>> => Head(stream) \in Events /\ Tail(stream) \in Seq(Events)
      /\ writes # <<>> => Tail(writes) \in Seq(Write)
  BY SequencesType
<1>8. \A by \in Writers : \A s \in Statuses : Append(writes, Commit(by, s)) \in Seq(Write)
  BY <1>7, CommitType
<1>9. ASSUME ReadTurnEnd \/ ReadStatus \/ ReadExit \/ ReadOther PROVE SequenceTypes'
  BY <1>1, <1>7, <1>8, <1>9 DEF ReadTurnEnd, ReadStatus, NewStatus, ReadExit, ReadOther, Writers, Statuses, Live
<1>10. <<>> \in Seq(Commands)
  OBVIOUS
<1>11. \A by \in Writers : \A s \in Statuses : \A lost :
          Writing(by) /\ Degrade(by, s, lost) =>
            writes' \in Seq(Write) /\ queue' \in Seq(Commands) /\ providerQueued' \in Seq(Commands)
  BY <1>10, DegradeType
<1>12. ASSUME StatusCommitted \/ CloseCommitted PROVE SequenceTypes'
  BY <1>1, <1>7, <1>11, <1>12 DEF StatusCommitted, CloseCommitted, Writing, Writers, Statuses, Terminal
<1>13. ASSUME TurnCommitted PROVE SequenceTypes'
  <2>1. CASE Degrade("pump", "error", {pump.turn}) /\ UNCHANGED inbox
    BY <1>1, <1>11, <1>13, <2>1 DEF TurnCommitted, Writers, Statuses, Terminal
  <2>2. CASE writes' = Tail(writes) /\ (DrainProvider \/ DrainQueue \/ NoDrain)
    <3>1. providerQueued # <<>> => Tail(providerQueued) \in Seq(Commands)
      BY SequencesType
    <3>2. queue # <<>> => Head(queue) \in Commands /\ Tail(queue) \in Seq(Commands)
      BY SequencesType
    <3>3. DrainQueue => queue # <<>>
      BY EmptyHasNone DEF DrainQueue, MayDrain, Waiting
    <3>4. \A c \in Commands : Append(inbox, c) \in Seq(Commands \cup {Abort})
      BY SequencesType
    <3> QED
      BY <1>1, <1>7, <1>13, <2>2, <3>1, <3>2, <3>3, <3>4
      DEF TurnCommitted, Writing, DrainProvider, DrainQueue, NoDrain
  <2> QED
    BY <1>13, <2>1, <2>2 DEF TurnCommitted
<1>14. ASSUME PumpDegraded \/ CrashCommitted \/ CloserDegraded \/ RetryCommitted PROVE SequenceTypes'
  BY <1>1, <1>7, <1>14 DEF PumpDegraded, CrashCommitted, CloserDegraded, Degraded, RetryCommitted, Writing
<1>15. ASSUME NEW proven \in BOOLEAN,
              CrashStopped(proven) \/ CloseStopped(proven) \/ RetryStopped(proven)
       PROVE  SequenceTypes'
  BY <1>1, <1>8, <1>10, <1>15 DEF CrashStopped, CloseStopped, RetryStopped, Writers, Statuses, Terminal
<1>16. ASSUME StreamExhausted \/ RetryTerminate \/ GroupDies PROVE UNCHANGED <<queue, providerQueued, writes, stream, inbox, held>>
  BY <1>16 DEF StreamExhausted, RetryTerminate, GroupDies
<1>17. ASSUME Close PROVE SequenceTypes'
  BY <1>1, <1>7, <1>10, <1>17 DEF Close, RequestStop, Events
<1>18. /\ held # <<>> => Tail(held) \in Seq(Commands)
       /\ inbox # <<>> => Head(inbox) \in Commands \cup {Abort} /\ Tail(inbox) \in Seq(Commands \cup {Abort})
       /\ \A c \in Commands : Append(held, c) \in Seq(Commands)
  BY SequencesType
<1>19. ASSUME ProviderReads PROVE SequenceTypes'
  <2>1. CASE Head(inbox) = Abort
    <3>1. stream' \in Seq(Events)
      BY <1>4, <1>19, <2>1 DEF ProviderReads, Events, Statuses, Live, TypeOK
    <3> QED
      BY <1>1, <1>18, <1>19, <2>1, <3>1 DEF ProviderReads
  <2>2. CASE Head(inbox) # Abort
    BY <1>1, <1>4, <1>18, <1>19, <2>2 DEF ProviderReads, Events, Statuses, Live
  <2> QED
    BY <2>1, <2>2
<1>20. ASSUME ProviderResumes PROVE SequenceTypes'
  BY <1>1, <1>4, <1>18, <1>20 DEF ProviderResumes, Events, Statuses, Live
<1>21. ASSUME NEW ok \in BOOLEAN, ProviderEnds(ok) PROVE SequenceTypes'
  <2>1. stream \o <<"error", "idle">> \in Seq(Events)
    BY <1>1 DEF Events
  <2> QED
    BY <1>1, <1>4, <1>18, <1>21, <2>1 DEF ProviderEnds, Events, Statuses, Live
<1>22. ASSUME NEW rest, ProviderExits(rest) PROVE SequenceTypes'
  <2>1. stream \o <<"exit">> \in Seq(Events) /\ stream \o <<"error", "exit">> \in Seq(Events)
    BY <1>1 DEF Events
  <2>2. <<>> \in Seq(Commands \cup {Abort})
    OBVIOUS
  <2> QED
    BY <1>1, <1>10, <1>22, <2>1, <2>2 DEF ProviderExits
<1> QED
  BY <1>1, <1>2, <1>3, <1>6, <1>9, <1>12, <1>13, <1>14, <1>15, <1>16, <1>17, <1>19, <1>20, <1>21, <1>22
  DEF Next, CommandStep, SendStep, PumpStep, CloserStep, ProviderStep

\* Every step keeps the types of the rest.
LEMMA ScalarSteps == ASSUME TypeOK, Next PROVE ScalarTypes'
<1> USE DEF ScalarTypes
<1>1. ScalarTypes
  BY TypeParts
<1>2. ASSUME NEW c \in Commands,
             Prompt(c) \/ FollowUpNow(c) \/ FollowUpLater(c) \/ SendAnswered(c) \/ SendFails(c)
      PROVE ScalarTypes'
  BY <1>1, <1>2 DEF Prompt, FollowUpNow, Dispatch, FollowUpLater, SendAnswered, SendFails
<1>3. \A s \in Statuses : SetStatus(s) /\ (s \in Events \/ s = wire.status) =>
         wire' \in [status : Statuses, stopping : BOOLEAN, ended : BOOLEAN]
  BY SetStatusType DEF WireType
<1>4. ASSUME Cancel PROVE ScalarTypes'
  BY <1>1, <1>3, <1>4 DEF Cancel, Events, Statuses, Live
<1>5. \A place \in PumpPlaces : PumpGoes(place) => PumpType'
  BY PumpGoesType
<1>6. ASSUME ReadTurnEnd PROVE ScalarTypes'
  <2>1. PumpType'
    BY <1>6 DEF ReadTurnEnd, PumpType, PumpPlaces, OutcomeOf, Results, TypeOK
  <2> QED
    BY <1>1, <1>6, <2>1 DEF ReadTurnEnd, PumpType, Statuses, Live
<1>7. ASSUME ReadStatus PROVE ScalarTypes'
  BY <1>1, <1>5, <1>7 DEF ReadStatus, NewStatus, PumpType, PumpPlaces, Statuses
<1>8. [wire EXCEPT !.stopping = TRUE] \in [status : Statuses, stopping : BOOLEAN, ended : BOOLEAN]
  BY DEF TypeOK
<1>9. ASSUME ReadExit \/ StreamExhausted PROVE ScalarTypes'
  <2>1. PumpType'
    BY <1>5, <1>9 DEF ReadExit, StreamExhausted, Crash, PumpPlaces
  <2> QED
    BY <1>1, <1>8, <1>9, <2>1 DEF ReadExit, StreamExhausted, Crash, PumpType
<1>10. ASSUME ReadOther PROVE ScalarTypes'
  BY <1>1, <1>10 DEF ReadOther
<1>11. \A by \in Writers : Writing(by) /\ (Lands \/ Fails) =>
         /\ record' \in [status : Statuses, revision : Nat]
         /\ failures' \in 0..MaxFailures
         /\ Head(writes).status \in Statuses
  BY WriteType
<1>12. ASSUME StatusCommitted \/ TurnCommitted PROVE ScalarTypes'
  <2>1. PumpType'
    BY <1>5, <1>12 DEF StatusCommitted, TurnCommitted, PumpPlaces
  <2>2. turn' \in Commands \cup {None}
    <3>1. providerQueued # <<>> => Head(providerQueued) \in Commands
      BY SequencesType
    <3>2. queue # <<>> => Head(queue) \in Commands
      BY SequencesType
    <3>3. DrainQueue => queue # <<>>
      BY EmptyHasNone DEF DrainQueue, MayDrain, Waiting
    <3> QED
      BY <1>1, <1>12, <3>1, <3>2, <3>3
      DEF StatusCommitted, TurnCommitted, DrainProvider, DrainQueue, NoDrain, Degrade
  <2>3. /\ record' \in [status : Statuses, revision : Nat] /\ failures' \in 0..MaxFailures
        /\ Head(writes).status \in Statuses
    BY <1>11, <1>12 DEF StatusCommitted, TurnCommitted, Writers
  <2>4. status' \in Statuses /\ degraded' \in BOOLEAN
    BY <1>1, <1>12, <2>3 DEF StatusCommitted, TurnCommitted, Degrade, Statuses, Terminal
  <2> QED
    BY <1>1, <1>12, <2>1, <2>2, <2>3, <2>4 DEF StatusCommitted, TurnCommitted, PumpType
<1>13. ASSUME PumpDegraded \/ CloserDegraded PROVE ScalarTypes'
  <2>1. PumpType'
    BY <1>1, <1>5, <1>13 DEF PumpDegraded, CloserDegraded, Degraded, PumpPlaces, PumpType
  <2> QED
    BY <1>1, <1>11, <1>13, <2>1 DEF PumpDegraded, CloserDegraded, Degraded, PumpType, CloserPlaces, Writers
<1>14. ASSUME NEW proven \in BOOLEAN, CrashStopped(proven) PROVE ScalarTypes'
  BY <1>1, <1>5, <1>14 DEF CrashStopped, PumpType, PumpPlaces, Statuses, Terminal
<1>15. ASSUME CrashCommitted PROVE ScalarTypes'
  BY <1>1, <1>5, <1>11, <1>15 DEF CrashCommitted, PumpType, PumpPlaces, Writers
<1>16. ASSUME NEW proven \in BOOLEAN, CloseStopped(proven) \/ RetryStopped(proven) PROVE ScalarTypes'
  BY <1>1, <1>16 DEF CloseStopped, RetryStopped, CloserPlaces, Statuses, Terminal
<1>17. ASSUME CloseCommitted PROVE ScalarTypes'
  <2>1. /\ record' \in [status : Statuses, revision : Nat] /\ failures' \in 0..MaxFailures
        /\ Head(writes).status \in Statuses
    BY <1>11, <1>17 DEF CloseCommitted, Writers
  <2>2. turn' \in Commands \cup {None} /\ status' \in Statuses /\ degraded' \in BOOLEAN
    BY <1>1, <1>17, <2>1 DEF CloseCommitted, Degrade, Statuses, Terminal
  <2>3. closer' \in CloserPlaces /\ finished' \in BOOLEAN
    BY <1>1, <1>17 DEF CloseCommitted, CloserPlaces
  <2> QED
    BY <1>1, <1>17, <2>1, <2>2, <2>3 DEF CloseCommitted
<1>18. ASSUME RetryCommitted PROVE ScalarTypes'
  BY <1>1, <1>11, <1>18 DEF RetryCommitted, CloserPlaces, Writers
<1>19. ASSUME Close PROVE ScalarTypes'
  <2>1. wire' \in [status : Statuses, stopping : BOOLEAN, ended : BOOLEAN]
    <3>1. [wire EXCEPT !.stopping = TRUE, !.status = "closing"]
            \in [status : Statuses, stopping : BOOLEAN, ended : BOOLEAN]
      BY DEF TypeOK, Statuses, Live
    <3> QED
      BY <1>8, <1>19, <3>1 DEF Close, RequestStop
  <2> QED
    BY <1>1, <1>19, <2>1 DEF Close, CloserPlaces, Statuses, Live
<1>20. ASSUME RetryTerminate PROVE ScalarTypes'
  BY <1>1, <1>8, <1>20 DEF RetryTerminate, CloserPlaces
<1>21. /\ inbox # <<>> => Head(inbox) \in Commands \cup {Abort}
       /\ held # <<>> => Head(held) \in Commands
  BY SequencesType
<1>22. ASSUME ProviderReads PROVE ScalarTypes'
  <2>1. wire' \in [status : Statuses, stopping : BOOLEAN, ended : BOOLEAN]
    BY <1>1, <1>3, <1>22 DEF ProviderReads, Events, Statuses, Live
  <2> QED
    BY <1>1, <1>21, <1>22, <2>1 DEF ProviderReads
<1>23. ASSUME ProviderResumes PROVE ScalarTypes'
  BY <1>1, <1>3, <1>21, <1>23 DEF ProviderResumes, Events, Statuses, Live
<1>24. ASSUME NEW ok \in BOOLEAN, ProviderEnds(ok) PROVE ScalarTypes'
  <2>1. wire' \in [status : Statuses, stopping : BOOLEAN, ended : BOOLEAN]
    BY <1>1, <1>3, <1>24 DEF ProviderEnds, Events, Statuses, Live
  <2> QED
    BY <1>1, <1>21, <1>24, <2>1 DEF ProviderEnds
<1>25. ASSUME NEW rest \in {"group", "none"}, ProviderExits(rest) PROVE ScalarTypes'
  <2>1. wire' \in [status : Statuses, stopping : BOOLEAN, ended : BOOLEAN]
    BY <1>25 DEF ProviderExits, TypeOK, Statuses, Terminal
  <2> QED
    BY <1>1, <1>25, <2>1 DEF ProviderExits
<1>26. ASSUME GroupDies PROVE ScalarTypes'
  BY <1>1, <1>26 DEF GroupDies
<1> QED
  BY <1>2, <1>4, <1>6, <1>7, <1>9, <1>10, <1>12, <1>13, <1>14, <1>15, <1>16, <1>17, <1>18, <1>19, <1>20,
     <1>22, <1>23, <1>24, <1>25, <1>26
  DEF Next, CommandStep, SendStep, PumpStep, CloserStep, ProviderStep

\* TypeOK is inductive.
LEMMA TypeSteps == ASSUME TypeOK, [Next]_vars PROVE TypeOK'
<1>1. CASE Next
  BY <1>1, FunctionSteps, SequenceSteps, ScalarSteps, TypeParts
<1>2. CASE UNCHANGED vars
  BY <1>2 DEF TypeOK, vars
<1> QED
  BY <1>1, <1>2

-----------------------------------------------------------------------------
(* The mirror's writes.                                                    *)

\* Each activity has the one write it awaits.
WritesOK == OneEach(writes) /\ Authors(writes) = {by \in Writers : Committing(by)}

\* A write is asked for by an activity that awaits none.
LEMMA WriteJoins ==
  ASSUME TypeOK, WritesOK, NEW by \in Writers, ~Committing(by), NEW s \in Statuses,
         writes' = Append(writes, Commit(by, s))
  PROVE  /\ OneEach(writes)' /\ Authors(writes)' = Authors(writes) \cup {by}
         /\ Range(writes)' = Range(writes) \cup {Commit(by, s)}
         /\ writes' # <<>>
         /\ Head(writes)' = IF writes = <<>> THEN Commit(by, s) ELSE Head(writes)
<1>1. writes \in Seq(Write) /\ Commit(by, s) \in Write /\ Commit(by, s).by = by
  BY CommitType, TypeParts DEF SequenceTypes
<1>2. by \notin Authors(writes) /\ OneEach(writes)
  BY DEF WritesOK
<1>3. /\ OneEach(Append(writes, Commit(by, s)))
      /\ Authors(Append(writes, Commit(by, s))) = Authors(writes) \cup {by}
  BY <1>1, <1>2, AppendAuthors
<1>4. /\ Range(Append(writes, Commit(by, s))) = Range(writes) \cup {Commit(by, s)}
      /\ Append(writes, Commit(by, s)) # <<>>
  BY <1>1, AppendKeeps
<1>5. Head(Append(writes, Commit(by, s))) = IF writes = <<>> THEN Commit(by, s) ELSE Head(writes)
  BY <1>1
<1> QED
  BY <1>3, <1>4, <1>5

\* The write under way is over.
LEMMA WriteLeaves ==
  ASSUME TypeOK, WritesOK, NEW by \in Writers, Writing(by), writes' = Tail(writes)
  PROVE  /\ OneEach(writes)' /\ Authors(writes)' = Authors(writes) \ {by}
         /\ Range(writes) = {Head(writes)} \cup Range(writes)'
         /\ \A w \in Range(writes)' : w.by # by
         /\ writes' \in Seq(Write)
<1>1. writes \in Seq(Write) /\ writes # <<>> /\ OneEach(writes) /\ Head(writes).by = by
  BY TypeParts DEF SequenceTypes, WritesOK, Writing
<1>2. /\ OneEach(Tail(writes)) /\ Authors(Tail(writes)) = Authors(writes) \ {by}
      /\ Tail(writes) \in Seq(Write)
  BY <1>1, TailAuthors
<1>3. Range(writes) = {Head(writes)} \cup Range(Tail(writes))
  BY <1>1, TailKeeps
<1>4. \A w \in Range(Tail(writes)) : w.by # by
  BY <1>2 DEF Range, Authors
<1> QED
  BY <1>2, <1>3, <1>4

\* The write under way fails and the session's last one takes its place.
LEMMA WriteReplaced ==
  ASSUME TypeOK, WritesOK, NEW by \in Writers, Writing(by), NEW s \in Statuses,
         writes' = Append(Tail(writes), Commit(by, s))
  PROVE  /\ OneEach(writes)' /\ Authors(writes)' = Authors(writes)
         /\ Range(writes)' \subseteq Range(writes) \cup {Commit(by, s)}
<1>1. /\ writes \in Seq(Write) /\ writes # <<>> /\ OneEach(writes) /\ Head(writes).by = by
      /\ Commit(by, s) \in Write /\ Commit(by, s).by = by
  BY TypeParts, CommitType DEF SequenceTypes, WritesOK, Writing
<1>2. /\ OneEach(Tail(writes)) /\ Authors(Tail(writes)) = Authors(writes) \ {by}
      /\ Tail(writes) \in Seq(Write)
  BY <1>1, TailAuthors
<1>3. by \in Authors(writes)
  <2>1. 1 \in DOMAIN writes /\ writes[1].by = by
    BY <1>1, TailKeeps
  <2> QED
    BY <2>1 DEF Authors
<1>4. by \notin Authors(Tail(writes))
  BY <1>2
<1>5. /\ OneEach(Append(Tail(writes), Commit(by, s)))
      /\ Authors(Append(Tail(writes), Commit(by, s))) = Authors(Tail(writes)) \cup {by}
  BY <1>1, <1>2, <1>4, AppendAuthors
<1>6. Range(Append(Tail(writes), Commit(by, s))) = Range(Tail(writes)) \cup {Commit(by, s)}
  <2>1. \A q \in Seq(Write) : \A e \in Write : Range(Append(q, e)) = Range(q) \cup {e}
    BY AppendKeeps
  <2> QED
    BY ONLY <1>1, <1>2, <2>1
<1>7. Range(Tail(writes)) \subseteq Range(writes)
  BY <1>1, TailKeeps
<1> QED
  BY <1>2, <1>3, <1>5, <1>6, <1>7

\* Each activity has the one write it awaits, after every step.
LEMMA WritesSteps == ASSUME TypeOK, WritesOK, Next PROVE WritesOK'
<1> USE DEF WritesOK, Committing, Writers
<1>1. ASSUME UNCHANGED <<writes, pump, closer>> PROVE WritesOK'
  BY <1>1 DEF Authors, OneEach
<1>2. ASSUME NEW c \in Commands,
             Prompt(c) \/ FollowUpNow(c) \/ FollowUpLater(c) \/ SendAnswered(c) \/ SendFails(c)
      PROVE  UNCHANGED <<writes, pump, closer>>
  BY <1>2 DEF Prompt, FollowUpNow, FollowUpLater, SendAnswered, SendFails
<1>3. ASSUME Cancel \/ ReadOther \/ ProviderStep PROVE UNCHANGED <<writes, pump, closer>>
  BY <1>3 DEF Cancel, ReadOther, ProviderStep, ProviderReads, ProviderResumes, ProviderEnds,
     ProviderExits, GroupDies
<1>4. ASSUME UNCHANGED writes, \A by \in Writers : Committing(by)' <=> Committing(by) PROVE WritesOK'
  BY <1>4 DEF Authors, OneEach
<1>5. \A place \in PumpPlaces : PumpGoes(place) => pump'.place = place
  BY PumpGoesType
<1>6. ASSUME ReadExit \/ StreamExhausted PROVE WritesOK'
  BY <1>4, <1>5, <1>6 DEF ReadExit, StreamExhausted, Crash, PumpAt, PumpPlaces
<1>7. ASSUME Close \/ RetryTerminate PROVE WritesOK'
  BY <1>4, <1>7 DEF Close, RetryTerminate
<1>8. ASSUME NEW by \in Writers, NEW s \in Statuses, ~Committing(by),
             writes' = Append(writes, Commit(by, s)), Committing(by)',
             \A d \in Writers \ {by} : Committing(d)' <=> Committing(d)
      PROVE  WritesOK'
  BY <1>8, WriteJoins
<1>9. ASSUME ReadTurnEnd \/ ReadStatus PROVE WritesOK'
  BY <1>5, <1>8, <1>9 DEF ReadTurnEnd, ReadStatus, NewStatus, PumpAt, PumpPlaces, Statuses, Live
<1>10. ASSUME NEW proven \in BOOLEAN, CrashStopped(proven) PROVE WritesOK'
  BY <1>5, <1>8, <1>10 DEF CrashStopped, PumpAt, PumpPlaces, Statuses, Terminal
<1>11. ASSUME NEW proven \in BOOLEAN, CloseStopped(proven) PROVE WritesOK'
  BY <1>8, <1>11 DEF CloseStopped, Statuses, Terminal
<1>12. ASSUME NEW proven \in BOOLEAN, RetryStopped(proven) PROVE WritesOK'
  BY <1>4, <1>8, <1>12 DEF RetryStopped, Statuses, Terminal
<1>13. ASSUME NEW by \in Writers, Writing(by), writes' = Tail(writes), ~Committing(by)',
              \A d \in Writers \ {by} : Committing(d)' <=> Committing(d)
       PROVE  WritesOK'
  BY <1>13, WriteLeaves
<1>14. ASSUME NEW by \in Writers, Writing(by), NEW s \in Statuses, NEW lost, Degrade(by, s, lost),
              Committing(by), Committing(by)', \A d \in Writers \ {by} : Committing(d)' <=> Committing(d)
       PROVE  WritesOK'
  BY <1>14, WriteReplaced DEF Degrade
<1>15. ASSUME StatusCommitted \/ TurnCommitted PROVE WritesOK'
  <2>1. Writing("pump") /\ Committing("pump") /\ UNCHANGED closer
    BY <1>15 DEF StatusCommitted, TurnCommitted, PumpAt
  <2>2. CASE writes' = Tail(writes) /\ PumpGoes("reading")
    BY <1>5, <1>13, <2>1, <2>2 DEF PumpPlaces
  <2>3. CASE PumpGoes("degradeCommit") /\ \E lost : Degrade("pump", "error", lost)
    BY <1>5, <1>14, <2>1, <2>3 DEF PumpPlaces, Statuses, Terminal
  <2> QED
    BY <1>15, <2>2, <2>3 DEF StatusCommitted, TurnCommitted
<1>16. ASSUME PumpDegraded \/ CrashCommitted PROVE WritesOK'
  BY <1>5, <1>13, <1>16 DEF PumpDegraded, Degraded, CrashCommitted, PumpPlaces, PumpAt
<1>17. ASSUME CloserDegraded \/ RetryCommitted PROVE WritesOK'
  BY <1>13, <1>17 DEF CloserDegraded, Degraded, RetryCommitted
<1>18. ASSUME CloseCommitted PROVE WritesOK'
  <2>1. Writing("closer") /\ Committing("closer") /\ UNCHANGED pump
    BY <1>18 DEF CloseCommitted
  <2>2. CASE writes' = Tail(writes) /\ closer' = "done"
    BY <1>13, <2>1, <2>2
  <2>3. CASE closer' = "degradeCommit" /\ \E s \in Statuses : \E lost : Degrade("closer", s, lost)
    BY <1>14, <2>1, <2>3
  <2> QED
    BY <1>18, <2>2, <2>3 DEF CloseCommitted, Statuses, Terminal
<1> QED
  BY <1>1, <1>2, <1>3, <1>6, <1>7, <1>9, <1>10, <1>11, <1>12, <1>15, <1>16, <1>17, <1>18
  DEF Next, CommandStep, SendStep, PumpStep, CloserStep

-----------------------------------------------------------------------------
(* The end of a session.                                                   *)

\* What the places of the pump and of the close pipeline say of the session's flags.
Stages ==
  /\ closer \in {"stopping", "orphanCommit", "closedCommit", "degradeCommit"} => closing
  /\ closer = "degradeCommit" => degraded
  /\ closer \in {"done", "retrying", "retryCommit"} => finished
  /\ pump.place \in {"crashStop", "crashCommit"} => closing
  /\ pump.place = "degradeCommit" => degraded
  /\ pump.place # "turnCommit" => pump.turn = None /\ pump.outcome = "none"
  /\ finished /\ ~degraded => closing

\* The steps of the provider and of a command touch none of these.
LEMMA ElsewhereSteps ==
  ASSUME \/ \E c \in Commands : \/ Prompt(c) \/ FollowUpNow(c) \/ FollowUpLater(c)
                                \/ SendAnswered(c) \/ SendFails(c)
         \/ Cancel \/ ReadOther \/ ProviderStep
  PROVE  UNCHANGED <<status, lifeVars, pump, closer, record, writes, failures>>
BY DEF Prompt, FollowUpNow, FollowUpLater, SendAnswered, SendFails, Cancel, ReadOther, ProviderStep,
   ProviderReads, ProviderResumes, ProviderEnds, ProviderExits, GroupDies

\* The places and the flags agree after every step.
LEMMA StagesSteps == ASSUME TypeOK, Stages, Next PROVE Stages'
<1> USE DEF Stages
<1>1. ASSUME UNCHANGED <<lifeVars, pump, closer>> PROVE Stages'
  BY <1>1
<1>2. \A place \in PumpPlaces :
        PumpGoes(place) => pump'.place = place /\ pump'.turn = None /\ pump'.outcome = "none"
  BY PumpGoesType
<1>3. ASSUME ReadTurnEnd PROVE Stages'
  BY <1>3 DEF ReadTurnEnd, PumpAt
<1>4. ASSUME ReadStatus \/ ReadExit \/ StreamExhausted PROVE Stages'
  BY <1>2, <1>4 DEF ReadStatus, ReadExit, StreamExhausted, Crash, PumpAt, PumpPlaces
<1>5. ASSUME StatusCommitted \/ TurnCommitted PROVE Stages'
  BY <1>2, <1>5 DEF StatusCommitted, TurnCommitted, Degrade, PumpAt, PumpPlaces
<1>6. ASSUME PumpDegraded \/ CrashCommitted PROVE Stages'
  BY <1>2, <1>6 DEF PumpDegraded, Degraded, CrashCommitted, PumpAt, PumpPlaces
<1>7. ASSUME NEW proven \in BOOLEAN, CrashStopped(proven) PROVE Stages'
  BY <1>2, <1>7 DEF CrashStopped, PumpAt, PumpPlaces
<1>8. ASSUME NEW proven \in BOOLEAN, CloseStopped(proven) \/ RetryStopped(proven) PROVE Stages'
  BY <1>8 DEF CloseStopped, RetryStopped
<1>9. ASSUME CloseCommitted \/ CloserDegraded \/ RetryCommitted PROVE Stages'
  BY <1>9 DEF CloseCommitted, CloserDegraded, Degraded, Degrade, RetryCommitted
<1>10. ASSUME Close \/ RetryTerminate PROVE Stages'
  BY <1>10 DEF Close, RetryTerminate
<1> QED
  BY <1>1, <1>3, <1>4, <1>5, <1>6, <1>7, <1>8, <1>9, <1>10, ElsewhereSteps
  DEF Next, CommandStep, SendStep, PumpStep, CloserStep

\* A session that is over stays so: it says so, it has no turn, and what the
\* close pipeline commits is terminal.
Ended ==
  /\ degraded /\ ~closing => \/ ~finished /\ pump.place = "degradeCommit"
                             \/ finished /\ pump.place \in {"reading", "done"}
  /\ (finished \/ degraded) /\ ~closing => status \in Terminal
  /\ finished \/ degraded \/ closer \notin {"no", "stopping"} \/ pump.place = "crashCommit"
       => turn = None
  /\ \A w \in Range(writes) : w.by = "closer" => w.status \in Terminal

\* The write under way is one of the writes, of the activity that awaits it.
LEMMA HeadIn ==
  ASSUME TypeOK, NEW by \in Writers, Writing(by)
  PROVE  Head(writes) \in Range(writes) /\ Head(writes).by = by /\ Range(writes) \subseteq Write
<1>1. writes \in Seq(Write) /\ writes # <<>>
  BY TypeParts DEF SequenceTypes, Writing
<1>2. Range(writes) \subseteq Write
  BY <1>1 DEF Range
<1> QED
  BY <1>1, <1>2, TailKeeps DEF Writing

\* A session that is over stays so, whatever the pump and the close pipeline were at.
LEMMA EndedSteps == ASSUME TypeOK, WritesOK, Stages, Ended, Next PROVE Ended'
<1> USE DEF Ended, Writers
<1>1. ASSUME UNCHANGED <<status, lifeVars, pump, closer, writes>>, turn' \in {turn, None} PROVE Ended'
  BY <1>1
<1>2. Accepts => ~finished /\ ~degraded /\ closer = "no" /\ pump.place # "crashCommit"
  BY DEF Accepts, Stages, TypeOK, CloserPlaces
<1>3. ASSUME NEW c \in Commands, Prompt(c) \/ FollowUpNow(c) PROVE Ended'
  BY <1>2, <1>3 DEF Prompt, FollowUpNow
<1>4. ASSUME NEW c \in Commands, FollowUpLater(c) \/ SendAnswered(c) \/ SendFails(c) PROVE Ended'
  BY <1>1, <1>4 DEF FollowUpLater, SendAnswered, SendFails
<1>5. ASSUME Cancel \/ ReadOther \/ ProviderStep PROVE Ended'
  BY <1>1, <1>5 DEF Cancel, ReadOther, ProviderStep, ProviderReads, ProviderResumes, ProviderEnds,
     ProviderExits, GroupDies
<1>6. \A place \in PumpPlaces : PumpGoes(place) => pump'.place = place
  BY PumpGoesType
<1>7. ASSUME ReadTurnEnd PROVE Ended'
  <2>1. Range(writes)' = Range(writes) \cup {Commit("pump", "idle")} /\ Commit("pump", "idle").by = "pump"
    BY <1>7, WriteJoins, CommitType DEF ReadTurnEnd, PumpAt, Committing, Statuses, Live
  <2> QED
    BY <1>7, <2>1 DEF ReadTurnEnd, PumpAt
<1>8. ASSUME ReadStatus PROVE Ended'
  <2>1. /\ Range(writes)' = Range(writes) \cup {Commit("pump", Head(stream))}
        /\ Commit("pump", Head(stream)).by = "pump"
    BY <1>8, WriteJoins, CommitType DEF ReadStatus, NewStatus, PumpAt, Committing, Statuses
  <2> QED
    BY <1>6, <1>8, <2>1 DEF ReadStatus, NewStatus, PumpAt, PumpPlaces
<1>9. ASSUME ReadExit \/ StreamExhausted PROVE Ended'
  BY <1>6, <1>9 DEF ReadExit, StreamExhausted, Crash, PumpAt, PumpPlaces
<1>10. ASSUME NEW by \in Writers, Writing(by), writes' = Tail(writes) PROVE Range(writes)' \subseteq Range(writes)
  BY <1>10, WriteLeaves
<1>11. ASSUME NEW by \in Writers, NEW s \in Terminal, NEW lost, Writing(by), Degrade(by, s, lost)
       PROVE  /\ \A w \in Range(writes)' : w.by = "closer" => w.status \in Terminal
              /\ turn' = None /\ status' \in Terminal /\ degraded'
  <2>1. Range(writes)' \subseteq Range(writes) \cup {Commit(by, s)} /\ Commit(by, s).status = s
    BY <1>11, WriteReplaced, CommitType DEF Degrade, Statuses
  <2> QED
    BY <1>11, <2>1 DEF Degrade
<1>12. ASSUME StatusCommitted \/ TurnCommitted PROVE Ended'
  <2>1. Writing("pump") /\ pump.place \in {"statusCommit", "turnCommit"} /\ UNCHANGED <<closing, finished, closer>>
    BY <1>12 DEF StatusCommitted, TurnCommitted, PumpAt
  <2>2. CASE /\ writes' = Tail(writes) /\ PumpGoes("reading") /\ UNCHANGED degraded
             /\ turn' = turn \/ MayDrain
    BY <1>6, <1>10, <2>1, <2>2 DEF MayDrain, PumpPlaces, Stages, TypeOK, CloserPlaces
  <2>3. CASE PumpGoes("degradeCommit") /\ \E lost : Degrade("pump", "error", lost)
    BY <1>6, <1>11, <2>1, <2>3 DEF PumpPlaces, Terminal, Stages
  <2> QED
    BY <1>12, <2>2, <2>3 DEF StatusCommitted, TurnCommitted, DrainProvider, DrainQueue, NoDrain
<1>13. ASSUME PumpDegraded PROVE Ended'
  BY <1>6, <1>10, <1>13 DEF PumpDegraded, Degraded, PumpAt, PumpPlaces, Stages
<1>14. ASSUME CrashCommitted PROVE Ended'
  BY <1>6, <1>10, <1>14 DEF CrashCommitted, PumpAt, PumpPlaces, Stages
<1>15. ASSUME NEW proven \in BOOLEAN, CrashStopped(proven) PROVE Ended'
  <2>1. /\ Range(writes)' = Range(writes) \cup {Commit("pump", status')}
        /\ Commit("pump", status').by = "pump"
    BY <1>15, WriteJoins, CommitType DEF CrashStopped, PumpAt, Committing, Statuses, Terminal
  <2> QED
    BY <1>6, <1>15, <2>1 DEF CrashStopped, PumpAt, PumpPlaces, Stages
<1>16. ASSUME NEW s \in Terminal, writes' = Append(writes, Commit("closer", s)), ~Committing("closer")
       PROVE  \A w \in Range(writes)' : w.by = "closer" => w.status \in Terminal
  BY <1>16, WriteJoins, CommitType DEF Statuses
<1>17. ASSUME NEW proven \in BOOLEAN, CloseStopped(proven) PROVE Ended'
  BY <1>16, <1>17 DEF CloseStopped, Committing, Terminal, Stages
<1>18. ASSUME NEW proven \in BOOLEAN, RetryStopped(proven) PROVE Ended'
  BY <1>16, <1>18 DEF RetryStopped, Committing, Terminal, Stages
<1>19. ASSUME CloseCommitted PROVE Ended'
  <2>1. Writing("closer") /\ closing /\ UNCHANGED <<closing, pump>> /\ turn = None
    BY <1>19 DEF CloseCommitted, Stages
  <2>2. CASE writes' = Tail(writes) /\ UNCHANGED turn
    BY <1>10, <2>1, <2>2
  <2>3. CASE \E s \in Terminal : \E lost : Degrade("closer", s, lost)
    BY <1>11, <2>1, <2>3
  <2> QED
    BY <1>19, <2>2, <2>3 DEF CloseCommitted, Terminal
<1>20. ASSUME CloserDegraded PROVE Ended'
  BY <1>10, <1>20 DEF CloserDegraded, Degraded, Stages
<1>21. ASSUME RetryCommitted PROVE Ended'
  <2>1. Head(writes).status \in Terminal
    BY <1>21, HeadIn DEF RetryCommitted
  <2> QED
    BY <1>10, <1>21, <2>1 DEF RetryCommitted, Stages, Lands
<1>22. ASSUME Close \/ RetryTerminate PROVE Ended'
  BY <1>22 DEF Close, RetryTerminate
<1> QED
  BY <1>3, <1>4, <1>5, <1>7, <1>8, <1>9, <1>12, <1>13, <1>14, <1>15, <1>17, <1>18, <1>19, <1>20, <1>21, <1>22
  DEF Next, CommandStep, SendStep, PumpStep, CloserStep

\* A status that says the provider is gone is said of a provider that is.
Proven(s) ==
  /\ s = "closed" => alive = "none"
  /\ s = "error" /\ ~degraded => alive = "none"

\* Of the record and of every write on its way to it.
ProofsKept == Proven(record.status) /\ \A w \in Range(writes) : Proven(w.status)

\* A record, or a write to come, never says more of the provider than was proven.
LEMMA ProofsSteps == ASSUME TypeOK, WritesOK, ProofsKept, Next PROVE ProofsKept'
<1> USE DEF Writers
<1>1. (alive = "none" => alive' = "none") /\ (degraded => degraded')
  <2>1. CASE CommandStep \/ SendStep
    BY <2>1 DEF CommandStep, SendStep, Prompt, FollowUpNow, FollowUpLater, Cancel, SendAnswered, SendFails
  <2>2. CASE PumpStep
    BY <2>2 DEF PumpStep, ReadTurnEnd, ReadStatus, ReadExit, ReadOther, StreamExhausted, Crash,
       StatusCommitted, TurnCommitted, Degrade, PumpDegraded, Degraded, CrashStopped, CrashCommitted
  <2>3. CASE CloserStep \/ Close \/ RetryTerminate
    BY <2>3 DEF CloserStep, CloseStopped, RetryStopped, CloseCommitted, Degrade, CloserDegraded,
       Degraded, RetryCommitted, Close, RetryTerminate
  <2>4. CASE ProviderStep
    BY <2>4 DEF ProviderStep, ProviderReads, ProviderResumes, ProviderEnds, ProviderExits, GroupDies
  <2> QED
    BY <2>1, <2>2, <2>3, <2>4 DEF Next
<1>2. ASSUME NEW s, Proven(s) PROVE Proven(s)'
  BY <1>1, <1>2 DEF Proven
<1>3. ASSUME UNCHANGED record, Range(writes)' \subseteq Range(writes) PROVE ProofsKept'
  BY <1>2, <1>3 DEF ProofsKept
<1>4. ASSUME UNCHANGED record, NEW w, Range(writes)' \subseteq Range(writes) \cup {w}, Proven(w.status)' PROVE ProofsKept'
  BY <1>2, <1>4 DEF ProofsKept
<1>5. ASSUME NEW by \in Writers, Writing(by), Lands \/ Fails, writes' = Tail(writes) PROVE ProofsKept'
  <2>1. Range(writes)' \subseteq Range(writes) /\ Head(writes) \in Range(writes)
    BY <1>5, WriteLeaves, HeadIn
  <2>2. record'.status \in {record.status, Head(writes).status}
    BY <1>5 DEF Lands, Fails
  <2> QED
    BY <1>2, <2>1, <2>2 DEF ProofsKept
<1>6. ASSUME NEW by \in Writers, NEW s \in Terminal, NEW lost, Writing(by), Degrade(by, s, lost),
             Fails, s # "closed"
      PROVE  ProofsKept'
  <2>1. Range(writes)' \subseteq Range(writes) \cup {Commit(by, s)} /\ Commit(by, s).status = s
    BY <1>6, WriteReplaced, CommitType DEF Degrade, Statuses
  <2>2. Proven(s)'
    BY <1>6 DEF Degrade, Proven
  <2> QED
    BY <1>4, <1>6, <2>1, <2>2 DEF Fails
<1>7. ASSUME NEW by \in Writers, NEW s \in Statuses, ~Committing(by), Proven(s)', UNCHANGED record,
             writes' = Append(writes, Commit(by, s))
      PROVE  ProofsKept'
  <2>1. Range(writes)' \subseteq Range(writes) \cup {Commit(by, s)} /\ Commit(by, s).status = s
    BY <1>7, WriteJoins, CommitType
  <2> QED
    BY <1>4, <1>7, <2>1
<1>8. CASE CommandStep \/ SendStep \/ ReadOther \/ ProviderStep
  <2>1. UNCHANGED <<record, writes>>
    BY <1>8, ElsewhereSteps DEF CommandStep, SendStep
  <2> QED
    BY <1>3, <2>1
<1>9. CASE ReadExit \/ StreamExhausted \/ Close \/ RetryTerminate
  BY <1>3, <1>9 DEF ReadExit, StreamExhausted, Close, RetryTerminate
<1>10. CASE ReadTurnEnd
  <2>1. Proven("idle")'
    BY DEF Proven
  <2> QED
    BY <1>7, <1>10, <2>1 DEF ReadTurnEnd, PumpAt, Committing, Statuses, Live
<1>11. CASE ReadStatus
  <2> PICK s \in Live : s = Head(stream)
    BY <1>11 DEF ReadStatus, NewStatus
  <2>1. Proven(s)'
    BY DEF Proven, Live
  <2> QED
    BY <1>7, <1>11, <2>1 DEF ReadStatus, PumpAt, Committing, Statuses
<1>12. CASE StatusCommitted \/ TurnCommitted
  <2>1. CASE writes' = Tail(writes) /\ Lands
    BY <1>5, <1>12, <2>1 DEF StatusCommitted, TurnCommitted
  <2>2. CASE Fails /\ \E lost : Degrade("pump", "error", lost)
    BY <1>6, <1>12, <2>2 DEF StatusCommitted, TurnCommitted, Terminal
  <2> QED
    BY <1>12, <2>1, <2>2 DEF StatusCommitted, TurnCommitted
<1>13. CASE PumpDegraded \/ CrashCommitted \/ CloserDegraded \/ RetryCommitted
  BY <1>5, <1>13 DEF PumpDegraded, CloserDegraded, Degraded, CrashCommitted, RetryCommitted
<1>14. ASSUME NEW proven \in BOOLEAN, CrashStopped(proven) PROVE ProofsKept'
  <2>1. \E s \in {"error", "orphaned"} : s = status' /\ Proven(s)'
    BY <1>14 DEF CrashStopped, MayReport, Proven
  <2> QED
    BY <1>7, <1>14, <2>1 DEF CrashStopped, PumpAt, Committing, Statuses, Terminal
<1>15. ASSUME NEW proven \in BOOLEAN, CloseStopped(proven) PROVE ProofsKept'
  <2>1. \E s \in {"closed", "orphaned"} : s = status' /\ Proven(s)'
    BY <1>15 DEF CloseStopped, MayReport, Proven
  <2> QED
    BY <1>7, <1>15, <2>1 DEF CloseStopped, Committing, Statuses, Terminal
<1>16. ASSUME NEW proven \in BOOLEAN, RetryStopped(proven) PROVE ProofsKept'
  <2>1. proven => Proven("closed")'
    BY <1>16 DEF RetryStopped, MayReport, Proven
  <2> QED
    BY <1>3, <1>7, <1>16, <2>1 DEF RetryStopped, Committing, Statuses, Terminal
<1>17. CASE CloseCommitted
  <2>1. CASE Lands /\ writes' = Tail(writes)
    BY <1>5, <1>17, <2>1 DEF CloseCommitted
  <2>2. CASE Fails /\ \E s \in {"error", "orphaned"} : Degrade("closer", s, {})
    BY <1>6, <1>17, <2>2 DEF CloseCommitted, Terminal
  <2> QED
    BY <1>17, <2>1, <2>2 DEF CloseCommitted
<1> QED
  BY <1>8, <1>9, <1>10, <1>11, <1>12, <1>13, <1>14, <1>15, <1>16, <1>17
  DEF Next, CommandStep, SendStep, PumpStep, CloserStep

\* A write is on its way only for an activity that awaits it.
LEMMA WritesAwaited ==
  ASSUME TypeOK, WritesOK
  PROVE  /\ \A w \in Range(writes) : w \in Write /\ w.by \in Writers /\ Committing(w.by)
         /\ writes # <<>> => Head(writes) \in Range(writes)
<1>1. writes \in Seq(Write)
  BY TypeParts DEF SequenceTypes
<1>2. ASSUME NEW w \in Range(writes) PROVE w \in Write /\ w.by \in Writers /\ Committing(w.by)
  <2>1. w \in Write /\ w.by \in Authors(writes)
    BY <1>1, <1>2 DEF Range, Authors
  <2> QED
    BY <2>1 DEF WritesOK
<1> QED
  BY <1>1, <1>2, TailKeeps

\* Without a failing write: what is committed last is what memory says, and a
\* session that finished commits terminal statuses only.
LastWord == failures = 0 =>
  /\ ~degraded
  /\ closer \notin {"no", "stopping"} => closing
  /\ pump.place = "crashCommit" \/ finished => \A w \in Range(writes) : w.status \in Terminal
  /\ writes # <<>> /\ Head(writes).by = "closer" => \A w \in Range(writes) : w.status \in Terminal
  /\ finished /\ writes = <<>> /\ closer # "stopping" /\ pump.place # "crashStop"
       => record.status = status /\ status \in Terminal

\* While no write failed, what ends a session is written after what it awaited.
LEMMA LastWordSteps == ASSUME TypeOK, WritesOK, Stages, Ended, LastWord, Next PROVE LastWord'
<1> USE DEF Writers, LastWord
<1>1. failures' = 0 => failures = 0
  <2>1. failures \in Nat /\ (UNCHANGED failures \/ failures' = failures + 1)
    <3>1. failures \in Nat
      BY KernelAssumption DEF TypeOK
    <3>2. CASE CommandStep \/ SendStep \/ ReadOther \/ ProviderStep
      BY <3>1, <3>2, ElsewhereSteps DEF CommandStep, SendStep
    <3>3. CASE PumpStep /\ ~ReadOther
      BY <3>1, <3>3 DEF PumpStep, ReadTurnEnd, ReadStatus, ReadExit, StreamExhausted, StatusCommitted,
         TurnCommitted, PumpDegraded, Degraded, CrashStopped, CrashCommitted, Lands, Fails
    <3>4. CASE CloserStep \/ Close \/ RetryTerminate
      BY <3>1, <3>4 DEF CloserStep, CloseStopped, RetryStopped, CloseCommitted, CloserDegraded,
         Degraded, RetryCommitted, Close, RetryTerminate, Lands, Fails
    <3> QED
      BY <3>2, <3>3, <3>4 DEF Next, PumpStep
  <2> QED
    BY <2>1
<1>2. SUFFICES ASSUME failures = 0, ~Fails PROVE LastWord'
  <2>1. Fails => failures' # 0
    BY KernelAssumption DEF Fails, TypeOK
  <2> QED
    BY <1>1, <2>1
<1>3. ~degraded /\ pump.place # "degradeCommit" /\ closer # "degradeCommit" /\ (finished => closing)
  BY <1>2 DEF Stages
<1>4. ASSUME UNCHANGED <<status, lifeVars, pump, closer, record, writes, failures>> PROVE LastWord'
  BY <1>4
<1>5. CASE CommandStep \/ SendStep \/ ReadOther \/ ProviderStep
  BY <1>4, <1>5, ElsewhereSteps DEF CommandStep, SendStep
<1>6. \A place \in PumpPlaces : PumpGoes(place) => pump'.place = place
  BY PumpGoesType
<1>7. CASE ReadExit \/ StreamExhausted
  BY <1>2, <1>3, <1>6, <1>7 DEF ReadExit, StreamExhausted, Crash, PumpAt, PumpPlaces
<1>8. CASE Close \/ RetryTerminate
  BY <1>2, <1>3, <1>8 DEF Close, RetryTerminate, Stages
<1>9. ASSUME NEW by \in Writers, NEW s \in Statuses, writes' = Append(writes, Commit(by, s)),
             ~Committing(by)
      PROVE  /\ Range(writes)' = Range(writes) \cup {Commit(by, s)}
             /\ Commit(by, s).status = s /\ Commit(by, s).by = by
             /\ writes' # <<>>
             /\ Head(writes)' = IF writes = <<>> THEN Commit(by, s) ELSE Head(writes)
  BY <1>9, WriteJoins, CommitType
<1>10. /\ \A w \in Range(writes) : w.by \in Writers /\ Committing(w.by)
       /\ writes # <<>> => Head(writes) \in Range(writes)
  BY WritesAwaited
<1>11. ASSUME ~Committing("pump") PROVE \A w \in Range(writes) : w.by = "closer" /\ w.status \in Terminal
  BY <1>10, <1>11 DEF Ended
<1>12. ASSUME NEW s \in Live, writes' = Append(writes, Commit("pump", s)), ~Committing("pump"),
              pump'.place \in {"statusCommit", "turnCommit"}, ~finished, ~degraded,
              UNCHANGED <<lifeVars, closer>>, closer \in {"no", "stopping"}
       PROVE  LastWord'
  <2>1. writes = <<>>
    BY <1>10, <1>12 DEF Committing
  <2> QED
    BY <1>9, <1>12, <2>1 DEF Statuses
<1>13. CASE ReadTurnEnd
  BY <1>3, <1>12, <1>13 DEF ReadTurnEnd, PumpAt, Committing, Live, Ended, TypeOK
<1>14. CASE ReadStatus
  BY <1>2, <1>3, <1>6, <1>12, <1>14 DEF ReadStatus, NewStatus, PumpAt, Committing, PumpPlaces
<1>15. ASSUME NEW proven \in BOOLEAN, CrashStopped(proven) PROVE LastWord'
  <2>1. status' \in Terminal /\ ~Committing("pump") /\ writes' = Append(writes, Commit("pump", status'))
    BY <1>15 DEF CrashStopped, Terminal, PumpAt, Committing
  <2>2. \A w \in Range(writes)' : w.status \in Terminal
    BY <1>9, <1>11, <2>1 DEF Statuses
  <2> QED
    BY <1>2, <1>3, <1>9, <1>15, <2>1, <2>2 DEF CrashStopped, Statuses
<1>16. ASSUME NEW s \in Terminal, writes' = Append(writes, Commit("closer", s)), ~Committing("closer"),
              UNCHANGED <<lifeVars, pump>>, closing
       PROVE  LastWord'
  <2>1. Range(writes)' = Range(writes) \cup {Commit("closer", s)} /\ Commit("closer", s).status = s
    BY <1>9, <1>16 DEF Statuses
  <2>2. Head(writes)'.by = "closer" => writes = <<>> \/ Head(writes).by = "closer"
    BY <1>9, <1>16 DEF Statuses
  <2>3. Head(writes)'.by = "closer" => Range(writes) = {}
    BY <1>10, <1>16, <2>2, EmptyHasNone
  <2>4. writes' # <<>>
    BY <1>9, <1>16 DEF Statuses
  <2> QED
    BY <1>2, <1>3, <1>16, <2>1, <2>3, <2>4
<1>17. ASSUME NEW proven \in BOOLEAN, CloseStopped(proven) PROVE LastWord'
  BY <1>16, <1>17 DEF CloseStopped, Committing, Terminal, Stages
<1>18. ASSUME NEW proven \in BOOLEAN, RetryStopped(proven) PROVE LastWord'
  <2>1. CASE proven
    BY <1>2, <1>16, <1>18, <2>1 DEF RetryStopped, Committing, Terminal
  <2>2. CASE ~proven
    BY <1>2, <1>18, <2>2 DEF RetryStopped
  <2> QED
    BY <2>1, <2>2
<1>19. ASSUME NEW by \in Writers, Writing(by), Lands, writes' = Tail(writes)
       PROVE  /\ Range(writes)' \subseteq Range(writes) /\ \A w \in Range(writes)' : w.by # by
              /\ Head(writes) \in Range(writes) /\ Head(writes).by = by
              /\ record'.status = Head(writes).status
              /\ writes' # <<>> => Head(writes)' \in Range(writes)'
  <2>1. writes' \in Seq(Write)
    BY <1>19, WriteLeaves
  <2>2. writes' # <<>> => Head(writes') \in Range(writes')
    BY <2>1, TailKeeps
  <2> QED
    BY <1>19, <2>2, WriteLeaves, HeadIn DEF Lands
<1>20. ASSUME Writing("pump"), Lands, writes' = Tail(writes), UNCHANGED <<closing, degraded, closer>>,
              status' = Head(writes).status,
              \/ UNCHANGED finished
              \/ \A w \in Range(writes) : w.status \in Terminal
       PROVE  LastWord'
  <2>1. \A w \in Range(writes)' : w.status \in Terminal
    BY <1>10, <1>19, <1>20 DEF Ended
  <2> QED
    BY <1>2, <1>3, <1>19, <1>20, <2>1
<1>21. CASE StatusCommitted \/ TurnCommitted
  BY <1>2, <1>20, <1>21 DEF StatusCommitted, TurnCommitted
<1>22. CASE CrashCommitted
  BY <1>2, <1>20, <1>22 DEF CrashCommitted, PumpAt
<1>23. CASE PumpDegraded \/ CloserDegraded
  BY <1>3, <1>23 DEF PumpDegraded, CloserDegraded, PumpAt
<1>24. ASSUME Writing("closer"), Lands, writes' = Tail(writes), UNCHANGED <<closing, degraded, pump>>,
              closing, status' = Head(writes).status
       PROVE  LastWord'
  <2>1. \A w \in Range(writes) : w.status \in Terminal
    BY <1>2, <1>24 DEF Writing
  <2> QED
    BY <1>2, <1>3, <1>19, <1>24, <2>1
<1>25. CASE CloseCommitted
  BY <1>2, <1>24, <1>25 DEF CloseCommitted, Stages
<1>26. CASE RetryCommitted
  BY <1>2, <1>24, <1>26 DEF RetryCommitted
<1> QED
  BY <1>5, <1>7, <1>8, <1>13, <1>14, <1>15, <1>17, <1>18, <1>21, <1>22, <1>23, <1>25, <1>26
  DEF Next, PumpStep, CloserStep

-----------------------------------------------------------------------------
(* Theorems for every provider and every value of the constants.           *)

EndInv == TypeOK /\ WritesOK /\ Stages /\ Ended /\ ProofsKept /\ LastWord

\* A session that has started satisfies the invariant.
LEMMA EndInvInit == Init => EndInv
<1> SUFFICES ASSUME Init PROVE EndInv
  OBVIOUS
<1>1. writes = <<>> /\ Range(writes) = {} /\ Authors(writes) = {}
  BY EmptyHasNone DEF Init, Authors
<1>2. TypeOK
  <2>1. stream \in Seq(Events)
    <3>1. <<>> \in Seq(Events) /\ <<"idle">> \in Seq(Events)
      BY DEF Events
    <3> QED
      BY <3>1 DEF Init
  <2>2. \A S : <<>> \in Seq(S)
    OBVIOUS
  <2>3. ScalarTypes
    <3>1. Reading \in [place : PumpPlaces, turn : Commands \cup {None}, outcome : Results]
      BY DEF Reading, PumpPlaces, Results
    <3>2. /\ [status |-> "idle", revision |-> 1] \in [status : Statuses, revision : Nat]
          /\ [status |-> "idle", stopping |-> FALSE, ended |-> FALSE]
               \in [status : Statuses, stopping : BOOLEAN, ended : BOOLEAN]
          /\ "idle" \in Statuses /\ "no" \in CloserPlaces
      BY DEF Statuses, Live, CloserPlaces
    <3>3. 0 \in 0..MaxFailures
      BY KernelAssumption
    <3>4. /\ pump = Reading /\ closer = "no" /\ status = "idle" /\ failures = 0
          /\ record = [status |-> "idle", revision |-> 1]
          /\ wire = [status |-> "idle", stopping |-> FALSE, ended |-> FALSE]
      BY DEF Init
    <3>5. /\ turn = None /\ prompted = None /\ running = None
          /\ cancelRequested = {} /\ errorSeen = {} /\ ran = {}
          /\ closing = FALSE /\ finished = FALSE /\ degraded = FALSE /\ alive = "leader"
      BY DEF Init
    <3> QED
      BY ONLY <3>1, <3>2, <3>3, <3>4, <3>5 DEF ScalarTypes
  <2>4. FunctionTypes
    BY DEF Init, FunctionTypes, Results
  <2>5. SequenceTypes
    BY <2>1, <2>2 DEF Init, SequenceTypes
  <2> QED
    BY <2>3, <2>4, <2>5, TypeParts
<1>3. WritesOK
  BY <1>1 DEF WritesOK, OneEach, Init, Committing, Reading, Writers
<1>4. Stages /\ Ended /\ ProofsKept /\ LastWord
  BY <1>1 DEF Init, Stages, Ended, ProofsKept, Proven, LastWord, Reading
<1> QED
  BY <1>2, <1>3, <1>4 DEF EndInv

\* Every step keeps the invariant.
LEMMA EndInvSteps == EndInv /\ [Next]_vars => EndInv'
<1> SUFFICES ASSUME EndInv, [Next]_vars PROVE EndInv'
  OBVIOUS
<1>1. TypeOK'
  BY TypeSteps DEF EndInv
<1>2. CASE Next
  BY <1>1, <1>2, WritesSteps, StagesSteps, EndedSteps, ProofsSteps, LastWordSteps DEF EndInv
<1>3. CASE UNCHANGED vars
  BY <1>1, <1>3 DEF EndInv, vars, WritesOK, OneEach, Authors, Committing, Stages, Ended, ProofsKept, Proven, LastWord
<1> QED
  BY <1>2, <1>3

\* The inductive invariant of a session's end holds always.
THEOREM EndInvariant == Spec => []EndInv
BY EndInvInit, EndInvSteps, PTL DEF Spec

\* The durable record says that the provider is gone only when it is (handleCrash,
\* runCloseAttempt), for every provider and every order of the pump and the close.
THEOREM StopProvenAlways == Spec => []StopProven
<1>1. EndInv => StopProven
  BY DEF EndInv, ProofsKept, Proven, StopProven
<1> QED
  BY <1>1, EndInvariant, PTL

\* A finished session at rest whose writes all landed has a terminal record, and it
\* says what memory says (finishTerminal): the race of the pump with a close ends well.
THEOREM RecordIsLastAlways == Spec => []RecordIsLast
<1>1. EndInv => RecordIsLast
  <2> SUFFICES ASSUME EndInv, finished, AtRest, failures = 0
               PROVE  writes = <<>> /\ record.status \in Terminal /\ record.status = status
    BY DEF RecordIsLast
  <2>1. ~Committing("pump") /\ ~Committing("closer")
    BY DEF AtRest, Committing
  <2>2. writes = <<>>
    BY <2>1, WritesAwaited DEF EndInv, Writers
  <2> QED
    BY <2>2 DEF EndInv, LastWord, AtRest
<1> QED
  BY <1>1, EndInvariant, PTL

-----------------------------------------------------------------------------
(* Whose turn it is, when follow-ups wait in the hub, the provider answers *)
(* a command before it ends its turn, and no command precedes the idle of  *)
(* the handshake.                                                          *)

HubQueued == AnswersFirst /\ PromptAfterHandshake /\ FollowUps = "hub-queued"

\* At most one element of the sequence is in the set.
Once(s, S) == \A i, j \in DOMAIN s : s[i] \in S /\ s[j] \in S => i = j

\* A command that an abort follows is one of cs.
Covered(s, cs) == \A i, j \in DOMAIN s : i < j /\ s[j] = Abort /\ s[i] \in Commands => s[i] \in cs

\* A tail holds an element of S at most once, and none if the head was one.
LEMMA OnceTail ==
  ASSUME NEW T, NEW s \in Seq(T), s # <<>>, NEW S, Once(s, S)
  PROVE  Once(Tail(s), S) /\ (Head(s) \in S => Range(Tail(s)) \cap S = {})
<1>1. /\ Head(s) = s[1] /\ 1 \in DOMAIN s /\ DOMAIN Tail(s) \subseteq Nat \ {0}
      /\ \A i \in DOMAIN Tail(s) : i + 1 \in DOMAIN s /\ Tail(s)[i] = s[i + 1]
  BY TailKeeps
<1>2. Once(Tail(s), S)
  BY <1>1 DEF Once
<1>3. ASSUME Head(s) \in S, NEW i \in DOMAIN Tail(s) PROVE Tail(s)[i] \notin S
  BY <1>1, <1>3 DEF Once
<1> QED
  BY <1>2, <1>3 DEF Range

\* An element of S joins a sequence that has none.
LEMMA OnceAppend ==
  ASSUME NEW T, NEW s \in Seq(T), NEW e \in T, NEW S, Once(s, S), e \notin S \/ Range(s) \cap S = {}
  PROVE  Once(Append(s, e), S)
BY AppendKeeps DEF Once, Range

\* An abort behind the head was asked for by the head's cancel.
LEMMA CoveredTail ==
  ASSUME NEW T, NEW s \in Seq(T), s # <<>>, NEW cs, Covered(s, cs)
  PROVE  /\ Covered(Tail(s), cs)
         /\ Head(s) \in Commands /\ Abort \in Range(Tail(s)) => Head(s) \in cs
<1>1. /\ Head(s) = s[1] /\ 1 \in DOMAIN s /\ DOMAIN Tail(s) \subseteq Nat \ {0}
      /\ \A i \in DOMAIN Tail(s) : i + 1 \in DOMAIN s /\ Tail(s)[i] = s[i + 1]
  BY TailKeeps
<1>2. Covered(Tail(s), cs)
  BY <1>1 DEF Covered
<1>3. ASSUME Head(s) \in Commands, NEW i \in DOMAIN Tail(s), Tail(s)[i] = Abort PROVE Head(s) \in cs
  BY <1>1, <1>3 DEF Covered
<1> QED
  BY <1>2, <1>3 DEF Range

\* An abort joins behind commands whose cancel was asked for.
LEMMA CoveredAppend ==
  ASSUME NEW T, NEW s \in Seq(T), NEW e \in T, NEW cs, Covered(s, cs),
         e # Abort \/ Range(s) \cap Commands \subseteq cs
  PROVE  Covered(Append(s, e), cs)
BY AppendKeeps DEF Covered, Range

\* Without the one command it holds, an inbox holds aborts only.
LEMMA WithdrawnRange ==
  ASSUME TypeOK, Once(inbox, Commands), NEW c \in Commands \cap Range(inbox)
  PROVE  Range(Withdrawn(c)) \subseteq {Abort}
<1> DEFINE at == CHOOSE i \in DOMAIN inbox : inbox[i] = c
           rest == [i \in 1..Len(inbox) - 1 |-> IF i < at THEN inbox[i] ELSE inbox[i + 1]]
<1>1. inbox \in Seq(Commands \cup {Abort}) /\ Len(inbox) \in Nat /\ DOMAIN inbox = 1..Len(inbox)
  BY DEF TypeOK
<1>2. at \in DOMAIN inbox /\ inbox[at] = c
  BY DEF Range
<1>3. Withdrawn(c) = rest
  BY DEF Withdrawn
<1> HIDE DEF at
<1>4. ASSUME NEW i \in 1..Len(inbox) - 1 PROVE rest[i] = Abort
  <2>1. CASE i < at
    <3>1. i \in DOMAIN inbox /\ i # at
      BY <1>1, <1>2, <2>1
    <3>2. inbox[i] \in Commands \cup {Abort} /\ inbox[i] \notin Commands
      BY <1>1, <1>2, <3>1 DEF Once
    <3> QED
      BY <2>1, <3>2
  <2>2. CASE ~(i < at)
    <3>1. i + 1 \in DOMAIN inbox /\ i + 1 # at
      BY <1>1, <1>2, <2>2
    <3>2. inbox[i + 1] \in Commands \cup {Abort} /\ inbox[i + 1] \notin Commands
      BY <1>1, <1>2, <3>1 DEF Once
    <3> QED
      BY <2>2, <3>2
  <2> QED
    BY <2>1, <2>2
<1> QED
  BY <1>3, <1>4 DEF Range

\* A sequence of aborts satisfies both.
LEMMA OnlyAborts ==
  ASSUME NEW s, Range(s) \subseteq {Abort}, NEW cs PROVE Once(s, Commands) /\ Covered(s, cs)
BY KernelAssumption DEF Range, Once, Covered

-----------------------------------------------------------------------------
(* One command at a time.                                                  *)

\* The session is over, or on its way there.
Over == closing \/ finished \/ degraded

\* The provider has the command, or owes its answer.
Busy(c) == c \in Range(inbox) \/ running = c \/ sending[c] # "no"

\* The wire is open while the provider lives; only a running turn makes it "running".
WireOK ==
  /\ alive = "leader" => WireOpen
  /\ alive # "leader" => ~WireOpen /\ running = None /\ inbox = <<>>
  /\ WireOpen /\ wire.status \in {"running", "cancelling"} => running # None

\* The provider is busy with one command at most, which is the turn unless a
\* session that ends has no turn any more.
InFlight ==
  /\ held = <<>> /\ providerQueued = <<>> /\ \A c \in Commands : sending[c] # "queue"
  /\ Once(inbox, Commands)
  /\ \A c \in Range(inbox) \cap Commands : running = None /\ sending[c] = "turn"
  /\ \A c \in Commands : Busy(c) => turn = c \/ (Over /\ turn = None)
  /\ \A c, d \in Commands : Busy(c) /\ Busy(d) => c = d

\* The end of a turn is told once, when the provider is done with the turn.
TurnEnds ==
  /\ Once(stream, {"idle"})
  /\ "idle" \in Range(stream) =>
       /\ \A c \in Commands : ~Busy(c)
       /\ turn # None \/ Over
       /\ turn # None => turn \in ran \cup cancelRequested

\* An abort reaches the turn it was asked for.
Aborts ==
  /\ Covered(inbox, cancelRequested)
  /\ running # None /\ Abort \in Range(inbox) => running \in cancelRequested

FlightInv == WireOK /\ InFlight /\ TurnEnds /\ Aborts

\* Nothing waits in a session whose end has begun.
Queued == finished \/ degraded \/ closer # "no" \/ pump.place = "crashCommit" => queue = <<>>

\* What the futures say.
Told ==
  /\ pump.outcome \in Settled \cup {"none"}
  /\ pump.outcome = "succeeded" => pump.turn \in ran
  /\ \A c \in Commands : result[c] = "succeeded" => c \in ran
  /\ \A c \in Commands : result[c] = "pending" => c \in Range(queue) \cup {turn, pump.turn}

\* A step that leaves the provider and its frames alone, tells no end of a
\* turn, and clears the turn only of a session that ends.
LEMMA FlightKept ==
  ASSUME TypeOK, FlightInv,
         UNCHANGED <<cancelRequested, sending, inbox, held, running, ran>>,
         UNCHANGED alive \/ (alive # "leader" /\ alive' # "leader"),
         providerQueued' \in {providerQueued, <<>>},
         WireOpen' <=> WireOpen,
         wire'.status \in {"running", "cancelling"} => wire.status \in {"running", "cancelling"},
         Once(stream, {"idle"})', "idle" \in Range(stream)' => "idle" \in Range(stream),
         Over => Over', turn' = turn \/ (turn' = None /\ Over')
  PROVE  FlightInv'
<1>1. WireOK'
  BY DEF FlightInv, WireOK
<1>2. \A c \in Commands : Busy(c)' <=> Busy(c)
  BY DEF Busy
<1>3. InFlight'
  <2>1. Once(inbox, Commands)'
    BY DEF FlightInv, InFlight, Once
  <2> QED
    BY <1>2, <2>1 DEF FlightInv, InFlight
<1>4. TurnEnds'
  BY <1>2 DEF FlightInv, TurnEnds
<1>5. Aborts'
  BY DEF FlightInv, Aborts, Covered
<1> QED
  BY <1>1, <1>3, <1>4, <1>5 DEF FlightInv

\* What reading and telling an event does to the ends of turns in the stream.
LEMMA OneIdle ==
  ASSUME TypeOK, Once(stream, {"idle"})
  PROVE  /\ stream # <<>> => /\ Once(Tail(stream), {"idle"}) /\ Range(Tail(stream)) \subseteq Range(stream)
                             /\ Head(stream) = "idle" => "idle" \notin Range(Tail(stream))
         /\ \A e \in Events : /\ e # "idle" \/ "idle" \notin Range(stream) => Once(Append(stream, e), {"idle"})
                              /\ Range(Append(stream, e)) = Range(stream) \cup {e}
<1>1. stream \in Seq(Events)
  BY DEF TypeOK
<1> QED
  BY <1>1, OnceTail, OnceAppend, TailKeeps, AppendKeeps

\* A command becomes the turn of a session that has none.
LEMMA FlightBegins ==
  ASSUME TypeOK, FlightInv, NEW c \in Commands, turn = None, ~Over, WireOpen,
         turn' = c, sending' = [sending EXCEPT ![c] = "turn"], inbox' = Append(inbox, c),
         UNCHANGED <<lifeVars, wire, stream, held, running, alive, ran, cancelRequested, providerQueued>>
  PROVE  FlightInv'
<1>1. \A d \in Commands : ~Busy(d)
  BY KernelAssumption DEF FlightInv, InFlight
<1>2. /\ "idle" \notin Range(stream)
      /\ running = None /\ Range(inbox) \cap Commands = {} /\ \A d \in Commands : sending[d] = "no"
  BY <1>1 DEF FlightInv, TurnEnds, Busy, TypeOK
<1>3. inbox \in Seq(Commands \cup {Abort}) /\ c \in Commands \cup {Abort}
  BY DEF TypeOK
<1>4. Range(inbox)' = Range(inbox) \cup {c} /\ Once(inbox, Commands)' /\ Covered(inbox, cancelRequested)'
  <2>1. Once(inbox, Commands) /\ Covered(inbox, cancelRequested) /\ c # Abort
    BY KernelAssumption DEF FlightInv, InFlight, Aborts
  <2>2. Covered(Append(inbox, c), cancelRequested)
    BY <1>3, <2>1, CoveredAppend
  <2>3. Once(Append(inbox, c), Commands)
    BY <1>2, <1>3, <2>1, OnceAppend
  <2>4. Range(Append(inbox, c)) = Range(inbox) \cup {c}
    BY <1>3, AppendKeeps
  <2> QED
    BY <2>2, <2>3, <2>4
<1>5. \A d \in Commands : (Busy(d)' <=> d = c) /\ (sending'[d] = IF d = c THEN "turn" ELSE "no")
  <2>1. \A d \in Commands : sending'[d] = IF d = c THEN "turn" ELSE "no"
    BY <1>2 DEF TypeOK
  <2> QED
    BY <1>2, <1>4, <2>1, KernelAssumption DEF Busy
<1>6. WireOK'
  BY DEF FlightInv, WireOK, WireOpen
<1>7. InFlight'
  BY <1>2, <1>4, <1>5 DEF FlightInv, InFlight
<1>8. TurnEnds' /\ Aborts'
  BY <1>2, <1>4 DEF FlightInv, TurnEnds, Aborts, Once
<1> QED
  BY <1>6, <1>7, <1>8 DEF FlightInv

\* The provider's answer arrives.
LEMMA FlightAnswered ==
  ASSUME TypeOK, FlightInv, NEW c \in Commands, SendAnswered(c)
  PROVE  FlightInv' /\ UNCHANGED <<providerQueued, result>>
<1>1. /\ sending[c] = "turn" /\ c \notin Range(inbox) /\ sending' = [sending EXCEPT ![c] = "no"]
      /\ UNCHANGED <<turnVars, lifeVars, queueVars, result, transport>>
  BY DEF SendAnswered, FlightInv, InFlight, TypeOK
<1>2. \A d \in Commands : (Busy(d)' => Busy(d)) /\ (d # c => sending'[d] = sending[d])
  BY <1>1 DEF Busy, TypeOK
<1>3. WireOK' /\ TurnEnds' /\ Aborts'
  BY <1>1, <1>2 DEF FlightInv, WireOK, WireOpen, TurnEnds, Aborts, Once, Covered, Over
<1>4. InFlight'
  <2>1. \A d \in Commands : sending'[d] # "queue"
    BY <1>1 DEF FlightInv, InFlight, TypeOK
  <2> QED
    BY <1>1, <1>2, <2>1 DEF FlightInv, InFlight, Once, Over
<1> QED
  BY <1>1, <1>3, <1>4 DEF FlightInv

\* A command the provider refuses, or does not live to answer, is the turn or
\* none is.
LEMMA FlightFails ==
  ASSUME HubQueued, TypeOK, FlightInv, NEW c \in Commands, SendFails(c)
  PROVE  FlightInv' /\ turn \in {c, None} /\ turn' = None
<1>1. /\ sending[c] = "turn" /\ SendMayFail(c) /\ turn' = None
      /\ sending' = [sending EXCEPT ![c] = "no"] /\ inbox' = Withdrawn(c)
      /\ UNCHANGED <<cancelRequested, lifeVars, providerQueued, wire, stream, held, running, alive, ran>>
  BY DEF SendFails, FlightInv, InFlight, TypeOK
<1>2. Busy(c) /\ turn \in {c, None}
  BY <1>1 DEF Busy, FlightInv, InFlight
<1>3. "idle" \notin Range(stream)
  BY <1>2 DEF FlightInv, TurnEnds
<1>4. running = None /\ Range(inbox)' \subseteq {Abort}
  <2>1. CASE c \in Range(inbox)
    BY <1>1, <2>1, WithdrawnRange DEF FlightInv, InFlight
  <2>2. CASE c \notin Range(inbox)
    <3>1. alive # "leader"
      BY <1>1, <2>2 DEF SendMayFail, HubQueued, FlightInv, WireOK
    <3> QED
      BY <1>1, <2>2, <3>1, EmptyHasNone DEF Withdrawn, FlightInv, WireOK
  <2> QED
    BY <2>1, <2>2
<1>5. Once(inbox, Commands)' /\ Covered(inbox, cancelRequested)'
  BY <1>1, <1>4, OnlyAborts
<1>6. \A d \in Commands : ~Busy(d)'
  <2>1. \A d \in Commands : sending'[d] = "no"
    BY <1>1, <1>2 DEF FlightInv, InFlight, Busy, TypeOK
  <2> QED
    BY <1>1, <1>4, <2>1, KernelAssumption DEF Busy
<1>7. InFlight'
  <2>1. \A d \in Commands : sending'[d] # "queue"
    BY <1>1 DEF FlightInv, InFlight, TypeOK
  <2> QED
    BY <1>1, <1>4, <1>5, <1>6, <2>1, KernelAssumption DEF FlightInv, InFlight
<1>8. WireOK'
  <2>1. c \notin Range(<<>>)
    BY EmptyHasNone
  <2>2. inbox = <<>> => inbox' = <<>>
    BY <1>1, <2>1 DEF Withdrawn
  <2> QED
    BY <1>1, <1>4, <2>2 DEF FlightInv, WireOK, WireOpen
<1>9. TurnEnds' /\ Aborts'
  BY <1>1, <1>3, <1>4, <1>5 DEF FlightInv, TurnEnds, Aborts, Once
<1> QED
  BY <1>1, <1>2, <1>7, <1>8, <1>9 DEF FlightInv

\* A cancel's frame follows the frame of the turn it cancels.
LEMMA FlightCancelled ==
  ASSUME TypeOK, FlightInv, Cancel
  PROVE  FlightInv'
<1>1. /\ turn # None /\ cancelRequested' = cancelRequested \cup {turn} /\ inbox' \in {inbox, Append(inbox, Abort)}
      /\ UNCHANGED <<turn, lifeVars, providerQueued, sending, held, running, alive, ran>>
      /\ inbox' # inbox => WireOpen
  BY DEF Cancel
<1>2. \/ UNCHANGED <<wire, stream>>
      \/ /\ wire.status = "running" /\ wire'.status = "cancelling" /\ wire'.ended = wire.ended
         /\ stream' = Append(stream, "cancelling") /\ WireOpen
  BY DEF Cancel, SetStatus, WireOpen, TypeOK
<1>3. Once(stream, {"idle"})' /\ ("idle" \in Range(stream)' => "idle" \in Range(stream))
  BY <1>2, OneIdle DEF FlightInv, TurnEnds, Once, Events
<1>4. /\ inbox \in Seq(Commands \cup {Abort}) /\ Abort \in Commands \cup {Abort} /\ Abort \notin Commands
      /\ Once(inbox, Commands) /\ Covered(inbox, cancelRequested)
  BY KernelAssumption DEF TypeOK, FlightInv, InFlight, Aborts
<1>5. Range(Append(inbox, Abort)) = Range(inbox) \cup {Abort}
  BY <1>4, AppendKeeps
<1>6. Range(inbox)' \cap Commands = Range(inbox) \cap Commands
  BY <1>1, <1>4, <1>5
<1>7. \A c \in Commands : Busy(c)' <=> Busy(c)
  BY <1>1, <1>6 DEF Busy
<1>8. \A c \in Commands : Busy(c) => c = turn
  BY <1>1 DEF FlightInv, InFlight
<1>9. Once(inbox, Commands)' /\ Covered(inbox, cancelRequested)'
  <2>1. Range(inbox) \cap Commands \subseteq cancelRequested'
    BY <1>1, <1>8 DEF Busy
  <2>2. Covered(inbox, cancelRequested')
    BY <1>1, <1>4 DEF Covered
  <2>3. Covered(Append(inbox, Abort), cancelRequested')
    BY <1>4, <2>1, <2>2, CoveredAppend
  <2>4. Once(Append(inbox, Abort), Commands)
    BY <1>4, OnceAppend
  <2> QED
    BY <1>1, <1>4, <2>2, <2>3, <2>4
<1>10. InFlight'
  BY <1>1, <1>6, <1>7, <1>9 DEF FlightInv, InFlight, Over
<1>11. WireOK'
  BY <1>1, <1>2 DEF FlightInv, WireOK, WireOpen
<1>12. TurnEnds'
  BY <1>1, <1>3, <1>7 DEF FlightInv, TurnEnds, Over
<1>13. Aborts'
  <2>1. running # None => running \in Commands /\ Busy(running)
    BY DEF TypeOK, Busy
  <2> QED
    BY <1>1, <1>8, <1>9, <2>1 DEF Aborts
<1> QED
  BY <1>10, <1>11, <1>12, <1>13 DEF FlightInv

\* The provider is done with the command it answered: the end of the turn is told once.
LEMMA FlightDone ==
  ASSUME TypeOK, FlightInv, alive = "leader", running \in Commands, sending[running] = "no",
         running' = None, UNCHANGED inbox \/ (inbox # <<>> /\ inbox' = Tail(inbox)),
         UNCHANGED <<turn, lifeVars, cancelRequested, providerQueued, sending, held, alive>>,
         ran \subseteq ran', running \in ran' \cup cancelRequested,
         \/ UNCHANGED <<wire, stream>> /\ wire.status \notin {"running", "cancelling"}
         \/ /\ wire'.status = "idle" /\ wire'.ended = wire.ended
            /\ stream' \in {Append(stream, "idle"), Append(Append(stream, "error"), "idle")}
  PROVE  FlightInv'
<1>1. Busy(running) /\ (turn = running \/ (Over /\ turn = None)) /\ \A c \in Commands : Busy(c) => c = running
  BY DEF Busy, FlightInv, InFlight
<1>2. "idle" \notin Range(stream) /\ running \notin Range(inbox) /\ WireOpen /\ running # None
  BY <1>1, KernelAssumption DEF FlightInv, TurnEnds, InFlight, WireOK
<1>3. inbox \in Seq(Commands \cup {Abort}) /\ Once(inbox, Commands) /\ Covered(inbox, cancelRequested)
  BY DEF TypeOK, FlightInv, InFlight, Aborts
<1>4. Range(inbox)' \subseteq Range(inbox) /\ Once(inbox, Commands)' /\ Covered(inbox, cancelRequested)'
  <2>1. CASE inbox' = inbox
    BY <1>3, <2>1
  <2>2. CASE inbox # <<>> /\ inbox' = Tail(inbox)
    BY <1>3, <2>2, OnceTail, CoveredTail, TailKeeps
  <2> QED
    BY <2>1, <2>2
<1>5. \A c \in Commands : ~Busy(c)'
  BY <1>1, <1>2, <1>4, KernelAssumption DEF Busy
<1>6. Once(stream, {"idle"})'
  <2>1. stream \in Seq(Events) /\ "idle" \in Events /\ "error" \in Events /\ Once(stream, {"idle"})
    BY DEF TypeOK, Events, FlightInv, TurnEnds
  <2> DEFINE between == Append(stream, "error")
  <2>2. between \in Seq(Events) /\ Range(between) = Range(stream) \cup {"error"} /\ Once(between, {"idle"})
    BY <2>1, AppendKeeps, OnceAppend
  <2> HIDE DEF between
  <2>3. Once(Append(stream, "idle"), {"idle"}) /\ Once(Append(between, "idle"), {"idle"})
    BY <1>2, <2>1, <2>2, OnceAppend
  <2>4. stream' \in {stream, Append(stream, "idle"), Append(between, "idle")}
    BY DEF between
  <2> QED
    BY <2>1, <2>3, <2>4
<1>7. TurnEnds'
  <2>1. Over' = Over
    BY DEF Over
  <2>2. turn' = running \/ (Over' /\ turn' = None)
    BY <1>1, <2>1
  <2>3. turn' # None => turn' \in ran' \cup cancelRequested'
    BY <2>2
  <2> QED
    BY ONLY <1>2, <1>5, <1>6, <2>2, <2>3 DEF TurnEnds
<1>8. InFlight'
  <2>1. Range(inbox)' \cap Commands = {}
    BY <1>5 DEF Busy
  <2> QED
    BY <1>4, <1>5, <2>1 DEF InFlight, FlightInv, Over
<1>9. WireOK' /\ Aborts'
  BY <1>2, <1>4 DEF WireOK, WireOpen, Aborts, FlightInv
<1> QED
  BY <1>7, <1>8, <1>9 DEF FlightInv

\* The steps of the provider.
LEMMA FlightSteps ==
  ASSUME HubQueued, TypeOK, FlightInv, ProviderStep
  PROVE  FlightInv'
<1>1. CASE ProviderReads
  <2>1. /\ alive = "leader" /\ WireOpen /\ inbox # <<>> /\ inbox' = Tail(inbox)
        /\ Head(inbox) \in Commands \cup {Abort} /\ held = <<>>
        /\ UNCHANGED <<turn, lifeVars, cancelRequested, providerQueued, sending, alive, ran>>
    BY <1>1, SequencesType DEF ProviderReads, FlightInv, InFlight, WireOK
  <2>2. inbox \in Seq(Commands \cup {Abort}) /\ Once(inbox, Commands) /\ Covered(inbox, cancelRequested)
    BY DEF TypeOK, FlightInv, InFlight, Aborts
  <2>3. /\ Once(Tail(inbox), Commands) /\ Covered(Tail(inbox), cancelRequested)
        /\ Range(inbox) = {Head(inbox)} \cup Range(Tail(inbox))
        /\ Head(inbox) \in Commands => /\ Range(Tail(inbox)) \cap Commands = {}
                                       /\ Abort \in Range(Tail(inbox)) => Head(inbox) \in cancelRequested
    BY <2>1, <2>2, OnceTail, CoveredTail, TailKeeps
  <2> inbox' = Tail(inbox)
    BY <2>1
  <2>7. /\ Range(inbox)' = Range(Tail(inbox)) /\ Once(inbox, Commands)'
        /\ Covered(inbox, cancelRequested)'
    <3>1. Once(inbox', Commands) /\ Covered(inbox', cancelRequested')
      BY <2>1, <2>3
    <3> QED
      BY ONLY <3>1, inbox' = Tail(inbox)
  <2>4. CASE Head(inbox) = Abort /\ running # None
    <3>1. /\ running' = None /\ UNCHANGED held /\ running \in Commands /\ sending[running] = "no"
          /\ running \in cancelRequested
      BY <1>1, <2>1, <2>3, <2>4 DEF ProviderReads, Answered, HubQueued, TypeOK, FlightInv, Aborts
    <3>2. \/ UNCHANGED <<wire, stream>> /\ wire.status \notin {"running", "cancelling"}
          \/ wire'.status = "idle" /\ wire'.ended = wire.ended /\ stream' = Append(stream, "idle")
      BY <1>1, <2>1, <2>4 DEF ProviderReads, SetStatus, WireOpen, TypeOK
    <3> QED
      BY <2>1, <3>1, <3>2, FlightDone
  <2>5. CASE Head(inbox) = Abort /\ running = None
    <3>1. UNCHANGED <<wire, stream, held, running>>
      BY <1>1, <2>1, <2>5 DEF ProviderReads, SetStatus, FlightInv, WireOK
    <3>2. \A c \in Commands : Busy(c)' <=> Busy(c)
      BY <2>1, <2>3, <2>5, <3>1, KernelAssumption DEF Busy
    <3>3. InFlight' /\ WireOK' /\ Aborts'
      BY <2>1, <2>3, <2>5, <3>1, <3>2 DEF FlightInv, InFlight, WireOK, WireOpen, Aborts, Over
    <3>4. TurnEnds'
      BY <2>1, <3>1, <3>2 DEF FlightInv, TurnEnds, Once, Over
    <3> QED
      BY <3>3, <3>4 DEF FlightInv
  <2>6. CASE Head(inbox) \in Commands
    <3>1. running = None /\ Busy(Head(inbox)) /\ "idle" \notin Range(stream) /\ Head(inbox) # None
      BY <2>3, <2>6, KernelAssumption DEF FlightInv, InFlight, TurnEnds, Busy
    <3>2. running' = Head(inbox) /\ UNCHANGED held /\ SetStatus("running")
      BY <1>1, <2>1, <2>6, <3>1, KernelAssumption DEF ProviderReads
    <3>3. wire'.status = "running" /\ wire'.ended = wire.ended /\ stream' \in {stream, Append(stream, "running")}
      BY <2>1, <3>2 DEF SetStatus, WireOpen, TypeOK
    <3>4. Once(stream, {"idle"})' /\ "idle" \notin Range(stream)'
      BY <3>1, <3>3, OneIdle DEF FlightInv, TurnEnds, Once, Events
    <3>5. \A c \in Commands : Busy(c)' <=> Busy(c)
      <4>1. \A c \in Commands : c \in Range(inbox) <=> c = Head(inbox)
        BY ONLY <2>3, <2>6
      <4>2. \A c \in Commands : c \notin Range(inbox)'
        BY <2>3, <2>6, <2>7
      <4>3. \A c \in Commands : running # c /\ (running' = c <=> c = Head(inbox))
        BY <3>1, <3>2, KernelAssumption
      <4> QED
        BY <2>1, <4>1, <4>2, <4>3 DEF Busy
    <3>6. InFlight'
      <4>1. Range(inbox)' \cap Commands = {} /\ Once(inbox, Commands)'
        BY ONLY <2>3, <2>6, <2>7
      <4>2. Over' = Over
        BY <2>1 DEF Over
      <4>3. \A c, d \in Commands : Busy(c)' /\ Busy(d)' => c = d
        BY <3>5 DEF FlightInv, InFlight
      <4>4. \A c \in Commands : Busy(c)' => turn' = c \/ (Over' /\ turn' = None)
        BY <2>1, <3>5, <4>2 DEF FlightInv, InFlight
      <4>5. held' = <<>> /\ providerQueued' = <<>> /\ \A c \in Commands : sending'[c] # "queue"
        BY <2>1, <3>2 DEF FlightInv, InFlight
      <4> QED
        BY ONLY <4>1, <4>3, <4>4, <4>5 DEF InFlight
    <3>7. WireOK'
      BY <2>1, <2>6, <3>1, <3>2, <3>3 DEF WireOK, WireOpen
    <3>8. TurnEnds'
      BY <3>4 DEF TurnEnds
    <3>9. Aborts'
      BY <2>1, <2>3, <2>6, <2>7, <3>2 DEF Aborts
    <3> QED
      BY <3>6, <3>7, <3>8, <3>9 DEF FlightInv
  <2> QED
    BY <2>1, <2>4, <2>5, <2>6
<1>2. CASE ProviderResumes
  BY <1>2 DEF ProviderResumes, FlightInv, InFlight
<1>3. CASE GroupDies
  BY <1>3, FlightKept DEF GroupDies, FlightInv, TurnEnds, Once, WireOpen, Over
<1>4. ASSUME NEW ok \in BOOLEAN, ProviderEnds(ok) PROVE FlightInv'
  <2>1. /\ alive = "leader" /\ WireOpen /\ running \in Commands /\ sending[running] = "no"
        /\ running' = None /\ ran' = ran \cup {running}
        /\ UNCHANGED <<turn, lifeVars, cancelRequested, providerQueued, sending, inbox, held, alive>>
    BY <1>4 DEF ProviderEnds, Answered, HubQueued, FlightInv, WireOK, InFlight, TypeOK
  <2>2. stream \o <<"error", "idle">> = Append(Append(stream, "error"), "idle")
    BY DEF TypeOK, Events
  <2>3. \/ UNCHANGED <<wire, stream>> /\ wire.status \notin {"running", "cancelling"}
        \/ /\ wire'.status = "idle" /\ wire'.ended = wire.ended
           /\ stream' \in {Append(stream, "idle"), Append(Append(stream, "error"), "idle")}
    BY <1>4, <2>1, <2>2 DEF ProviderEnds, SetStatus, WireOpen, TypeOK, FlightInv, InFlight
  <2>4. running \in ran' \cup cancelRequested /\ ran \subseteq ran'
    BY <2>1
  <2> QED
    BY <2>1, <2>3, <2>4, FlightDone
<1>5. ASSUME NEW rest \in {"group", "none"}, ProviderExits(rest) PROVE FlightInv'
  <2>1. /\ alive' # "leader" /\ ~WireOpen' /\ running' = None /\ inbox' = <<>> /\ held' = <<>>
        /\ UNCHANGED <<turn, lifeVars, cancelRequested, providerQueued, sending, ran>>
    BY <1>5 DEF ProviderExits, WireOpen, TypeOK
  <2>2. /\ stream \in Seq(Events) /\ "error" \in Events /\ "exit" \in Events
        /\ stream \o <<"exit">> = Append(stream, "exit")
        /\ stream \o <<"error", "exit">> = Append(Append(stream, "error"), "exit")
    BY DEF TypeOK, Events
  <2>3. Once(stream, {"idle"})' /\ ("idle" \in Range(stream)' => "idle" \in Range(stream))
    <3> DEFINE between == Append(stream, "error")
    <3>1. Once(stream, {"idle"})
      BY DEF FlightInv, TurnEnds
    <3>2. between \in Seq(Events) /\ Range(between) = Range(stream) \cup {"error"} /\ Once(between, {"idle"})
      BY <2>2, <3>1, AppendKeeps, OnceAppend
    <3> HIDE DEF between
    <3>3. /\ Once(Append(stream, "exit"), {"idle"}) /\ Once(Append(between, "exit"), {"idle"})
          /\ Range(Append(stream, "exit")) = Range(stream) \cup {"exit"}
          /\ Range(Append(between, "exit")) = Range(between) \cup {"exit"}
      BY <2>2, <3>1, <3>2, OnceAppend, AppendKeeps
    <3>4. stream' = Append(stream, "exit") \/ stream' = Append(between, "exit")
      BY <1>5, <2>2 DEF ProviderExits, between
    <3>5. /\ Once(Append(stream, "exit"), {"idle"}) /\ Once(Append(between, "exit"), {"idle"})
          /\ "idle" \in Range(Append(stream, "exit")) => "idle" \in Range(stream)
          /\ "idle" \in Range(Append(between, "exit")) => "idle" \in Range(stream)
      BY <3>2, <3>3
    <3>6. CASE stream' = Append(stream, "exit")
      BY ONLY <3>5, <3>6
    <3>7. CASE stream' = Append(between, "exit")
      BY ONLY <3>5, <3>7
    <3> QED
      BY <3>4, <3>6, <3>7
  <2>4. Range(inbox)' = {} /\ \A c \in Commands : Busy(c)' => Busy(c)
    BY <2>1, EmptyHasNone, KernelAssumption DEF Busy
  <2>5. InFlight'
    BY <2>1, <2>4 DEF FlightInv, InFlight, Once, Over
  <2>6. WireOK' /\ TurnEnds' /\ Aborts'
    BY <2>1, <2>3, <2>4 DEF FlightInv, WireOK, TurnEnds, Aborts, Covered, Over
  <2> QED
    BY <2>5, <2>6 DEF FlightInv
<1> QED
  BY <1>1, <1>2, <1>3, <1>4, <1>5 DEF ProviderStep

\* A session that takes commands is not over.
LEMMA AcceptsOpen ==
  ASSUME TypeOK, Stages, Ended, Accepts
  PROVE  ~Over /\ closer = "no" /\ pump.place # "crashCommit"
BY DEF Accepts, Over, Stages, Ended, TypeOK, CloserPlaces

\* The end of a turn, read: the provider has nothing, and no other end is told.
LEMMA FlightRead ==
  ASSUME TypeOK, FlightInv, stream # <<>>, stream' = Tail(stream), Over => Over',
         UNCHANGED <<cancelRequested, providerQueued, sending, wire, provider>>,
         UNCHANGED turn \/ (Head(stream) = "idle" /\ turn' = None)
  PROVE  FlightInv'
<1>1. /\ Once(stream, {"idle"})' /\ ("idle" \in Range(stream)' => "idle" \in Range(stream))
      /\ Head(stream) = "idle" => "idle" \in Range(stream) /\ "idle" \notin Range(stream)'
  <2>1. /\ Once(Tail(stream), {"idle"}) /\ Range(Tail(stream)) \subseteq Range(stream)
        /\ Head(stream) = "idle" => "idle" \notin Range(Tail(stream))
        /\ Head(stream) \in Range(stream)
    BY OneIdle, TailKeeps DEF FlightInv, TurnEnds, TypeOK
  <2> QED
    BY <2>1
<1>2. CASE UNCHANGED turn
  BY <1>1, <1>2, FlightKept DEF WireOpen
<1>3. CASE Head(stream) = "idle" /\ turn' = None
  <2>1. \A c \in Commands : ~Busy(c) /\ ~Busy(c)'
    BY <1>1, <1>3 DEF FlightInv, TurnEnds, Busy
  <2>2. InFlight'
    BY <2>1 DEF FlightInv, InFlight, Once
  <2>3. TurnEnds'
    BY <1>1, <1>3 DEF TurnEnds
  <2>4. WireOK' /\ Aborts'
    BY DEF FlightInv, WireOK, WireOpen, Aborts, Covered
  <2> QED
    BY <2>2, <2>3, <2>4 DEF FlightInv
<1> QED
  BY <1>2, <1>3

\* The steps of commands.
LEMMA FlightCommands ==
  ASSUME HubQueued, TypeOK, Stages, Ended, FlightInv, CommandStep \/ SendStep
  PROVE  FlightInv'
<1>1. Once(stream, {"idle"})
  BY DEF FlightInv, TurnEnds
<1>2. ASSUME NEW c \in Commands, Prompt(c) \/ FollowUpNow(c) PROVE FlightInv'
  <2>1. ~Over /\ turn = None
    BY <1>2, AcceptsOpen DEF Prompt, FollowUpNow
  <2>2. CASE WireOpen
    BY <1>2, <2>1, <2>2, FlightBegins DEF Prompt, FollowUpNow, Dispatch
  <2>3. CASE ~WireOpen
    <3>1. UNCHANGED <<turn, sending, inbox, cancelRequested, lifeVars, queueVars, wire, stream, held, running, alive, ran>>
      BY <1>2, <2>3 DEF Prompt, FollowUpNow, Dispatch
    <3> QED
      BY <1>1, <3>1, FlightKept DEF WireOpen, Over, Once
  <2> QED
    BY <2>2, <2>3
<1>3. ASSUME NEW c \in Commands, FollowUpLater(c) PROVE FlightInv'
  <2>1. UNCHANGED <<turn, sending, cancelRequested, lifeVars, providerQueued, transport>>
    BY <1>3 DEF FollowUpLater, HubQueued
  <2> QED
    BY <1>1, <2>1, FlightKept DEF WireOpen, Over, Once
<1> QED
  BY <1>2, <1>3, FlightCancelled, FlightAnswered, FlightFails DEF CommandStep, SendStep

\* The first of the queue follows the turn that is committed.
LEMMA FlightDrains ==
  ASSUME TypeOK, FlightInv, TurnCommitted
  PROVE  FlightInv'
<1>1. Once(stream, {"idle"})
  BY DEF FlightInv, TurnEnds
<1>2. UNCHANGED <<cancelRequested, closing, finished, wire, stream, held, running, alive, ran>>
  BY DEF TurnCommitted
<1>3. ASSUME UNCHANGED <<sending, inbox>>, providerQueued' \in {providerQueued, <<>>},
             degraded => degraded', turn' = turn \/ (turn' = None /\ degraded')
      PROVE  FlightInv'
  BY <1>1, <1>2, <1>3, FlightKept DEF WireOpen, Over, Once
<1>4. CASE DrainQueue /\ WireOpen /\ UNCHANGED degraded
  <2>1. queue # <<>> /\ turn = None /\ ~Over
    BY <1>4, EmptyHasNone DEF DrainQueue, MayDrain, Waiting, Over
  <2>2. Head(queue) \in Commands
    BY <2>1, SequencesType
  <2>3. /\ turn' = Head(queue) /\ sending' = [sending EXCEPT ![Head(queue)] = "turn"]
        /\ inbox' = Append(inbox, Head(queue)) /\ UNCHANGED providerQueued
    BY <1>4 DEF DrainQueue
  <2> QED
    BY <1>2, <1>4, <2>1, <2>2, <2>3, FlightBegins
<1>5. CASE DrainQueue /\ ~WireOpen /\ UNCHANGED degraded
  BY <1>3, <1>5 DEF DrainQueue
<1>6. CASE NoDrain /\ UNCHANGED degraded
  BY <1>3, <1>6 DEF NoDrain
<1>7. CASE Degrade("pump", "error", {pump.turn}) /\ UNCHANGED <<sending, inbox>>
  BY <1>3, <1>7 DEF Degrade
<1>8. ~DrainProvider
  BY DEF DrainProvider, FlightInv, InFlight
<1> QED
  BY <1>4, <1>5, <1>6, <1>7, <1>8 DEF TurnCommitted

\* The steps of the pump and of the close pipeline.
LEMMA FlightElsewhere ==
  ASSUME TypeOK, FlightInv, PumpStep \/ CloserStep \/ Close \/ RetryTerminate, Stages
  PROVE  FlightInv'
<1>1. Once(stream, {"idle"})
  BY DEF FlightInv, TurnEnds
<1>2. ASSUME UNCHANGED <<cancelRequested, sending, transport>>, providerQueued' \in {providerQueued, <<>>},
             Over => Over', turn' = turn \/ (turn' = None /\ Over')
      PROVE  FlightInv'
  BY <1>1, <1>2, FlightKept DEF WireOpen, Once
<1>3. CASE ReadTurnEnd
  BY <1>3, FlightRead DEF ReadTurnEnd, Over
<1>4. CASE ReadStatus
  BY <1>4, FlightRead DEF ReadStatus, Over
<1>5. CASE ReadOther
  BY <1>5, FlightRead DEF ReadOther, Over
<1>6. ASSUME UNCHANGED <<cancelRequested, sending, provider, providerQueued, turn>>, Over => Over',
             Once(stream, {"idle"})', "idle" \in Range(stream)' => "idle" \in Range(stream),
             wire' = [wire EXCEPT !.stopping = TRUE]
      PROVE  FlightInv'
  <2>1. wire'.status = wire.status /\ wire'.ended = wire.ended
    BY <1>6 DEF TypeOK
  <2> QED
    BY <1>6, <2>1, FlightKept DEF WireOpen
<1>7. CASE ReadExit
  <2>1. Once(Tail(stream), {"idle"}) /\ Range(Tail(stream)) \subseteq Range(stream)
    BY <1>1, <1>7, OneIdle DEF ReadExit
  <2> QED
    BY <1>6, <1>7, <2>1 DEF ReadExit, Crash, Over
<1>8. CASE StreamExhausted /\ Crash
  BY <1>1, <1>6, <1>8 DEF StreamExhausted, Crash, Over, Once
<1>9. CASE StreamExhausted /\ ~Crash
  BY <1>2, <1>9 DEF StreamExhausted, Over
<1>10. CASE StatusCommitted \/ CloseCommitted
  BY <1>2, <1>10 DEF StatusCommitted, CloseCommitted, Degrade, Over
<1>11. CASE PumpDegraded \/ CloserDegraded \/ CrashCommitted \/ RetryCommitted
  BY <1>2, <1>11 DEF PumpDegraded, CloserDegraded, Degraded, CrashCommitted, RetryCommitted, Over
<1>12. ASSUME NEW proven \in BOOLEAN, CrashStopped(proven) \/ CloseStopped(proven) \/ RetryStopped(proven)
       PROVE  FlightInv'
  BY <1>2, <1>12 DEF CrashStopped, CloseStopped, RetryStopped, Over, Stages, PumpAt
<1>13. CASE RetryTerminate
  BY <1>1, <1>6, <1>13 DEF RetryTerminate, Over, Once
<1>14. CASE Close
  <2>1. /\ UNCHANGED <<turn, cancelRequested, sending, provider>> /\ providerQueued' = <<>> /\ Over'
    BY <1>14 DEF Close, Over
  <2>2. /\ wire'.ended = wire.ended /\ wire'.status \in {wire.status, "closing"}
        /\ wire'.status # wire.status => WireOpen
        /\ stream' = stream \/ stream' = Append(stream, "closing")
    BY <1>14 DEF Close, RequestStop, WireOpen, TypeOK
  <2>3. /\ Once(Append(stream, "closing"), {"idle"})
        /\ "idle" \in Range(Append(stream, "closing")) => "idle" \in Range(stream)
    BY <1>1, OneIdle DEF Events
  <2>4. Once(stream, {"idle"})' /\ ("idle" \in Range(stream)' => "idle" \in Range(stream))
    <3>1. CASE stream' = stream
      BY <1>1, <3>1
    <3>2. CASE stream' = Append(stream, "closing")
      BY ONLY <2>3, <3>2
    <3> QED
      BY <2>2, <3>1, <3>2
  <2> QED
    BY <2>1, <2>2, <2>4, FlightKept DEF WireOpen
<1> QED
  BY <1>3, <1>4, <1>5, <1>7, <1>8, <1>9, <1>10, <1>11, <1>12, <1>13, <1>14, FlightDrains
  DEF PumpStep, CloserStep

\* The queue grows only in a session that takes commands, and what ends a
\* session drops it.
LEMMA QueuedSteps ==
  ASSUME TypeOK, Stages, Ended, Queued, Next
  PROVE  Queued'
<1> USE DEF Queued
<1>1. ASSUME UNCHANGED <<finished, degraded, pump, closer>>, queue' = queue \/ queue' = <<>> PROVE Queued'
  BY <1>1
<1>2. ASSUME NEW c \in Commands, Prompt(c) \/ FollowUpNow(c) \/ FollowUpLater(c) PROVE Queued'
  BY <1>2, AcceptsOpen DEF Prompt, FollowUpNow, FollowUpLater, Over
<1>3. CASE SendStep \/ Cancel \/ ReadOther \/ ProviderStep
  BY <1>1, <1>3 DEF SendStep, SendAnswered, SendFails, Cancel, ReadOther, ProviderStep,
     ProviderReads, ProviderResumes, ProviderEnds, ProviderExits, GroupDies
<1>4. \A place \in PumpPlaces : PumpGoes(place) => pump'.place = place
  BY PumpGoesType
<1>5. CASE ReadTurnEnd \/ ReadStatus \/ ReadExit \/ StreamExhausted
  BY <1>4, <1>5 DEF ReadTurnEnd, ReadStatus, ReadExit, StreamExhausted, Crash, PumpAt, PumpPlaces
<1>6. ASSUME queue = <<>>, queue' = queue \/ queue' = <<>> PROVE Queued'
  BY <1>6
<1>7. CASE TurnCommitted
  <2>1. MayDrain => ~finished /\ ~degraded /\ ~closing
    BY DEF MayDrain
  <2>2. pump'.place # "crashCommit"
    BY <1>4, <1>7 DEF TurnCommitted, PumpPlaces
  <2>3. CASE (DrainProvider \/ DrainQueue) /\ UNCHANGED degraded
    <3>1. MayDrain
      BY <2>3 DEF DrainProvider, DrainQueue
    <3>2. closer = "no"
      BY <2>1, <3>1 DEF Stages, TypeOK, CloserPlaces
    <3> QED
      BY <1>7, <2>1, <2>2, <2>3, <3>1, <3>2 DEF TurnCommitted
  <2>4. CASE NoDrain \/ Degrade("pump", "error", {pump.turn})
    BY <1>7, <2>2, <2>4 DEF TurnCommitted, NoDrain, Degrade
  <2> QED
    BY <1>7, <2>3, <2>4 DEF TurnCommitted
<1>8. CASE StatusCommitted
  BY <1>4, <1>8 DEF StatusCommitted, Degrade, PumpPlaces
<1>9. CASE PumpDegraded \/ CrashCommitted
  BY <1>6, <1>9 DEF PumpDegraded, Degraded, CrashCommitted, PumpAt, Stages
<1>10. ASSUME NEW proven \in BOOLEAN, CrashStopped(proven) PROVE Queued'
  BY <1>10 DEF CrashStopped
<1>11. CASE CloserStep \/ Close \/ RetryTerminate
  BY <1>6, <1>11 DEF CloserStep, CloseStopped, RetryStopped, CloseCommitted, CloserDegraded, Degraded,
     Degrade, RetryCommitted, Close, RetryTerminate
<1> QED
  BY <1>2, <1>3, <1>5, <1>7, <1>8, <1>9, <1>10, <1>11 DEF Next, CommandStep, PumpStep

\* What settling some futures does to what is pending and what succeeded.
LEMMA Settles ==
  ASSUME NEW cs, NEW outcome \in Settled \cup {"none"}, NEW c \in Commands
  PROVE  /\ Settle(cs, outcome)[c] = "pending" => result[c] = "pending" /\ c \notin cs
         /\ Settle(cs, outcome)[c] = "succeeded" =>
              result[c] = "succeeded" \/ (c \in cs /\ outcome = "succeeded")
BY DEF Settle, Settled

\* No step forgets an accepted command, or tells it of the success of another.
LEMMA ToldSteps ==
  ASSUME HubQueued, TypeOK, Stages, Ended, FlightInv, Queued, Told, Next
  PROVE  Told'
<1> USE DEF Told
<1>1. ASSUME UNCHANGED <<pump, result, queue, turn>>, ran \subseteq ran' PROVE Told'
  BY <1>1
<1>2. ASSUME NEW c \in Commands, Prompt(c) \/ FollowUpNow(c) PROVE Told'
  <2>1. /\ turn = None /\ UNCHANGED <<pump, queue, ran>>
        /\ \/ turn' = c /\ result' = [result EXCEPT ![c] = "pending"]
           \/ UNCHANGED turn /\ result' = [result EXCEPT ![c] = "rejected"]
    BY <1>2 DEF Prompt, FollowUpNow, Dispatch
  <2>2. result \in [Commands -> Results]
    BY DEF TypeOK
  <2> QED
    BY <2>1, <2>2, KernelAssumption
<1>3. ASSUME NEW c \in Commands, FollowUpLater(c) PROVE Told'
  <2>1. queue' = Append(queue, c) /\ result' = [result EXCEPT ![c] = "pending"] /\ UNCHANGED <<turn, pump, ran>>
    BY <1>3 DEF FollowUpLater, HubQueued
  <2>2. Range(queue') = Range(queue) \cup {c}
    BY <2>1, AppendKeeps DEF TypeOK
  <2> QED
    BY <2>1, <2>2 DEF TypeOK
<1>4. CASE Cancel \/ ReadOther \/ ProviderStep
  <2>1. UNCHANGED <<pump, result, queue, turn>> /\ ran \subseteq ran'
    BY <1>4 DEF Cancel, ReadOther, ProviderStep, ProviderReads, ProviderResumes, ProviderEnds,
       ProviderExits, GroupDies
  <2> QED
    BY <1>1, <2>1
<1>5. ASSUME NEW c \in Commands, SendAnswered(c) PROVE Told'
  BY <1>1, <1>5, FlightAnswered DEF SendAnswered
<1>6. ASSUME NEW c \in Commands, SendFails(c) PROVE Told'
  <2>1. turn \in {c, None} /\ turn' = None
    BY <1>6, FlightFails
  <2>2. result' = [result EXCEPT ![c] = IF @ \in Settled THEN @ ELSE "rejected"] /\ UNCHANGED <<pump, queue, ran>>
    BY <1>6 DEF SendFails
  <2> QED
    BY <2>1, <2>2, KernelAssumption DEF TypeOK, Settled
<1>7. CASE ReadTurnEnd
  <2>1. /\ pump'.turn = turn /\ pump'.outcome = OutcomeOf(turn) /\ pump.turn = None
        /\ turn # None /\ "idle" \in Range(stream) /\ UNCHANGED <<queue, result, ran>>
    BY <1>7, TailKeeps DEF ReadTurnEnd, PumpAt, Stages, TypeOK
  <2>2. turn \in ran \cup cancelRequested
    BY <2>1 DEF FlightInv, TurnEnds
  <2>3. /\ pump'.outcome \in Settled \cup {"none"}
        /\ pump'.outcome = "succeeded" => turn \in ran
    BY <2>1, <2>2 DEF OutcomeOf, Settled
  <2> QED
    BY <2>1, <2>3, KernelAssumption
<1>8. \A place \in PumpPlaces : PumpGoes(place) => pump'.place = place /\ pump'.turn = None /\ pump'.outcome = "none"
  BY PumpGoesType
<1>9. ASSUME pump'.turn = None, pump'.outcome = "none", pump.turn = None, UNCHANGED <<result, queue, turn, ran>>
      PROVE  Told'
  BY <1>9
<1>10. CASE ReadStatus \/ ReadExit \/ StreamExhausted
  BY <1>8, <1>9, <1>10 DEF ReadStatus, ReadExit, StreamExhausted, Crash, PumpAt, Stages, PumpPlaces
<1>11. ASSUME NEW by, NEW s, NEW lost, Degrade(by, s, lost), UNCHANGED ran,
              \/ UNCHANGED pump
              \/ pump.turn \in lost \cup {None} /\ pump'.turn = None /\ pump'.outcome = "none"
       PROVE  Told'
  <2>1. "failed" \in Settled \cup {"none"}
    BY DEF Settled
  <2>2. result' = Settle(Waiting \cup lost \cup ({turn} \ {None}), "failed")
    BY <1>11 DEF Degrade
  <2>3. \A c \in Commands : /\ result'[c] = "pending" => /\ result[c] = "pending"
                                                         /\ c \notin Waiting \cup lost \cup ({turn} \ {None})
                            /\ result'[c] = "succeeded" => result[c] = "succeeded"
    BY <2>1, <2>2, Settles
  <2> QED
    BY <1>11, <2>3, KernelAssumption DEF Waiting
<1>12. CASE StatusCommitted
  <2>1. pump.turn = None /\ pump'.turn = None /\ pump'.outcome = "none" /\ UNCHANGED ran
    BY <1>8, <1>12 DEF StatusCommitted, PumpAt, Stages, PumpPlaces
  <2> QED
    BY <1>9, <1>11, <1>12, <2>1 DEF StatusCommitted
<1>13. CASE TurnCommitted
  <2>1. pump'.turn = None /\ pump'.outcome = "none" /\ UNCHANGED ran
    BY <1>8, <1>13 DEF TurnCommitted, PumpPlaces
  <2>2. CASE Degrade("pump", "error", {pump.turn})
    BY <1>11, <2>1, <2>2
  <2> DEFINE told == Settle({pump.turn}, pump.outcome)
  <2>3. /\ told \in [Commands -> Results]
        /\ \A c \in Commands : /\ told[c] = "pending" => result[c] = "pending" /\ c # pump.turn
                               /\ told[c] = "succeeded" => c \in ran
    BY SettleType, Settles DEF TypeOK
  <2> HIDE DEF told
  <2>4. CASE DrainQueue
    <3>1. queue # <<>> /\ turn = None
      BY <2>4, EmptyHasNone DEF DrainQueue, MayDrain, Waiting
    <3>2. Head(queue) \in Commands /\ Range(queue) = {Head(queue)} \cup Range(Tail(queue))
      BY <3>1, TailKeeps DEF TypeOK
    <3>3. queue' = Tail(queue) /\ \/ turn' = Head(queue) /\ result' = told
                                  \/ UNCHANGED turn /\ result' = [told EXCEPT ![Head(queue)] = "rejected"]
      BY <2>4 DEF DrainQueue, told
    <3> QED
      BY <2>1, <2>3, <3>1, <3>2, <3>3, KernelAssumption
  <2>5. CASE NoDrain
    <3>1. UNCHANGED <<turn, queue>> /\ result' = told
      BY <2>5 DEF NoDrain, told
    <3> QED
      BY <2>1, <2>3, <3>1
  <2>6. ~DrainProvider
    BY DEF DrainProvider, FlightInv, InFlight
  <2> QED
    BY <1>13, <2>2, <2>4, <2>5, <2>6 DEF TurnCommitted
<1>14. CASE PumpDegraded \/ CrashCommitted
  BY <1>8, <1>9, <1>14 DEF PumpDegraded, Degraded, CrashCommitted, PumpAt, Stages, PumpPlaces
<1>15. ASSUME NEW proven \in BOOLEAN, CrashStopped(proven) PROVE Told'
  <2>1. pump.turn = None /\ pump'.turn = None /\ pump'.outcome = "none" /\ UNCHANGED ran
    BY <1>8, <1>15 DEF CrashStopped, PumpAt, Stages, PumpPlaces
  <2>2. result' = Settle(Waiting \cup ({turn} \ {None}), "failed")
    BY <1>15 DEF CrashStopped
  <2>3. "failed" \in Settled \cup {"none"}
    BY DEF Settled
  <2>4. \A c \in Commands : /\ result'[c] = "pending" => /\ result[c] = "pending"
                                                         /\ c \notin Waiting \cup ({turn} \ {None})
                            /\ result'[c] = "succeeded" => result[c] = "succeeded"
    BY <2>2, <2>3, Settles
  <2> QED
    BY <2>1, <2>4, KernelAssumption DEF Waiting
<1>16. ASSUME NEW proven \in BOOLEAN, CloseStopped(proven) PROVE Told'
  <2>1. queue = <<>> /\ UNCHANGED <<pump, queue, ran>>
    BY <1>16 DEF CloseStopped, Queued
  <2> DEFINE outcome == IF proven THEN "cancelled" ELSE "failed"
  <2>2. result' = Settle({turn} \ {None}, outcome) /\ outcome \in Settled \cup {"none"} /\ outcome # "succeeded"
    BY <1>16 DEF CloseStopped, Settled
  <2> HIDE DEF outcome
  <2>3. \A c \in Commands : /\ result'[c] = "pending" => result[c] = "pending" /\ c \notin {turn} \ {None}
                            /\ result'[c] = "succeeded" => result[c] = "succeeded"
    BY <2>2, Settles
  <2> QED
    BY <2>1, <2>3, KernelAssumption
<1>17. CASE Close
  <2>1. /\ result' = Settle(Waiting, "failed") /\ "failed" \in Settled \cup {"none"}
        /\ queue' = <<>> /\ UNCHANGED <<pump, turn, ran>>
    BY <1>17 DEF Close, Settled
  <2>2. \A c \in Commands : /\ result'[c] = "pending" => result[c] = "pending" /\ c \notin Waiting
                            /\ result'[c] = "succeeded" => result[c] = "succeeded"
    BY <2>1, Settles
  <2> QED
    BY <2>1, <2>2 DEF Waiting
<1>18. CASE CloseCommitted
  <2>1. UNCHANGED <<pump, ran>>
    BY <1>18 DEF CloseCommitted
  <2> QED
    BY <1>1, <1>11, <1>18, <2>1 DEF CloseCommitted
<1>19. CASE CloserDegraded \/ RetryCommitted \/ RetryTerminate \/ \E proven \in BOOLEAN : RetryStopped(proven)
  BY <1>1, <1>19 DEF CloserDegraded, Degraded, RetryCommitted, RetryTerminate, RetryStopped
<1> QED
  BY <1>2, <1>3, <1>4, <1>5, <1>6, <1>7, <1>10, <1>12, <1>13, <1>14, <1>15, <1>16, <1>17, <1>18, <1>19
  DEF Next, CommandStep, SendStep, PumpStep, CloserStep

TurnInv == EndInv /\ FlightInv /\ Queued /\ Told

\* Every step keeps the invariant of turns.
LEMMA TurnInvSteps ==
  ASSUME HubQueued PROVE TurnInv /\ [Next]_vars => TurnInv'
<1> SUFFICES ASSUME TurnInv, [Next]_vars PROVE TurnInv'
  OBVIOUS
<1> USE DEF TurnInv
<1>1. EndInv'
  BY EndInvSteps
<1>2. CASE Next
  <2>1. TypeOK /\ Stages /\ Ended
    BY DEF EndInv
  <2>2. FlightInv'
    BY <1>2, <2>1, FlightCommands, FlightElsewhere, FlightSteps DEF Next
  <2> QED
    BY <1>1, <1>2, <2>1, <2>2, QueuedSteps, ToldSteps
<1>3. CASE UNCHANGED vars
  <2>1. FlightInv'
    BY <1>3 DEF vars, FlightInv, WireOK, WireOpen, InFlight, TurnEnds, Aborts, Busy, Over, Once, Covered
  <2> QED
    BY <1>1, <1>3, <2>1 DEF vars, Queued, Told
<1> QED
  BY <1>2, <1>3

\* With the idle of the handshake read, the first end of a turn is that of the first turn.
LEMMA TurnInvInit ==
  ASSUME HubQueued PROVE Init => TurnInv
<1> SUFFICES ASSUME Init PROVE TurnInv
  OBVIOUS
<1>1. stream = <<>> /\ inbox = <<>> /\ Range(<<>>) = {}
  BY EmptyHasNone DEF Init, HubQueued
<1>2. \A S : Once(<<>>, S) /\ Covered(<<>>, S)
  BY DEF Once, Covered
<1>3. \A c \in Commands : ~Busy(c)
  BY <1>1, KernelAssumption DEF Busy, Init
<1>4. FlightInv
  BY <1>1, <1>2, <1>3 DEF Init, FlightInv, WireOK, WireOpen, InFlight, TurnEnds, Aborts
<1>5. Queued /\ Told
  BY DEF Init, Queued, Told, Reading
<1> QED
  BY <1>4, <1>5, EndInvInit DEF TurnInv

\* The inductive invariant of turns holds always.
THEOREM TurnInvariant ==
  ASSUME HubQueued PROVE Spec => []TurnInv
<1>1. Init => TurnInv
  BY TurnInvInit
<1>2. TurnInv /\ [Next]_vars => TurnInv'
  BY TurnInvSteps
<1> QED
  BY <1>1, <1>2, PTL DEF Spec

\* An accepted command is the turn, the turn being committed, or in a queue, until its
\* future settles (dispatchTurnAccepted, acceptFollowUp, finalizeTurn), for every number
\* of commands, failures and cancels, when the hub holds the follow-ups.
THEOREM KernelInvAlways ==
  ASSUME HubQueued PROVE Spec => []KernelInv
<1>1. TurnInv => KernelInv
  <2> SUFFICES ASSUME TurnInv PROVE KernelInv
    OBVIOUS
  <2>1. TypeOK /\ WritesOK /\ Told
    BY DEF TurnInv, EndInv
  <2> QED
    BY <2>1 DEF KernelInv, WritesOK, OneEach, Authors, Told, Waiting
<1> QED
  BY <1>1, TurnInvariant, PTL

\* A session that is finished and at rest has settled every future it accepted
\* (failQueued, settleTurnResult), however its commands, its crash and its close interleave.
THEOREM FinishedSettlesAllAlways ==
  ASSUME HubQueued PROVE Spec => []FinishedSettlesAll
<1>1. TurnInv => FinishedSettlesAll
  <2> SUFFICES ASSUME TurnInv, finished, AtRest, NEW c \in Commands PROVE result[c] # "pending"
    BY DEF FinishedSettlesAll
  <2>1. turn = None /\ pump.turn = None /\ queue = <<>>
    BY DEF TurnInv, EndInv, Ended, Stages, Queued, AtRest
  <2> QED
    BY <2>1, EmptyHasNone, KernelAssumption DEF TurnInv, Told
<1> QED
  BY <1>1, TurnInvariant, PTL

\* A command told that it succeeded is one the provider worked through (settleTurn): no
\* turn is settled by the end of another.
THEOREM OwnResultAlways ==
  ASSUME HubQueued PROVE Spec => []OwnResult
<1>1. TurnInv => OwnResult
  BY DEF TurnInv, Told, OwnResult
<1> QED
  BY <1>1, TurnInvariant, PTL

=============================================================================
