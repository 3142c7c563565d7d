------------------------------ MODULE AttachWire ------------------------------
(***************************************************************************)
(* An attached session of the command line: the pump that reads stdin from *)
(* before the session exists (src/hub/attach-io.ts) and the wire that      *)
(* dispatches its lines as commands until a close or the end of stdin      *)
(* (src/cli.ts, runStartLike and runAttachWire).                           *)
(*                                                                         *)
(* Stdin is a sequence of lines, of which the pump has pulled so many      *)
(* bytes: what it holds unframed are the bytes from the end of the last    *)
(* framed line to there.  Pump and wire are chains of awaits; a waiter is  *)
(* one whose promise no notify has resolved yet.                           *)
(*                                                                         *)
(* The hub is the outside: a command settles at some time, a close returns *)
(* once the session is over, the provider may end the session before.      *)
(***************************************************************************)
EXTENDS Integers, Sequences, FiniteSetsExt

CONSTANTS
  MaxChunk,       \* ATTACH_MAX_CHUNK_BYTES
  MaxLine,        \* ATTACH_MAX_LINE_BYTES
  QueueCommands,  \* ATTACH_QUEUE_MAX_COMMANDS
  QueueBytes,     \* ATTACH_QUEUE_MAX_BYTES
  Inputs          \* what a host may write: sequences of lines

Kinds == {"blank", "command", "close", "invalid"}

ASSUME AttachWireAssumption ==
  /\ {MaxChunk, MaxLine, QueueCommands, QueueBytes} \subseteq Nat \ {0}
  /\ MaxLine <= QueueBytes
  /\ Inputs \subseteq Seq([bytes : Nat, is : Kinds])

VARIABLES
  input,      \* what the host writes, its lines with their bytes
  pulled,     \* the bytes the pump has read of it
  framed,     \* the lines of it the pump has framed
  queue,      \* lines
  pump,       \* where run() is
  readError,  \* none, a bound that was passed, or stdin's own failure
  disposed,
  waiters,    \* who waits for a notify
  wire,       \* where runStartLike and runAttachWire are
  held,       \* the line the wire was given, none or one
  handled,    \* history: the lines the wire has handled
  inFlight,   \* dispatched commands that have not settled
  session,    \* the session, as its event tail sees it
  tail,       \* eventsTail
  clean       \* neither sawError nor a close that was not clean

pumping == <<input, pulled, framed, pump, readError>>
hosting == <<wire, held, handled, inFlight, session, tail, clean>>
vars == <<pumping, queue, disposed, waiters, hosting>>

PumpPlaces == {"pulling", "holding", "ending", "settled"}
WirePlaces == {"launching", "refused", "reading", "handling", "closing",
               "draining", "closingEof", "settling", "exited"}

Init ==
  /\ input \in Inputs
  /\ pulled = 0 /\ framed = 0 /\ queue = <<>> /\ pump = "pulling"
  /\ readError = "none" /\ disposed = FALSE /\ waiters = {}
  /\ wire = "launching" /\ held = <<>> /\ handled = <<>> /\ inFlight = {}
  /\ session = "none" /\ tail = "none" /\ clean = TRUE

-----------------------------------------------------------------------------
Lines == 1..Len(input)

\* The bytes of the first lines, by their number.
Bytes(lines) ==
  LET sum[k \in 0..Len(lines)] == IF k = 0 THEN 0 ELSE sum[k - 1] + lines[k].bytes
  IN  sum

BytesOf(lines) == Bytes(lines)[Len(lines)]

\* Where each line of an input ends, its newline included.
Ends == [in \in Inputs |-> [k \in 0..Len(in) |-> k + Bytes(in)[k]]]

EndOf(k) == Ends[input][k]

\* The line k, of which so many bytes have come: a cut object does not parse.
Text(k, bytes) ==
  [line |-> k, bytes |-> bytes,
   is |-> IF bytes = input[k].bytes \/ input[k].is = "blank" THEN input[k].is ELSE "invalid"]

\* A line goes to the queue unless it is blank.
Push(texts, text) == IF text.is = "blank" THEN texts ELSE Append(texts, text)

\* The commands of the lines from..to.
Texts(from, to) ==
  LET texts[k \in 0..Len(input)] ==
        IF k < from THEN <<>> ELSE Push(texts[k - 1], Text(k, input[k].bytes))
  IN  texts[to]

\* Mutant: the queue's bounds are looked at once, not line by line.
QueueTakesAny(texts) == Len(queue) < QueueCommands

\* canEnqueue, of one more line or of several.
QueueTakes(texts) ==
  texts # <<>> => /\ Len(queue) + Len(texts) <= QueueCommands
                  /\ BytesOf(queue) + BytesOf(texts) <= QueueBytes

Full(texts) == Len(texts) >= QueueCommands \/ BytesOf(texts) >= QueueBytes

-----------------------------------------------------------------------------
(* The pump.                                                               *)

\* frame: the lines that are complete, within the bound, and fit the queue.
Framable(upto) ==
  Max({j \in framed..Len(input) :
    /\ \A i \in (framed + 1)..j : EndOf(i) <= upto /\ input[i].bytes <= MaxLine
    /\ QueueTakes(Texts(framed + 1, j))})

\* The line that follows, complete or not, is too long.
Overflows(j, upto) ==
  /\ j < Len(input)
  /\ IF EndOf(j + 1) <= upto THEN input[j + 1].bytes > MaxLine ELSE upto - EndOf(j) > MaxLine

HasLine(j, upto) == j < Len(input) /\ EndOf(j + 1) <= upto

\* notify wakes everyone who waits.
Notify == waiters' = {}

\* The end of run().
RunEnds == pump' = "settled" /\ Notify

\* failClosed ends run(): what is queued stays, what is unframed goes.
FailClosed == readError' = "bound" /\ RunEnds

\* Mutant: a chunk that does not fit is kept whole, lines that were queued and all.
KeptFromWhole(j, upto) == IF HasLine(j, upto) THEN framed ELSE j

\* The unframed rest is kept from the line that does not fit.
KeptFrom(j, upto) == j

\* frame and drain: what was read up to there is framed, and the pump pulls on,
\* or holds while a line does not fit or the queue is full.
FrameAndDrain(upto) ==
  LET j     == Framable(upto)
      texts == Texts(framed + 1, j)
      holds == HasLine(j, upto) \/ Full(queue \o texts) IN
  /\ framed' = KeptFrom(j, upto)
  /\ queue' = queue \o texts
  /\ IF Overflows(j, upto) THEN FailClosed
     ELSE /\ UNCHANGED readError
          /\ pump' = IF holds THEN "holding" ELSE "pulling"
          /\ waiters' = (IF texts = <<>> THEN waiters ELSE {})
                        \cup (IF holds THEN {"pump"} ELSE {})

Pulling == pump = "pulling" /\ ~disposed

\* A chunk, which is refused whole when it is above the bound.
Pull(bytes) ==
  /\ Pulling /\ pulled + bytes <= EndOf(Len(input))
  /\ IF bytes > MaxChunk
     THEN FailClosed /\ UNCHANGED <<pulled, framed, queue>>
     ELSE pulled' = pulled + bytes /\ FrameAndDrain(pulled + bytes)
  /\ UNCHANGED <<input, disposed, hosting>>

\* needsSpace, of a pump that holds.
LineWaits == HasLine(framed, pulled)
NeedsSpace == Full(queue) \/ (LineWaits /\ ~QueueTakes(Texts(framed + 1, framed + 1)))

\* awaitSpace: woken, the pump frames on or waits again.
PumpWakes ==
  /\ pump = "holding" /\ "pump" \notin waiters /\ ~disposed
  /\ IF NeedsSpace
     THEN waiters' = waiters \cup {"pump"} /\ UNCHANGED <<queue, framed, pump, readError>>
     ELSE FrameAndDrain(pulled)
  /\ UNCHANGED <<input, pulled, disposed, hosting>>

\* Stdin ends, or fails, wherever the host stops to write.
StdinEnds(error) ==
  /\ Pulling
  /\ pump' = "ending" /\ readError' = error
  /\ UNCHANGED <<input, pulled, framed, queue, disposed, waiters, hosting>>

\* Mutant: the last line is delivered only if it is terminated.
TailTextTerminated == <<>>

\* What is left unterminated when stdin ends.
TailText ==
  IF framed = Len(input) \/ pulled = EndOf(framed) THEN <<>>
  ELSE Push(<<>>, Text(framed + 1, pulled - EndOf(framed)))

\* awaitLineSpace for the last line, and the end of run().
PumpEnds ==
  /\ pump = "ending" /\ "pump" \notin waiters /\ ~disposed
  /\ IF QueueTakes(TailText)
     THEN /\ queue' = queue \o TailText
          /\ framed' = IF TailText = <<>> THEN framed ELSE framed + 1
          /\ RunEnds
     ELSE waiters' = waiters \cup {"pump"} /\ UNCHANGED <<queue, framed, pump>>
  /\ UNCHANGED <<input, pulled, readError, disposed, hosting>>

\* A pump that was disposed stops wherever it is.
PumpStops ==
  /\ disposed /\ pump # "settled"
  /\ RunEnds
  /\ UNCHANGED <<input, pulled, framed, readError, queue, disposed, hosting>>

-----------------------------------------------------------------------------
(* The wire.                                                               *)

\* The task of the command line is the first command.
AutoTask == 0

\* The launch ends: the wire starts to read, or the command fails, with the pump
\* left as it is.
Launched ==
  /\ wire = "launching"
  /\ \/ /\ wire' = "reading" /\ session' = "open" /\ tail' = "open"
        /\ inFlight' \in {{}, {AutoTask}} /\ UNCHANGED clean
     \/ wire' = "refused" /\ clean' = FALSE /\ UNCHANGED <<session, tail, inFlight>>
  /\ UNCHANGED <<pumping, queue, disposed, waiters, held, handled>>

\* Mutant: a line is taken without waking a pump that holds for space.
TakeUnnoticed ==
  /\ wire' = "handling"
  /\ held' = <<Head(queue)>> /\ queue' = Tail(queue)
  /\ UNCHANGED <<waiters, clean>>

\* next: a line.
Take ==
  /\ wire' = "handling"
  /\ held' = <<Head(queue)>> /\ queue' = Tail(queue)
  /\ Notify /\ UNCHANGED clean

\* next: the end of stdin, with the pump's error if it has one.
Drain ==
  /\ wire' = "draining"
  /\ clean' = (clean /\ readError = "none")
  /\ UNCHANGED <<held, queue, waiters>>

Reads ==
  /\ wire = "reading" /\ "wire" \notin waiters
  /\ IF queue # <<>> THEN Take
     ELSE IF pump = "settled" THEN Drain
     ELSE waiters' = waiters \cup {"wire"} /\ UNCHANGED <<queue, wire, held, clean>>
  /\ UNCHANGED <<pumping, disposed, handled, inFlight, session, tail>>

\* handleLine: a command is dispatched, a close awaited, the rest an error.
Handles ==
  /\ wire = "handling"
  /\ held' = <<>> /\ handled' = Append(handled, held[1])
  /\ wire' = IF held[1].is = "close" THEN "closing" ELSE "reading"
  /\ inFlight' = IF held[1].is = "command" THEN inFlight \cup {held[1].line} ELSE inFlight
  /\ clean' = (clean /\ held[1].is # "invalid")
  /\ UNCHANGED <<pumping, queue, disposed, waiters, session, tail>>

\* A command settles, with a document or an error.
Settle(k) ==
  /\ k \in inFlight
  /\ inFlight' = inFlight \ {k}
  /\ clean' \in {clean, FALSE}
  /\ UNCHANGED <<pumping, queue, disposed, waiters, wire, held, handled, session, tail>>

\* Mutant: the end of stdin closes the session over what runs.
DrainedAtOnce == TRUE

Drained == inFlight = {}

\* The end of stdin closes the session once what was dispatched has settled.
ClosesAtEof ==
  /\ wire = "draining" /\ Drained
  /\ wire' = "closingEof"
  /\ UNCHANGED <<pumping, queue, disposed, waiters, held, handled, inFlight, session, tail, clean>>

\* closeOnce returns, with the session over, cleanly or not; after a close that
\* was a line the pump is disposed.
CloseReturns ==
  /\ wire \in {"closing", "closingEof"}
  /\ session' = "finished"
  /\ clean' \in {clean, FALSE}
  /\ wire' = "settling"
  /\ IF wire = "closing" THEN disposed' = TRUE /\ Notify ELSE UNCHANGED <<disposed, waiters>>
  /\ UNCHANGED <<pumping, queue, held, handled, inFlight, tail>>

ProviderEnds ==
  /\ session = "open"
  /\ session' = "finished"
  /\ UNCHANGED <<pumping, queue, disposed, waiters, wire, held, handled, inFlight, tail, clean>>

\* The tail ends with the session, or with an error of its own.
TailEnds ==
  /\ tail = "open" /\ tail' = "ended"
  /\ \/ session = "finished" /\ UNCHANGED clean
     \/ clean' = FALSE
  /\ UNCHANGED <<pumping, queue, disposed, waiters, wire, held, handled, inFlight, session>>

AllSettled == inFlight = {} /\ tail = "ended"

Exits ==
  /\ wire = "settling" /\ AllSettled
  /\ wire' = "exited" /\ disposed' = TRUE /\ Notify
  /\ UNCHANGED <<pumping, queue, held, handled, inFlight, session, tail, clean>>

-----------------------------------------------------------------------------
PumpStep == PumpWakes \/ PumpEnds \/ PumpStops
WireStep == Launched \/ Reads \/ Handles \/ ClosesAtEof \/ CloseReturns \/ TailEnds \/ Exits

Next ==
  \/ \E bytes \in 1..(MaxChunk + 1) : Pull(bytes)
  \/ \E error \in {"none", "stdin"} : StdinEnds(error)
  \/ \E k \in Lines \cup {AutoTask} : Settle(k)
  \/ PumpStep \/ WireStep \/ ProviderEnds

\* The event loop runs what is resolved.  Nothing makes the host write or end
\* stdin, nor a command settle.
Fairness ==
  /\ WF_vars(PumpWakes) /\ WF_vars(PumpEnds) /\ WF_vars(PumpStops)
  /\ WF_vars(Launched) /\ WF_vars(Reads) /\ WF_vars(Handles)
  /\ WF_vars(ClosesAtEof) /\ WF_vars(CloseReturns) /\ WF_vars(Exits)
  /\ WF_vars(session = "finished" /\ TailEnds)

Spec == Init /\ [][Next]_vars /\ Fairness

-----------------------------------------------------------------------------
TypeOK ==
  /\ input \in Inputs
  /\ pulled \in 0..EndOf(Len(input)) /\ framed \in 0..Len(input)
  /\ pump \in PumpPlaces /\ readError \in {"none", "bound", "stdin"}
  /\ disposed \in BOOLEAN /\ waiters \subseteq {"pump", "wire"}
  /\ wire \in WirePlaces /\ Len(held) <= 1
  /\ inFlight \subseteq Lines \cup {AutoTask}
  /\ session \in {"none", "open", "finished"} /\ tail \in {"none", "open", "ended"}
  /\ clean \in BOOLEAN

\* Types; and the hard bounds (attach-io.ts:17-30): the queue's, a pump that pulls
\* holds one partial line within the bound, and one that holds at most a chunk more.
HardBounds ==
  /\ TypeOK
  /\ Len(queue) <= QueueCommands /\ BytesOf(queue) <= QueueBytes
  /\ pump = "pulling" => ~LineWaits /\ pulled - EndOf(framed) <= MaxLine
  /\ pump = "holding" => pulled - EndOf(framed) <= MaxLine + MaxChunk

\* Every line that was framed is handled once and in order, or still queued: also
\* across holds, the handshake and the end of stdin (runAttachWire).
OnceInOrder ==
  \/ handled \o held \o queue = Texts(1, framed)
  \/ /\ pump = "settled" /\ framed > 0
     /\ handled \o held \o queue = Texts(1, framed - 1) \o <<Text(framed, pulled - EndOf(framed - 1))>>

\* A wire that ends well by the end of stdin handled all that it was written, an
\* unterminated line included: what is not handled is told (the exit code).
NothingLostSilently ==
  wire = "exited" /\ clean /\ (\A i \in DOMAIN handled : handled[i].is # "close")
    => \A i \in Lines : input[i].is # "blank" /\ EndOf(i - 1) < pulled
                          => \E n \in DOMAIN handled : handled[n].line = i

\* The end of stdin is not a cancel: it closes the session over no command
\* (cli.ts:554-556); and a wire that exited has no document left to come, its
\* session is over and nothing holds stdin.
EofIsNoCancel ==
  /\ wire = "closingEof" => inFlight = {}
  /\ wire = "exited" => inFlight = {} /\ tail = "ended" /\ session = "finished" /\ disposed

\* A line that came whole is handled, unless a close came first, a bound was passed
\* or there is no session.
LinesServed ==
  \A k \in 1..Max({Len(in) : in \in Inputs}) :
    (k \in Lines /\ input[k].is # "blank" /\ EndOf(k) <= pulled)
      ~> \/ \E n \in DOMAIN handled : handled[n].line = k
         \/ wire \in {"refused", "closing", "settling", "exited"} \/ readError = "bound"

\* A wire whose stdin ended or that was told to close comes to its end.
WireEnds ==
  []<>(inFlight = {}) =>
    ((pump = "settled" \/ wire = "closing") ~> (wire = "exited" \/ wire = "refused"))

\* Pump and wire never wait for a wakeup that does not come: every line that is
\* read gets handled while stdin stays open, and the wire ends once it is to, if
\* every command settles, however long the host holds stdin (next, awaitSpace,
\* notify, dispose).
WireGoesOn == LinesServed /\ WireEnds
=============================================================================
