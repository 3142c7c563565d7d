------------------------------ MODULE EventRing ------------------------------
(***************************************************************************)
(* The events of one session (src/kernel/events.ts and the pump, streams   *)
(* and commits of src/kernel/interaction-kernel.ts): a ring that stamps    *)
(* and keeps the last of them, a live tail (streamEvents, EventSubscription*)
(* of an attached wire) and a client that polls with a cursor (eventsAfter *)
(* of hub_events and hub_wait), through the session's resumes.             *)
(*                                                                         *)
(* The ring's events are the sequence numbers oldest..latest: their bodies *)
(* matter only in that the byte bound may evict more than the count does.  *)
(***************************************************************************)
EXTENDS Naturals, Sequences

CONSTANTS
  MaxEvents,  \* RING_MAX_EVENTS: bound of the ring, and of a tail's queue
  MaxSeq,     \* bound: the last sequence number
  MaxLives    \* bound: launches of the session

ASSUME EventRingAssumption ==
  MaxEvents \in Nat \ {0} /\ MaxSeq \in Nat /\ MaxLives \in Nat \ {0}

VARIABLES
  life,       \* which launch of the session this is
  oldest,     \* the oldest buffered event; latest + 1 if none is buffered
  latest,     \* ring.latest, totalSeen: the last number stamped
  committed,  \* last_event_seq of the durable record
  finished,   \* session.finished: its subscribers were completed
  tail,       \* the subscription: its state, its queue, whether a next() waits, the
              \* last event given, and (history) ring.latest when it ended
  cursor,     \* the polling client's
  reused,     \* history: the client's cursor when this life began
  given,      \* history: events of this life the polling client got
  told        \* history: events of this life it was told are expired

ring == <<life, oldest, latest>>
polling == <<cursor, reused, given, told>>
ringVars == <<ring, committed, finished, tail, polling>>

NoTail == [state |-> "none", queue |-> <<>>, waiting |-> FALSE, got |-> 0, last |-> 0]
TailStates == {"none", "open", "done", "failed"}

RingInit ==
  /\ life = 1 /\ oldest = 1 /\ latest = 0 /\ committed = 0 /\ finished = FALSE
  /\ tail = NoTail
  /\ cursor = 0 /\ reused = 0 /\ given = {} /\ told = {}

-----------------------------------------------------------------------------
Count == latest + 1 - oldest

\* The numbers from..to in order.
Span(from, to) == [i \in 1..(IF to < from THEN 0 ELSE to + 1 - from) |-> from + i - 1]

\* Mutant: only a cursor the ring has passed by more than one event is expired.
ExpiredLate(after) == IF Count = 0 THEN after < latest ELSE after + 2 < oldest

\* readAfter: is there an event behind the cursor that the ring has no more?
Expired(after) == IF Count = 0 THEN after < latest ELSE after + 1 < oldest

\* readAfter: the cursor to resynchronize from, and the one to go on with.
EarliestReplayable == IF Count = 0 THEN latest ELSE oldest - 1
NextCursor(after) == IF Count = 0 \/ latest > after THEN latest ELSE after

-----------------------------------------------------------------------------
(* EventSubscription.                                                      *)

\* emit: to the next() that waits for it, into the queue, or the tail failed.
Emit(t, seq) ==
  IF t.state # "open" THEN t
  ELSE IF t.waiting THEN [t EXCEPT !.waiting = FALSE, !.got = seq]
  ELSE IF Len(t.queue) >= MaxEvents THEN [t EXCEPT !.state = "failed"]
  ELSE [t EXCEPT !.queue = Append(t.queue, seq)]

\* complete: a pending next() is answered, what is queued stays to be read.
Complete(t) ==
  IF t.state = "open" THEN [t EXCEPT !.state = "done", !.waiting = FALSE, !.last = latest] ELSE t

-----------------------------------------------------------------------------
(* The kernel.                                                             *)

\* Whether the ring, with the new event in it, may begin at o.
Fits(o) == latest + 2 - o <= MaxEvents

\* The pump stamps an event, pushes it and emits it to the tail.  The ring
\* evicts what is above its bounds, by count or by bytes, never the new event.
\* The pump goes on with what its stream still holds after the session finished.
Push ==
  /\ latest < MaxSeq
  /\ latest' = latest + 1
  /\ \E o \in oldest..(latest + 1) : Fits(o) /\ oldest' = o
  /\ tail' = Emit(tail, latest + 1)
  /\ UNCHANGED <<life, committed, finished, polling>>

\* commitStatus and degradeOnDurableFailure write the cursor with the record, as
\* it was when they were called; terminal ones are followed by finishTerminal.
Commit ==
  /\ ~finished
  /\ committed' \in (committed + 1)..latest
  /\ UNCHANGED <<ring, finished, tail, polling>>

\* finishTerminal; the last commit may have failed, and leave an earlier cursor.
FinishTerminal ==
  /\ ~finished
  /\ finished' = TRUE
  /\ tail' = Complete(tail)
  /\ committed' \in committed..latest
  /\ UNCHANGED <<ring, polling>>

\* The host dies: its tails with it, and events that no commit counted.
HostDies ==
  /\ ~finished
  /\ finished' = TRUE
  /\ tail' = NoTail
  /\ UNCHANGED <<ring, committed, polling>>

\* resume: a new ring, which goes on after the last committed event.
SeedOfResume == committed

Resume ==
  /\ finished /\ life < MaxLives
  /\ life' = life + 1
  /\ latest' = SeedOfResume /\ oldest' = SeedOfResume + 1
  /\ finished' = FALSE
  /\ tail' = NoTail
  /\ reused' = cursor /\ given' = {} /\ told' = {}
  /\ UNCHANGED <<committed, cursor>>

-----------------------------------------------------------------------------
(* The consumers.                                                          *)

\* Mutant: the live subscription is installed without the replay.
ReplayNothing(after) == <<>>

Replay(after) == Span(after + 1, latest)

\* streamEvents: the replay and the subscription in one step, unless events
\* behind the cursor are gone or the replay is above the consumer's bound.  The
\* cursor is one that was seen in this life; the wire's own is 0.
Subscribe(after) ==
  /\ tail.state = "none"
  /\ tail' = IF Expired(after) \/ Len(Span(after + 1, latest)) > MaxEvents
             THEN [NoTail EXCEPT !.state = "failed", !.got = after]
             ELSE [NoTail EXCEPT !.state = IF finished THEN "done" ELSE "open",
                                 !.queue = Replay(after), !.got = after, !.last = latest]
  /\ UNCHANGED <<ring, committed, finished, polling>>

\* next: what is queued, or a wait for the next event.
TailReads ==
  /\ tail.queue # <<>>
  /\ tail' = [tail EXCEPT !.got = Head(tail.queue), !.queue = Tail(tail.queue)]
  /\ UNCHANGED <<ring, committed, finished, polling>>

TailWaits ==
  /\ tail.state = "open" /\ tail.queue = <<>> /\ ~tail.waiting
  /\ tail' = [tail EXCEPT !.waiting = TRUE]
  /\ UNCHANGED <<ring, committed, finished, polling>>

\* The cursor wait() gives its client to go on from, whichever verdict it got.
CursorAfter(after) == IF Expired(after) THEN EarliestReplayable ELSE NextCursor(after)

\* eventsAfter: the events behind the cursor, or the verdict that some are gone.
Poll ==
  /\ cursor' = CursorAfter(cursor)
  /\ IF Expired(cursor)
     THEN /\ told' = told \cup (cursor + 1)..EarliestReplayable
          /\ UNCHANGED given
     ELSE /\ given' = given \cup {s \in oldest..latest : s > cursor}
          /\ UNCHANGED told
  /\ UNCHANGED <<ring, committed, finished, tail, reused>>

-----------------------------------------------------------------------------
RingNext ==
  \/ Push \/ Commit \/ FinishTerminal \/ HostDies \/ Resume
  \/ \E after \in 0..latest : Subscribe(after)
  \/ TailReads \/ TailWaits \/ Poll

RingSpec == RingInit /\ [][RingNext]_ringVars

-----------------------------------------------------------------------------
RingTypeOK ==
  /\ life \in 1..MaxLives
  /\ latest \in 0..MaxSeq /\ oldest \in 1..(latest + 1)
  /\ committed \in 0..MaxSeq /\ finished \in BOOLEAN
  /\ tail \in [state : TailStates, queue : Seq(1..MaxSeq), waiting : BOOLEAN,
               got : 0..MaxSeq, last : 0..MaxSeq]
  /\ cursor \in 0..MaxSeq /\ reused \in 0..MaxSeq
  /\ given \subseteq 1..MaxSeq /\ told \subseteq 1..MaxSeq

\* Types and bounds; and a tail gives every event after its cursor, once and in
\* order: what is queued follows what was given without a gap, an open tail lags
\* behind the ring by its queue alone, and one that ended has all that was pushed
\* until its session finished (streamEvents: "no event is ever duplicated or
\* lost").
TailGapless ==
  /\ RingTypeOK
  /\ Count <= MaxEvents /\ Len(tail.queue) <= MaxEvents
  /\ tail.waiting => tail.state = "open" /\ tail.queue = <<>>
  /\ tail.queue = Span(tail.got + 1, tail.got + Len(tail.queue))
  /\ tail.state = "open" => tail.got + Len(tail.queue) = latest
  /\ tail.state = "done" => tail.got + Len(tail.queue) = tail.last

\* A client that goes on from the cursor it was given has, of all that was
\* stamped up to it, every event, or was told that it is expired; but for the
\* numbers it had seen before this life (readAfter).  And no life stamps a number
\* again that a committed record counted (resume: "replay never re-consumes").
NoSilentGap ==
  /\ committed <= latest
  /\ \A s \in 1..latest : reused < s /\ s <= cursor => s \in given \cup told

\* What the polling client is not promised: a number it had seen before a
\* resume, past the last commit, is stamped again, and it misses the event.
NothingMissed == \A s \in (committed + 1)..latest : s <= cursor => s \in given \cup told
=============================================================================
