-------------------------- MODULE HubProcess_proofs --------------------------
(***************************************************************************)
(* Proofs about what one hub process keeps in memory, its hubs and the     *)
(* events of a session.                                                    *)
(*                                                                         *)
(* Of HubHost, for any number of repositories, sessions, calls and hubs    *)
(* and any quota: slots are given back and bound what the cached hubs run, *)
(* the sweeps are those of the cached hubs, and a command that was         *)
(* accepted is refused by custody only when a sweep or the end of an       *)
(* earlier life closed it.                                                 *)
(*                                                                         *)
(* Of EventRing, for rings of any size and any number of lives: the        *)
(* polling client is told of every gap, and the tail has none.             *)
(***************************************************************************)
EXTENDS HubHost, EventRing, FiniteSetTheorems, SequenceTheorems, TLAPS

-----------------------------------------------------------------------------
(* HubHost.                                                                *)

CallRecords == [at : Places, op : Operations, session : Sessions \cup {None},
                hub : Hubs \cup {None}, late : BOOLEAN]

\* A call that is under way has a session.
CallsOK ==
  /\ call \in [Callers -> CallRecords]
  /\ \A c \in Callers : call[c].at # "idle" => call[c].session \in Sessions

\* The cached hubs, which are the only ones that sweep.
HubsOK ==
  /\ ready \in [Repos -> Hubs \cup {None}]
  /\ TimersOwned

\* The types of what a kernel and custody say of a session.
SessionsOK ==
  /\ home \in [Sessions -> Hubs \cup {None}]
  /\ phase \in [Sessions -> Phases]
  /\ custody \in [Sessions -> Closed \cup {"none", "live"}]
  /\ command \in [Sessions -> {"none", "running", "settled", "refused"}]

Typed == CallsOK /\ HubsOK /\ SessionsOK

-----------------------------------------------------------------------------
(* What an action does to its call.                                        *)

LEMMA CallMoves ==
  ASSUME CallsOK, NEW c \in Callers, call[c].at # "idle", NEW place \in Places, GoesTo(c, place)
  PROVE  /\ CallsOK' /\ call'[c].at = place /\ call'[c].hub = call[c].hub
         /\ \A d \in Callers \ {c} : call'[d] = call[d]
<1> DEFINE moved == [call[c] EXCEPT !.at = place]
<1>1. /\ moved \in CallRecords /\ moved.session = call[c].session
      /\ moved.at = place /\ moved.hub = call[c].hub
  BY DEF CallsOK, CallRecords
<1>2. call' = [call EXCEPT ![c] = moved]
  BY DEF GoesTo
<1> HIDE DEF moved
<1> QED
  BY <1>1, <1>2 DEF CallsOK

LEMMA CallEnds ==
  ASSUME CallsOK, NEW c \in Callers, Ends(c)
  PROVE  /\ CallsOK' /\ call'[c].at = "idle"
         /\ \A d \in Callers \ {c} : call'[d] = call[d]
  BY DEF Ends, Idle, CallsOK, CallRecords, Places, Operations

LEMMA CallFinds ==
  ASSUME CallsOK, NEW c \in Callers, call[c].at # "idle", NEW place \in Places,
         NEW h \in Hubs \cup {None},
         call' = [call EXCEPT ![c] = [@ EXCEPT !.at = place, !.hub = h]]
  PROVE  /\ CallsOK' /\ call'[c].at = place /\ call'[c].hub = h
         /\ \A d \in Callers \ {c} : call'[d] = call[d]
<1> DEFINE moved == [call[c] EXCEPT !.at = place, !.hub = h]
<1>1. /\ moved \in CallRecords /\ moved.session = call[c].session
      /\ moved.at = place /\ moved.hub = h
  BY DEF CallsOK, CallRecords
<1>2. call' = [call EXCEPT ![c] = moved]
  OBVIOUS
<1> HIDE DEF moved
<1> QED
  BY <1>1, <1>2 DEF CallsOK

\* A resume marks the calls that end an earlier life, and moves on.
LEMMA CallOutruns ==
  ASSUME CallsOK, NEW c \in Callers, call[c].at = "reopening",
         call' = Outrun([call EXCEPT ![c].at = "providing"], call[c].session)
  PROVE  /\ CallsOK'
         /\ \A d \in Callers :
              /\ call'[d].at = IF d = c THEN "providing" ELSE call[d].at
              /\ call'[d].hub = call[d].hub
<1> DEFINE moved == [call[c] EXCEPT !.at = "providing"]
           calls == [call EXCEPT ![c] = moved]
           late(d) == [calls[d] EXCEPT !.late = TRUE]
<1>1. moved \in CallRecords /\ moved.session \in Sessions
      /\ moved.at = "providing" /\ moved.hub = call[c].hub
  BY DEF CallsOK, CallRecords, Places, LaunchSteps
<1>2. call' = [d \in Callers |->
                IF calls[d].session = call[c].session /\ calls[d].at \in {"stopping", "waiting", "failing"}
                THEN late(d) ELSE calls[d]]
  BY DEF Outrun
<1>3. \A d \in Callers :
        /\ calls[d] \in CallRecords
        /\ calls[d].at = IF d = c THEN "providing" ELSE call[d].at
        /\ calls[d].hub = call[d].hub
        /\ calls[d].at # "idle" => calls[d].session \in Sessions
  <2> HIDE DEF moved
  <2> QED
    BY <1>1 DEF CallsOK
<1>4. \A d \in Callers :
        /\ late(d) \in CallRecords
        /\ late(d).at = calls[d].at
        /\ late(d).hub = calls[d].hub
        /\ late(d).session = calls[d].session
  <2> HIDE DEF calls
  <2> QED
    BY <1>3 DEF CallRecords
<1> HIDE DEF calls, late, moved
<1>5. call' \in [Callers -> CallRecords]
  BY <1>2, <1>3, <1>4
<1>6. \A d \in Callers : call'[d] = late(d) \/ call'[d] = calls[d]
  BY <1>2
<1>7. \A d \in Callers : call'[d].at = calls[d].at /\ call'[d].hub = calls[d].hub
                         /\ call'[d].session = calls[d].session
  BY <1>4, <1>6
<1> QED
  BY <1>3, <1>5, <1>7 DEF CallsOK

-----------------------------------------------------------------------------
(* What an action does to the hubs.                                        *)

LEMMA HubRetires ==
  ASSUME HubsOK, NEW h, NEW n, NEW attachedThen, RetireIdle(h, n, attachedThen)
  PROVE  HubsOK' /\ Cached' \subseteq Cached
<1>1. CASE h \in Cached /\ ready' = [r \in Repos |-> IF ready[r] = h THEN None ELSE ready[r]]
           /\ timers' = timers \ {h}
  <2>1. ready' \in [Repos -> Hubs \cup {None}]
    BY <1>1 DEF HubsOK
  <2>2. Cached' = Cached \ {h}
    BY <1>1 DEF Cached
  <2> QED
    BY <1>1, <2>1, <2>2 DEF HubsOK, TimersOwned
<1>2. CASE UNCHANGED <<ready, timers>>
  BY <1>2 DEF HubsOK, TimersOwned, Cached
<1> QED
  BY <1>1, <1>2 DEF RetireIdle

LEMMA HubKept ==
  ASSUME HubsOK, CallsOK, NEW c \in Callers, call[c].at = "opening",
         NEW h \in FreeHubs, KeepHub(c, h)
  PROVE  HubsOK' /\ Cached' \subseteq Cached \cup {h}
<1> DEFINE repo == RepoOf[call[c].session]
<1>1. repo \in Repos
  BY HubHostAssumption DEF CallsOK
<1>2. h \in Hubs /\ h # None
  BY HubHostAssumption DEF FreeHubs
<1>3. CASE ready[repo] = None /\ ready' = [ready EXCEPT ![repo] = h] /\ timers' = timers \cup {h}
  <2>1. Cached' = Cached \cup {h}
    BY <1>1, <1>2, <1>3 DEF Cached, HubsOK
  <2> QED
    BY <1>1, <1>2, <1>3, <2>1 DEF HubsOK, TimersOwned
<1>4. CASE UNCHANGED <<ready, timers>>
  BY <1>4 DEF HubsOK, TimersOwned, Cached
<1> QED
  BY <1>3, <1>4 DEF KeepHub, RepoOfCall

-----------------------------------------------------------------------------
(* The slots.                                                              *)

\* The sessions the cached hubs run, and the launches that are on cached hubs.
RunningCached == {s \in Sessions : home[s] \in Cached /\ phase[s] \in Running}
LaunchesCached == {c \in Launches : call[c].hub \in Cached}

SlotsOK ==
  /\ inFlight = Cardinality(Launches)
  /\ Cardinality(RunningCached) + Cardinality(LaunchesCached) <= Quota

\* The inductive invariant.
HostInv == Typed /\ SlotsOK

LEMMA ActiveCountIs == ActiveCount = Cardinality(RunningCached)
<1>1. UNION {Attached(h) : h \in Cached} = RunningCached
  BY DEF Attached, RunningCached
<1> QED
  BY <1>1 DEF ActiveCount

LEMMA SlotSetsFinite ==
  /\ \A S : S \subseteq Sessions => IsFiniteSet(S) /\ Cardinality(S) \in Nat
  /\ \A C : C \subseteq Callers => IsFiniteSet(C) /\ Cardinality(C) \in Nat
  BY HubHostAssumption, FS_Subset, FS_CardinalityType

LEMMA SlotsSets ==
  /\ RunningCached \subseteq Sessions
  /\ Launches \subseteq Callers
  /\ LaunchesCached \subseteq Launches
  BY DEF RunningCached, Launches, LaunchesCached

LEMMA SlotsSetsPrime ==
  /\ RunningCached' \subseteq Sessions
  /\ Launches' \subseteq Callers
  /\ LaunchesCached' \subseteq Launches'
  BY DEF RunningCached, Launches, LaunchesCached

LEMMA SmallerSets ==
  /\ \A S, T : S \subseteq T /\ T \subseteq Sessions => Cardinality(S) <= Cardinality(T)
  /\ \A S, T : S \subseteq T /\ T \subseteq Callers => Cardinality(S) <= Cardinality(T)
  BY SlotSetsFinite, FS_Subset

\* A step that takes no slot, and after which the cached hubs run no more.
LEMMA SlotsStay ==
  ASSUME SlotsOK, UNCHANGED inFlight, Launches' = Launches,
         RunningCached' \subseteq RunningCached, LaunchesCached' \subseteq LaunchesCached
  PROVE  SlotsOK'
<1>1. Cardinality(RunningCached') <= Cardinality(RunningCached)
  BY SlotsSets, SmallerSets
<1>2. Cardinality(LaunchesCached') <= Cardinality(LaunchesCached)
  BY SlotsSets, SmallerSets
<1>3. /\ Cardinality(RunningCached) \in Nat /\ Cardinality(RunningCached') \in Nat
      /\ Cardinality(LaunchesCached) \in Nat /\ Cardinality(LaunchesCached') \in Nat
  BY SlotsSets, SlotsSetsPrime, SlotSetsFinite
<1> QED
  BY <1>1, <1>2, <1>3, HubHostAssumption DEF SlotsOK

\* A launch that ends without a session gives its slot back.
LEMMA SlotGivenBack ==
  ASSUME SlotsOK, NEW c \in Launches, inFlight' = inFlight - 1, Launches' = Launches \ {c},
         RunningCached' \subseteq RunningCached, LaunchesCached' \subseteq LaunchesCached
  PROVE  SlotsOK'
<1>1. Cardinality(RunningCached') <= Cardinality(RunningCached)
  BY SlotsSets, SmallerSets
<1>2. Cardinality(LaunchesCached') <= Cardinality(LaunchesCached)
  BY SlotsSets, SmallerSets
<1>3. /\ Cardinality(RunningCached) \in Nat /\ Cardinality(RunningCached') \in Nat
      /\ Cardinality(LaunchesCached) \in Nat /\ Cardinality(LaunchesCached') \in Nat
  BY SlotsSets, SlotsSetsPrime, SlotSetsFinite
<1>4. Cardinality(Launches') = Cardinality(Launches) - 1
  BY SlotsSets, SlotSetsFinite, FS_RemoveElement
<1> QED
  BY <1>1, <1>2, <1>3, <1>4, HubHostAssumption DEF SlotsOK

\* A slot is taken by a launch while what runs and what is launched is below the
\* quota, the launches on hubs that are not cached included.
LEMMA SlotTaken ==
  ASSUME SlotsOK, NEW c \in Callers \ Launches, SlotIsFree,
         inFlight' = inFlight + 1, Launches' = Launches \cup {c},
         RunningCached' \subseteq RunningCached
  PROVE  SlotsOK'
<1>1. Cardinality(RunningCached') <= Cardinality(RunningCached)
  BY SlotsSets, SmallerSets
<1>2. Cardinality(LaunchesCached') <= Cardinality(Launches')
  BY SlotsSetsPrime, SmallerSets
<1>3. /\ Cardinality(RunningCached) \in Nat /\ Cardinality(RunningCached') \in Nat
      /\ Cardinality(Launches) \in Nat /\ Cardinality(LaunchesCached') \in Nat
  BY SlotsSets, SlotsSetsPrime, SlotSetsFinite
<1>4. Cardinality(Launches') = Cardinality(Launches) + 1
  BY SlotsSets, SlotSetsFinite, FS_AddElement
<1>5. Cardinality(RunningCached) + inFlight < Quota
  BY ActiveCountIs DEF SlotIsFree
<1> QED
  BY <1>1, <1>2, <1>3, <1>4, <1>5, HubHostAssumption DEF SlotsOK

\* A slot becomes a session: if the hub is cached the launch counted already, if
\* not the session does not count.
LEMMA SlotUsed ==
  ASSUME SlotsOK, NEW c \in Launches, NEW s \in Sessions,
         inFlight' = inFlight - 1, Launches' = Launches \ {c},
         LaunchesCached' = LaunchesCached \ {c},
         RunningCached' \subseteq RunningCached \cup {s},
         c \notin LaunchesCached => RunningCached' \subseteq RunningCached
  PROVE  SlotsOK'
<1>1. /\ Cardinality(RunningCached) \in Nat /\ Cardinality(RunningCached') \in Nat
      /\ Cardinality(LaunchesCached) \in Nat /\ Cardinality(LaunchesCached') \in Nat
  BY SlotsSets, SlotsSetsPrime, SlotSetsFinite
<1>2. Cardinality(Launches') = Cardinality(Launches) - 1
  BY SlotsSets, SlotSetsFinite, FS_RemoveElement
<1>3. CASE c \in LaunchesCached
  <2>1. Cardinality(LaunchesCached') = Cardinality(LaunchesCached) - 1
    BY <1>3, SlotsSets, SlotSetsFinite, FS_RemoveElement
  <2>2. Cardinality(RunningCached \cup {s}) <= Cardinality(RunningCached) + 1
    <3>1. IsFiniteSet(RunningCached)
      BY SlotsSets, SlotSetsFinite
    <3>2. Cardinality(RunningCached \cup {s}) =
            IF s \in RunningCached THEN Cardinality(RunningCached) ELSE Cardinality(RunningCached) + 1
      BY <3>1, FS_AddElement
    <3> QED
      BY <1>1, <3>2
  <2>3. Cardinality(RunningCached') <= Cardinality(RunningCached \cup {s})
    BY SlotsSets, SmallerSets
  <2>4. Cardinality(RunningCached \cup {s}) \in Nat
    BY SlotsSets, SlotSetsFinite
  <2> QED
    BY <1>1, <1>2, <2>1, <2>2, <2>3, <2>4, HubHostAssumption DEF SlotsOK
<1>4. CASE c \notin LaunchesCached
  <2>1. LaunchesCached' = LaunchesCached
    BY <1>4
  <2>2. Cardinality(RunningCached') <= Cardinality(RunningCached)
    BY <1>4, SlotsSets, SmallerSets
  <2> QED
    BY <1>1, <1>2, <2>1, <2>2, HubHostAssumption DEF SlotsOK
<1> QED
  BY <1>3, <1>4

-----------------------------------------------------------------------------
(* The steps.                                                              *)

\* A launch that ends without a session: its slot, its hub, its call.
LEMMA EndLaunchKeeps ==
  ASSUME HostInv, NEW c \in Callers, Launching(c), NEW attachedThen, EndLaunch(c, attachedThen),
         SessionsOK', UNCHANGED home,
         \A s \in Sessions : phase'[s] \in Running => phase[s] \in Running
  PROVE  HostInv'
<1> USE DEF HostInv, Typed
<1>1. CallsOK' /\ call'[c].at = "idle" /\ \A d \in Callers \ {c} : call'[d] = call[d]
  BY CallEnds DEF EndLaunch
<1>2. HubsOK' /\ Cached' \subseteq Cached
  BY HubRetires DEF EndLaunch
<1>3. c \in Launches /\ Launches' = Launches \ {c}
  BY <1>1 DEF Launches, Launching, LaunchSteps
<1>4. LaunchesCached' \subseteq LaunchesCached
  BY <1>1, <1>2, <1>3, SlotsSets DEF LaunchesCached
<1>5. RunningCached' \subseteq RunningCached
  BY <1>2 DEF RunningCached
<1>6. inFlight' = inFlight - 1
  BY DEF EndLaunch
<1>7. SlotsOK'
  BY <1>3, <1>4, <1>5, <1>6, SlotGivenBack
<1> QED
  BY <1>1, <1>2, <1>7

\* A step of a call that neither takes nor gives a slot, seen from the slots.
LEMMA CallSlotsStay ==
  ASSUME HostInv, NEW c \in Callers, UNCHANGED <<inFlight, home>>,
         Launching(c) = (call'[c].at \in LaunchSteps), call'[c].hub = call[c].hub \/ ~Launching(c),
         \A d \in Callers \ {c} : call'[d] = call[d],
         Cached' \subseteq Cached,
         \A s \in Sessions : phase'[s] \in Running => phase[s] \in Running
  PROVE  SlotsOK'
<1>1. Launches' = Launches
  BY DEF Launches, Launching
<1>2. LaunchesCached' \subseteq LaunchesCached
  BY <1>1 DEF LaunchesCached, Launches, Launching
<1>3. RunningCached' \subseteq RunningCached
  BY DEF RunningCached
<1> QED
  BY <1>1, <1>2, <1>3, SlotsStay DEF HostInv

LEMMA CallKeeps ==
  ASSUME HostInv, NEW c \in Callers, NEW op \in Operations, NEW s \in Sessions, Call(c, op, s)
  PROVE  HostInv'
<1> DEFINE rec == [at |-> "identity", op |-> op, session |-> s, hub |-> None, late |-> FALSE]
<1>1. rec \in CallRecords
  BY DEF CallRecords, Places
<1>2. call[c].at = "idle" /\ call' = [call EXCEPT ![c] = rec]
      /\ UNCHANGED <<ready, inFlight, timers, home, phase, custody, command>>
  BY DEF Call, At
<1>3. CallsOK'
  BY <1>1, <1>2 DEF HostInv, Typed, CallsOK
<1>4. call'[c].at = "identity" /\ \A d \in Callers \ {c} : call'[d] = call[d]
  BY <1>2 DEF HostInv, Typed, CallsOK
<1>5. SlotsOK'
  BY <1>2, <1>4, CallSlotsStay DEF Launching, LaunchSteps, Cached
<1> QED
  BY <1>2, <1>3, <1>5 DEF HostInv, Typed, HubsOK, SessionsOK, TimersOwned, Cached

LEMMA FindHubKeeps ==
  ASSUME HostInv, NEW c \in Callers, FindHub(c)
  PROVE  HostInv'
<1> DEFINE h == ready[RepoOf[call[c].session]]
           place == IF h = None THEN "opening" ELSE "found"
<1>1. call[c].at = "identity" /\ call' = [call EXCEPT ![c] = [@ EXCEPT !.at = place, !.hub = h]]
      /\ UNCHANGED <<ready, inFlight, timers, home, phase, custody, command>>
  BY DEF FindHub, At, RepoOfCall
<1>2. h \in Hubs \cup {None}
  BY <1>1, HubHostAssumption DEF HostInv, Typed, CallsOK, HubsOK
<1>3. place \in Places
  BY DEF Places
<1> HIDE DEF h
<1>4. CallsOK' /\ call'[c].at = place /\ \A d \in Callers \ {c} : call'[d] = call[d]
  <2> HIDE DEF place
  <2> QED
    BY <1>1, <1>2, <1>3, CallFinds DEF HostInv, Typed
<1>5. SlotsOK'
  BY <1>1, <1>4, CallSlotsStay DEF Launching, LaunchSteps, Cached
<1> QED
  BY <1>1, <1>4, <1>5 DEF HostInv, Typed, HubsOK, SessionsOK, TimersOwned, Cached

LEMMA OpenHubKeeps ==
  ASSUME HostInv, NEW c \in Callers, OpenHub(c)
  PROVE  HostInv'
<1> USE DEF HostInv, Typed
<1>1. call[c].at = "opening" /\ UNCHANGED <<inFlight, home, phase, command>>
  BY DEF OpenHub, At
<1>2. SessionsOK'
  <2>1. custody' \in [Sessions -> Closed \cup {"none", "live"}]
    BY DEF OpenHub, Sweeps, SessionsOK, Closed
  <2> QED
    BY <1>1, <2>1 DEF SessionsOK
<1>3. ASSUME NEW h \in FreeHubs, KeepHub(c, h),
             call' = [call EXCEPT ![c] =
               [@ EXCEPT !.at = "found",
                         !.hub = IF ready[RepoOfCall(c)] = None THEN h ELSE ready[RepoOfCall(c)]]]
      PROVE  HostInv'
  <2> DEFINE g == IF ready[RepoOf[call[c].session]] = None THEN h ELSE ready[RepoOf[call[c].session]]
  <2>1. HubsOK' /\ Cached' \subseteq Cached \cup {h}
    BY <1>1, <1>3, HubKept
  <2>2. h \in Hubs /\ (\A s \in Sessions : home[s] # h) /\ (\A d \in Callers : call[d].hub # h)
    BY DEF FreeHubs
  <2>3. g \in Hubs \cup {None}
    BY <1>1, <2>2, HubHostAssumption DEF CallsOK, HubsOK
  <2>4. call' = [call EXCEPT ![c] = [@ EXCEPT !.at = "found", !.hub = g]]
    BY <1>3 DEF RepoOfCall
  <2>5. CallsOK' /\ call'[c].at = "found" /\ \A d \in Callers \ {c} : call'[d] = call[d]
    <3> HIDE DEF g
    <3> QED
      BY <1>1, <2>3, <2>4, CallFinds DEF Places
  <2>6. Launches' = Launches
    BY <1>1, <2>5 DEF Launches, Launching, LaunchSteps
  <2>7. LaunchesCached' \subseteq LaunchesCached
    BY <1>1, <2>1, <2>2, <2>5, <2>6 DEF LaunchesCached, Launches, Launching, LaunchSteps
  <2>8. RunningCached' \subseteq RunningCached
    BY <1>1, <2>1, <2>2 DEF RunningCached
  <2> QED
    BY <1>1, <1>2, <2>1, <2>5, <2>6, <2>7, <2>8, SlotsStay
<1>4. CASE Ends(c) /\ UNCHANGED <<ready, timers>>
  <2>1. CallsOK' /\ call'[c].at = "idle" /\ \A d \in Callers \ {c} : call'[d] = call[d]
    BY <1>4, CallEnds
  <2>2. SlotsOK'
    BY <1>1, <1>4, <2>1, CallSlotsStay DEF Launching, LaunchSteps, Cached
  <2> QED
    BY <1>2, <1>4, <2>1, <2>2 DEF HubsOK, TimersOwned, Cached
<1> QED
  BY <1>3, <1>4 DEF OpenHub

\* Steps that move their call and touch neither hubs nor slots nor what runs.
LEMMA MoveKeeps ==
  ASSUME HostInv, NEW c \in Callers, call[c].at # "idle", NEW place \in Places \ LaunchSteps,
         ~Launching(c), GoesTo(c, place), UNCHANGED <<ready, inFlight, timers, home>>,
         SessionsOK', \A s \in Sessions : phase'[s] \in Running => phase[s] \in Running
  PROVE  HostInv'
<1> USE DEF HostInv, Typed
<1>1. CallsOK' /\ call'[c].at = place /\ \A d \in Callers \ {c} : call'[d] = call[d]
  BY CallMoves
<1>2. SlotsOK'
  BY <1>1, CallSlotsStay DEF Launching, Cached
<1> QED
  BY <1>1, <1>2 DEF HubsOK, TimersOwned, Cached

\* Steps that end their call, which was not launching, and may retire its hub.
LEMMA EndKeeps ==
  ASSUME HostInv, NEW c \in Callers, ~Launching(c), Ends(c), UNCHANGED <<inFlight, home>>,
         HubsOK', Cached' \subseteq Cached,
         SessionsOK', \A s \in Sessions : phase'[s] \in Running => phase[s] \in Running
  PROVE  HostInv'
<1> USE DEF HostInv, Typed
<1>1. CallsOK' /\ call'[c].at = "idle" /\ \A d \in Callers \ {c} : call'[d] = call[d]
  BY CallEnds
<1>2. SlotsOK'
  BY <1>1, CallSlotsStay DEF Launching, LaunchSteps
<1> QED
  BY <1>1, <1>2

\* Steps that no call takes.
LEMMA SessionStepKeeps ==
  ASSUME HostInv, UNCHANGED <<ready, inFlight, timers, home, call>>,
         SessionsOK', \A s \in Sessions : phase'[s] \in Running => phase[s] \in Running
  PROVE  HostInv'
<1>1. Launches' = Launches /\ LaunchesCached' = LaunchesCached
  BY DEF Launches, LaunchesCached, Launching, Cached
<1>2. RunningCached' \subseteq RunningCached
  BY DEF RunningCached, Cached
<1>3. SlotsOK'
  BY <1>1, <1>2, SlotsStay DEF HostInv
<1> QED
  BY <1>3 DEF HostInv, Typed, CallsOK, HubsOK, TimersOwned, Cached

LEMMA ReadStatusKeeps ==
  ASSUME HostInv, NEW c \in Callers, ReadStatus(c)
  PROVE  HostInv'
<1>1. /\ call[c].at = "found" /\ GoesTo(c, "statused")
      /\ UNCHANGED <<ready, inFlight, timers, home, phase, custody, command>>
  BY DEF ReadStatus, At
<1>2. SessionsOK'
  BY <1>1 DEF HostInv, Typed, SessionsOK
<1>3. "statused" \in Places \ LaunchSteps /\ ~Launching(c)
  BY <1>1 DEF Places, LaunchSteps, Launching
<1> QED
  BY <1>1, <1>2, <1>3, MoveKeeps

LEMMA LaunchKeeps ==
  ASSUME HostInv, NEW c \in Callers, Launch(c)
  PROVE  HostInv'
<1> USE DEF HostInv, Typed
<1> DEFINE place == IF call[c].op = "start" THEN "selecting" ELSE "reopening"
<1>1. /\ call[c].at \in {"found", "statused"} /\ SlotIsFree /\ GoesTo(c, place)
      /\ inFlight' = inFlight + 1
      /\ UNCHANGED <<ready, timers, home, phase, custody, command>>
  BY DEF Launch, MayLaunch, At
<1>2. place \in Places /\ place \in LaunchSteps
  BY DEF Places, LaunchSteps
<1>3. CallsOK' /\ call'[c].at = place /\ \A d \in Callers \ {c} : call'[d] = call[d]
  <2> HIDE DEF place
  <2> QED
    BY <1>1, <1>2, CallMoves
<1>4. c \notin Launches /\ Launches' = Launches \cup {c}
  BY <1>1, <1>2, <1>3 DEF Launches, Launching, LaunchSteps
<1>5. RunningCached' \subseteq RunningCached
  BY <1>1 DEF RunningCached, Cached
<1>6. SlotsOK'
  BY <1>1, <1>4, <1>5, SlotTaken
<1> QED
  BY <1>1, <1>3, <1>6 DEF HubsOK, TimersOwned, Cached, SessionsOK

LEMMA RefuseLaunchKeeps ==
  ASSUME HostInv, NEW c \in Callers, RefuseLaunch(c)
  PROVE  HostInv'
<1>1. /\ call[c].at \in {"found", "statused"} /\ Ends(c)
      /\ UNCHANGED <<inFlight, home, phase, custody, command>>
  BY DEF RefuseLaunch, MayLaunch, At
<1>2. HubsOK' /\ Cached' \subseteq Cached
  <2>1. CASE UNCHANGED <<ready, timers>>
    BY <2>1 DEF HostInv, Typed, HubsOK, TimersOwned, Cached
  <2>2. CASE RetireIdle(call[c].hub, inFlight, Attached(call[c].hub))
    BY <2>2, HubRetires DEF HostInv, Typed
  <2> QED
    BY <2>1, <2>2 DEF RefuseLaunch
<1>3. SessionsOK'
  BY <1>1 DEF HostInv, Typed, SessionsOK
<1>4. ~Launching(c)
  BY <1>1 DEF Launching, LaunchSteps
<1> QED
  BY <1>1, <1>2, <1>3, <1>4, EndKeeps

LEMMA ProvisionKeeps ==
  ASSUME HostInv, NEW c \in Callers, Provision(c)
  PROVE  HostInv'
<1> USE DEF HostInv, Typed
<1> DEFINE s == call[c].session
<1>1. call[c].at = "selecting" /\ UNCHANGED <<home, command>> /\ s \in Sessions
  BY DEF Provision, At, CallsOK
<1>2. Launching(c)
  BY <1>1 DEF Launching, LaunchSteps
<1>3. CASE /\ custody' = [custody EXCEPT ![s] = "live"]
           /\ phase' = [phase EXCEPT ![s] = "launching"]
           /\ GoesTo(c, "providing") /\ UNCHANGED <<ready, inFlight, timers>>
  <2>1. /\ CallsOK' /\ call'[c].at = "providing" /\ call'[c].hub = call[c].hub
        /\ \A d \in Callers \ {c} : call'[d] = call[d]
    BY <1>1, <1>3, CallMoves DEF Places, LaunchSteps
  <2>2. \A t \in Sessions : phase'[t] \in Running => phase[t] \in Running
    BY <1>3 DEF SessionsOK, Running
  <2>3. SlotsOK'
    BY <1>1, <1>2, <1>3, <2>1, <2>2, CallSlotsStay DEF Cached, LaunchSteps
  <2>4. SessionsOK'
    BY <1>1, <1>3 DEF SessionsOK, Phases
  <2> QED
    BY <1>3, <2>1, <2>3, <2>4 DEF HubsOK, TimersOwned, Cached
<1>4. CASE EndLaunch(c, Attached(call[c].hub)) /\ UNCHANGED <<custody, phase>>
  <2>1. SessionsOK'
    BY <1>1, <1>4 DEF SessionsOK
  <2> QED
    BY <1>1, <1>2, <1>4, <2>1, EndLaunchKeeps
<1> QED
  BY <1>3, <1>4 DEF Provision

LEMMA ReopenKeeps ==
  ASSUME HostInv, NEW c \in Callers, Reopen(c)
  PROVE  HostInv'
<1> USE DEF HostInv, Typed
<1> DEFINE s == call[c].session
<1>1. call[c].at = "reopening" /\ UNCHANGED <<home, command>> /\ s \in Sessions
  BY DEF Reopen, At, CallsOK
<1>2. Launching(c)
  BY <1>1 DEF Launching, LaunchSteps
<1>3. CASE /\ custody' = [custody EXCEPT ![s] = "live"]
           /\ phase' = [phase EXCEPT ![s] = "launching"]
           /\ call' = Outrun([call EXCEPT ![c].at = "providing"], s)
           /\ UNCHANGED <<ready, inFlight, timers>>
  <2>1. /\ CallsOK'
        /\ \A d \in Callers :
             /\ call'[d].at = IF d = c THEN "providing" ELSE call[d].at
             /\ call'[d].hub = call[d].hub
    BY <1>1, <1>3, CallOutruns
  <2>2. Launches' = Launches
    BY <1>1, <2>1 DEF Launches, Launching, LaunchSteps
  <2>3. LaunchesCached' = LaunchesCached
    <3>1. Cached' = Cached
      BY <1>3 DEF Cached
    <3> QED
      BY <2>1, <2>2, <3>1, SlotsSets DEF LaunchesCached
  <2>4. \A t \in Sessions : phase'[t] \in Running => phase[t] \in Running
    BY <1>3 DEF SessionsOK, Running
  <2>5. RunningCached' \subseteq RunningCached
    BY <1>1, <1>3, <2>4 DEF RunningCached, Cached
  <2>6. SlotsOK'
    BY <1>3, <2>2, <2>3, <2>5, SlotsStay
  <2>7. SessionsOK'
    BY <1>1, <1>3 DEF SessionsOK, Phases
  <2> QED
    BY <1>3, <2>1, <2>6, <2>7 DEF HubsOK, TimersOwned, Cached
<1>4. CASE EndLaunch(c, Attached(call[c].hub)) /\ UNCHANGED <<custody, phase>>
  <2>1. SessionsOK'
    BY <1>1, <1>4 DEF SessionsOK
  <2> QED
    BY <1>1, <1>2, <1>4, <2>1, EndLaunchKeeps
<1> QED
  BY <1>3, <1>4 DEF Reopen

LEMMA AttachKeeps ==
  ASSUME HostInv, NEW c \in Callers, Attach(c)
  PROVE  HostInv'
<1> USE DEF HostInv, Typed
<1> DEFINE s == call[c].session
           h == call[c].hub
<1>1. /\ call[c].at = "providing" /\ s \in Sessions /\ h \in Hubs \cup {None}
      /\ home' = [home EXCEPT ![s] = h]
      /\ phase' = [phase EXCEPT ![s] = "attached"]
      /\ inFlight' = inFlight - 1 /\ Ends(c)
      /\ UNCHANGED <<ready, timers, custody, command>>
  BY DEF Attach, At, CallsOK, CallRecords
<1>2. CallsOK' /\ call'[c].at = "idle" /\ \A d \in Callers \ {c} : call'[d] = call[d]
  BY <1>1, CallEnds
<1>3. c \in Launches /\ Launches' = Launches \ {c}
  BY <1>1, <1>2 DEF Launches, Launching, LaunchSteps
<1>4. LaunchesCached' = LaunchesCached \ {c}
  BY <1>1, <1>2, <1>3 DEF LaunchesCached, Launches, Cached
<1>5. \A t \in Sessions \ {s} : home'[t] = home[t] /\ phase'[t] = phase[t]
  BY <1>1 DEF SessionsOK
<1>6. RunningCached' \subseteq RunningCached \cup {s}
  BY <1>1, <1>5 DEF RunningCached, Cached
<1>7. c \notin LaunchesCached => RunningCached' \subseteq RunningCached
  <2>1. SUFFICES ASSUME h \notin Cached PROVE RunningCached' \subseteq RunningCached
    BY <1>3 DEF LaunchesCached
  <2>2. home'[s] = h
    BY <1>1 DEF SessionsOK
  <2> QED
    BY <1>1, <1>5, <2>1, <2>2 DEF RunningCached, Cached
<1>8. SlotsOK'
  BY <1>1, <1>3, <1>4, <1>6, <1>7, SlotUsed
<1>9. SessionsOK'
  BY <1>1 DEF SessionsOK, Phases, Running
<1> QED
  BY <1>1, <1>2, <1>8, <1>9 DEF HubsOK, TimersOwned, Cached

LEMMA LaunchFailsKeeps ==
  ASSUME HostInv, NEW c \in Callers, LaunchFails(c)
  PROVE  HostInv'
<1> USE DEF HostInv, Typed
<1> DEFINE s == call[c].session
<1>1. /\ call[c].at = "providing" /\ s \in Sessions
      /\ phase' = [phase EXCEPT ![s] = "none"]
      /\ UNCHANGED <<home, custody, command>>
  BY DEF LaunchFails, At, CallsOK
<1>2. Launching(c)
  BY <1>1 DEF Launching, LaunchSteps
<1>3. SessionsOK' /\ \A t \in Sessions : phase'[t] \in Running => phase[t] \in Running
  BY <1>1 DEF SessionsOK, Phases, Running
<1>4. CASE GoesTo(c, "failing") /\ UNCHANGED <<ready, inFlight, timers>>
  <2>1. /\ CallsOK' /\ call'[c].at = "failing" /\ call'[c].hub = call[c].hub
        /\ \A d \in Callers \ {c} : call'[d] = call[d]
    BY <1>1, <1>4, CallMoves DEF Places, LaunchSteps
  <2>2. SlotsOK'
    BY <1>1, <1>2, <1>3, <1>4, <2>1, CallSlotsStay DEF Cached, LaunchSteps
  <2> QED
    BY <1>3, <1>4, <2>1, <2>2 DEF HubsOK, TimersOwned, Cached
<1>5. CASE EndLaunch(c, Attached(call[c].hub))
  BY <1>1, <1>2, <1>3, <1>5, EndLaunchKeeps
<1> QED
  BY <1>4, <1>5 DEF LaunchFails

\* What a closure makes of custody is one of its values.
LEMMA FinalizedTyped ==
  ASSUME SessionsOK, NEW c \in Callers
  PROVE  Finalized(c) \in [Sessions -> Closed \cup {"none", "live"}]
  BY DEF SessionsOK, Finalized, Closed

LEMMA FinalizeFailedLaunchKeeps ==
  ASSUME HostInv, NEW c \in Callers, FinalizeFailedLaunch(c)
  PROVE  HostInv'
<1>1. /\ call[c].at = "failing" /\ custody' \in {custody, Finalized(c)}
      /\ EndLaunch(c, Attached(call[c].hub)) /\ UNCHANGED <<home, phase, command>>
  BY DEF FinalizeFailedLaunch, At
<1>2. SessionsOK'
  BY <1>1, FinalizedTyped DEF HostInv, Typed, SessionsOK
<1>3. Launching(c)
  BY <1>1 DEF Launching, LaunchSteps
<1> QED
  BY <1>1, <1>2, <1>3, EndLaunchKeeps

LEMMA SubmitKeeps ==
  ASSUME HostInv, NEW c \in Callers, Submit(c)
  PROVE  HostInv'
<1>1. /\ call[c].at = "found" /\ Ends(c)
      /\ UNCHANGED <<ready, inFlight, timers, home, phase, custody>>
  BY DEF Submit, At
<1>2. SessionsOK'
  <2>1. CASE command' = [command EXCEPT ![call[c].session] = "running"]
    BY <1>1, <2>1 DEF HostInv, Typed, SessionsOK
  <2>2. CASE UNCHANGED command
    BY <1>1, <2>2 DEF HostInv, Typed, SessionsOK
  <2> QED
    BY <2>1, <2>2 DEF Submit
<1>3. HubsOK' /\ Cached' \subseteq Cached
  BY <1>1 DEF HostInv, Typed, HubsOK, TimersOwned, Cached
<1>4. ~Launching(c)
  BY <1>1 DEF Launching, LaunchSteps
<1> QED
  BY <1>1, <1>2, <1>3, <1>4, EndKeeps

\* A kernel that is through with a session runs one less.
LEMMA FinishTyped ==
  ASSUME SessionsOK, NEW s \in Sessions, Finish(s), UNCHANGED <<home, custody>>
  PROVE  SessionsOK' /\ \A t \in Sessions : phase'[t] \in Running => phase[t] \in Running
<1>1. phase' \in [Sessions -> Phases]
  BY DEF SessionsOK, Finish, Phases
<1>2. command' \in [Sessions -> {"none", "running", "settled", "refused"}]
  BY DEF SessionsOK, Finish
<1>3. \A t \in Sessions : phase'[t] \in Running => phase[t] \in Running
  BY DEF SessionsOK, Finish, Running
<1> QED
  BY <1>1, <1>2, <1>3 DEF SessionsOK

LEMMA BeginCloseKeeps ==
  ASSUME HostInv, NEW c \in Callers, BeginClose(c)
  PROVE  HostInv'
<1> USE DEF HostInv, Typed
<1> DEFINE s == call[c].session
           outrun == phase[s] = "launching"
           moved == [call[c] EXCEPT !.at = "stopping", !.late = outrun]
<1>1. /\ call[c].at = "found" /\ s \in Sessions
      /\ UNCHANGED <<ready, inFlight, timers, home, custody, command>>
  BY DEF BeginClose, At, CallsOK
<1>2. ~Launching(c)
  BY <1>1 DEF Launching, LaunchSteps
<1>3. CASE /\ phase' = [phase EXCEPT ![s] = IF @ = "attached" THEN "closing" ELSE @]
           /\ call' = [call EXCEPT ![c] = moved]
  <2>1. /\ moved \in CallRecords /\ moved.session = s /\ moved.at = "stopping"
    <3>1. outrun \in BOOLEAN
      OBVIOUS
    <3> HIDE DEF outrun
    <3> QED
      BY <3>1 DEF CallsOK, CallRecords, Places, CloseSteps
  <2>2. CallsOK' /\ call'[c].at = "stopping" /\ \A d \in Callers \ {c} : call'[d] = call[d]
    <3> HIDE DEF moved
    <3> QED
      BY <1>1, <1>3, <2>1 DEF CallsOK
  <2>3. SessionsOK' /\ \A t \in Sessions : phase'[t] \in Running => phase[t] \in Running
    <3>1. phase' = [phase EXCEPT ![s] = IF phase[s] = "attached" THEN "closing" ELSE phase[s]]
      BY <1>3
    <3>2. phase \in [Sessions -> Phases]
      BY DEF SessionsOK
    <3> HIDE DEF moved, outrun
    <3>3. phase' \in [Sessions -> Phases]
      BY <1>1, <3>1, <3>2 DEF Phases, Running
    <3>4. \A t \in Sessions : phase'[t] \in Running => phase[t] \in Running
      BY <1>1, <3>1, <3>2 DEF Running
    <3> QED
      BY <1>1, <3>3, <3>4 DEF SessionsOK
  <2>4. SlotsOK'
    <3> HIDE DEF moved
    <3>1. Launching(c) = (call'[c].at \in LaunchSteps)
      BY <1>1, <2>2 DEF Launching, LaunchSteps
    <3>2. Cached' \subseteq Cached
      BY <1>1 DEF Cached
    <3> QED
      BY <1>1, <1>2, <2>2, <2>3, <3>1, <3>2, CallSlotsStay
  <2> QED
    BY <1>1, <2>2, <2>3, <2>4 DEF HubsOK, TimersOwned, Cached
<1>4. CASE Ends(c) /\ UNCHANGED phase
  <2>1. SessionsOK'
    BY <1>1, <1>4 DEF SessionsOK
  <2>2. HubsOK' /\ Cached' \subseteq Cached
    BY <1>1 DEF HubsOK, TimersOwned, Cached
  <2> QED
    BY <1>1, <1>2, <1>4, <2>1, <2>2, EndKeeps
<1> QED
  BY <1>3, <1>4 DEF BeginClose

LEMMA CloseStoppedKeeps ==
  ASSUME HostInv, NEW c \in Callers, CloseStopped(c)
  PROVE  HostInv'
<1> USE DEF HostInv, Typed
<1>1. /\ call[c].at = "stopping" /\ call[c].session \in Sessions /\ GoesTo(c, "waiting")
      /\ UNCHANGED <<ready, inFlight, timers, home, custody>>
  BY DEF CloseStopped, At, CallsOK
<1>2. SessionsOK' /\ \A t \in Sessions : phase'[t] \in Running => phase[t] \in Running
  <2>1. CASE Finish(call[c].session)
    BY <1>1, <2>1, FinishTyped
  <2>2. CASE UNCHANGED <<phase, command>>
    BY <1>1, <2>2 DEF SessionsOK
  <2> QED
    BY <2>1, <2>2 DEF CloseStopped
<1>3. "waiting" \in Places \ LaunchSteps /\ ~Launching(c)
  BY <1>1 DEF Places, CloseSteps, LaunchSteps, Launching
<1> QED
  BY <1>1, <1>2, <1>3, MoveKeeps

LEMMA FinalizeClosureKeeps ==
  ASSUME HostInv, NEW c \in Callers, FinalizeClosure(c)
  PROVE  HostInv'
<1>1. /\ call[c].at = "waiting" /\ custody' = Finalized(c) /\ GoesTo(c, "finalized")
      /\ UNCHANGED <<ready, inFlight, timers, home, phase, command>>
  BY DEF FinalizeClosure, At
<1>2. SessionsOK'
  BY <1>1, FinalizedTyped DEF HostInv, Typed, SessionsOK
<1>3. "finalized" \in Places \ LaunchSteps /\ ~Launching(c)
  BY <1>1 DEF Places, CloseSteps, LaunchSteps, Launching
<1> QED
  BY <1>1, <1>2, <1>3, MoveKeeps

LEMMA EndCloseKeeps ==
  ASSUME HostInv, NEW c \in Callers, EndClose(c)
  PROVE  HostInv'
<1>1. /\ call[c].at = "finalized" /\ Ends(c)
      /\ RetireIdle(call[c].hub, inFlight, Attached(call[c].hub))
      /\ UNCHANGED <<inFlight, home, phase, custody, command>>
  BY DEF EndClose, At
<1>2. HubsOK' /\ Cached' \subseteq Cached
  BY <1>1, HubRetires DEF HostInv, Typed
<1>3. SessionsOK'
  BY <1>1 DEF HostInv, Typed, SessionsOK
<1>4. ~Launching(c)
  BY <1>1 DEF Launching, LaunchSteps
<1> QED
  BY <1>1, <1>2, <1>3, <1>4, EndKeeps

\* Turns, publications, crashes.
LEMMA SessionKeeps ==
  ASSUME HostInv, NEW s \in Sessions, TurnEnds(s) \/ Publish(s) \/ Crash(s)
  PROVE  HostInv'
<1>1. UNCHANGED <<ready, inFlight, timers, home, custody, call>>
  BY DEF TurnEnds, Publish, Crash
<1>2. SessionsOK' /\ \A t \in Sessions : phase'[t] \in Running => phase[t] \in Running
  <2>1. CASE TurnEnds(s)
    BY <1>1, <2>1 DEF TurnEnds, HostInv, Typed, SessionsOK
  <2>2. CASE Publish(s)
    BY <1>1, <2>2 DEF Publish, HostInv, Typed, SessionsOK
  <2>3. CASE Crash(s)
    BY <1>1, <2>3, FinishTyped DEF Crash, HostInv, Typed
  <2> QED
    BY <2>1, <2>2, <2>3
<1> QED
  BY <1>1, <1>2, SessionStepKeeps

LEMMA TimerSweepKeeps ==
  ASSUME HostInv, TimerSweep
  PROVE  HostInv'
<1>1. UNCHANGED <<ready, inFlight, timers, home, phase, command, call>>
  BY DEF TimerSweep
<1>2. SessionsOK'
  BY <1>1 DEF TimerSweep, Sweeps, HostInv, Typed, SessionsOK, Closed
<1> QED
  BY <1>1, <1>2, SessionStepKeeps

-----------------------------------------------------------------------------
LEMMA HostInvInit == HubInit => HostInv
<1> SUFFICES ASSUME HubInit PROVE HostInv
  OBVIOUS
<1>1. CallsOK
  BY DEF HubInit, CallsOK, CallRecords, Idle, Places, Operations
<1>2. Cached = {}
  BY DEF HubInit, Cached
<1>3. HubsOK
  BY DEF HubInit, HubsOK, TimersOwned
<1>4. SessionsOK
  BY DEF HubInit, SessionsOK, Phases
<1>5. Launches = {} /\ LaunchesCached = {}
  BY DEF HubInit, Launches, LaunchesCached, Launching, LaunchSteps, Idle
<1>6. RunningCached = {}
  BY <1>2 DEF RunningCached
<1>7. inFlight = 0
  BY DEF HubInit
<1>8. SlotsOK
  BY <1>5, <1>6, <1>7, FS_EmptySet, HubHostAssumption DEF SlotsOK
<1> QED
  BY <1>1, <1>3, <1>4, <1>8 DEF HostInv, Typed

LEMMA HostInvNext == HostInv /\ [HubNext]_hubVars => HostInv'
<1> SUFFICES ASSUME HostInv, [HubNext]_hubVars PROVE HostInv'
  OBVIOUS
<1>1. CASE \E c \in Callers, op \in Operations, s \in Sessions : Call(c, op, s)
  BY <1>1, CallKeeps
<1>2. ASSUME NEW c \in Callers, CallerStep(c)
      PROVE  HostInv'
  BY <1>2, FindHubKeeps, OpenHubKeeps, ReadStatusKeeps, LaunchKeeps, RefuseLaunchKeeps,
     ProvisionKeeps, ReopenKeeps, AttachKeeps, LaunchFailsKeeps, FinalizeFailedLaunchKeeps,
     SubmitKeeps, BeginCloseKeeps, CloseStoppedKeeps, FinalizeClosureKeeps, EndCloseKeeps
     DEF CallerStep
<1>3. CASE \E s \in Sessions : TurnEnds(s) \/ Publish(s) \/ Crash(s)
  BY <1>3, SessionKeeps
<1>4. CASE TimerSweep
  BY <1>4, TimerSweepKeeps
<1>5. CASE UNCHANGED hubVars
  <2>1. SessionsOK'
    BY <1>5 DEF hubVars, HostInv, Typed, SessionsOK
  <2> QED
    BY <1>5, <2>1, SessionStepKeeps DEF hubVars
<1> QED
  BY <1>1, <1>2, <1>3, <1>4, <1>5 DEF HubNext

LEMMA HostInvImplies == HostInv => QuotaKept /\ TimersOwned
<1> SUFFICES ASSUME HostInv PROVE QuotaKept /\ TimersOwned
  OBVIOUS
<1>1. timers \subseteq Hubs /\ TimersOwned
  BY DEF HostInv, Typed, HubsOK, TimersOwned, Cached
<1>2. inFlight \in 0..Cardinality(Callers)
  <2>1. Cardinality(Launches) <= Cardinality(Callers)
    BY SlotsSets, SmallerSets
  <2>2. Cardinality(Launches) \in Nat /\ Cardinality(Callers) \in Nat
    BY SlotsSets, SlotSetsFinite
  <2> QED
    BY <2>1, <2>2 DEF HostInv, SlotsOK
<1>3. HubTypeOK
  BY <1>1, <1>2 DEF HostInv, Typed, HubsOK, SessionsOK, CallsOK, CallRecords, HubTypeOK
<1> QED
  BY <1>1, <1>3, ActiveCountIs DEF HostInv, SlotsOK, QuotaKept, LaunchesCached

\* Every way out of a launch gives its slot back, once, and what the cached hubs
\* run and launch stays within the process's quota (AgentHubSupervisor.launch).
THEOREM QuotaIsKept == HubSpec => []QuotaKept
  BY HostInvInit, HostInvNext, HostInvImplies, PTL DEF HubSpec

\* A hub that was retired, or lost the race to be cached, sweeps no more
\* (AgentHubSupervisor.hubFor, retireIdle).
THEOREM SweepsAreOwned == HubSpec => []TimersOwned
  BY HostInvInit, HostInvNext, HostInvImplies, PTL DEF HubSpec

-----------------------------------------------------------------------------
(* A command that was accepted is refused by custody only when a sweep or  *)
(* the end of an earlier life closed it.                                   *)

Open == {"live", "swept", "overrun"}

\* A session that a kernel knows, or whose command is to be published, was not
\* closed by its own close.
SessionOpen(s) ==
  phase[s] # "none" \/ command[s] \in Unpublished => custody[s] \in Open

\* A start that is not provisioned yet.
Early == {"identity", "opening", "found", "statused"}
Starting(c) == call[c].at = "selecting" \/ (call[c].at \in Early /\ call[c].op = "start")

\* A start has its session for itself until it is provisioned; and what ends a
\* session that no new life outran finds no kernel that knows it.
CallStage(c) ==
  LET s == call[c].session IN
  /\ Starting(c) =>
       custody[s] = "none" /\ \A d \in Callers \ {c} : call[d].session # s
  /\ call[c].at = "providing" =>
       /\ phase[s] = "launching"
       /\ \A d \in Callers \ {c} : call[d].at = "providing" => call[d].session # s
       /\ call[c].op = "start" => command[s] \notin Unpublished
  /\ call[c].at = "failing" /\ ~call[c].late => phase[s] = "none" /\ command[s] \notin Unpublished
  /\ call[c].at = "waiting" /\ ~call[c].late => phase[s] = "none"
  /\ call[c].at = "stopping" /\ ~call[c].late => phase[s] \in {"closing", "none"}

CommandInv ==
  /\ \A s \in Sessions : SessionOpen(s)
  /\ \A c \in Callers : CallStage(c)

\* What reopens custody is a resume.
ResumeInv == \A c \in Callers : call[c].at \in {"statused", "reopening"} => call[c].op = "resume"

\* The calls of which CallStage says something.
Bound(c) ==
  \/ Starting(c)
  \/ call[c].at = "providing"
  \/ call[c].at \in {"failing", "waiting", "stopping"} /\ ~call[c].late

-----------------------------------------------------------------------------
(* Calls that a step leaves alone.                                         *)

\* Of the other calls CallStage says nothing.
LEMMA FreeStage ==
  ASSUME NEW c \in Callers, ~Bound(c)
  PROVE  CallStage(c)
  BY DEF Bound, CallStage, Starting, Early

\* Nor does it after a step.
LEMMA FreeStageNext ==
  ASSUME NEW c \in Callers, ~Bound(c)'
  PROVE  CallStage(c)'
  BY DEF Bound, CallStage, Starting, Early

\* A session that is attached has no call that ends or starts it.
LEMMA WhenAttached ==
  ASSUME CommandInv, NEW d \in Callers, call[d].session \in Sessions,
         phase[call[d].session] = "attached"
  PROVE  ~Bound(d)
<1>1. CallStage(d) /\ SessionOpen(call[d].session)
  BY DEF CommandInv
<1> QED
  BY <1>1 DEF Bound, CallStage, SessionOpen, Open, Starting, Early

\* A session that is launched has one call that starts it.
LEMMA WhenLaunching ==
  ASSUME CommandInv, NEW c \in Callers, NEW d \in Callers \ {c}, call[c].at = "providing",
         call[c].session \in Sessions, call[d].session = call[c].session
  PROVE  ~Bound(d)
<1>1. CallStage(c) /\ CallStage(d) /\ SessionOpen(call[d].session)
  BY DEF CommandInv
<1> QED
  BY <1>1 DEF Bound, CallStage, SessionOpen, Open, Starting, Early

\* A step that leaves a call and what it relies on alone keeps its stage.
LEMMA StageKept ==
  ASSUME NEW d \in Callers, CallStage(d), call'[d] = call[d],
         NEW s, s = call[d].session, s \in Sessions \/ call[d].at = "idle",
         custody[s] = "none" => custody'[s] = "none",
         phase'[s] = phase[s],
         command'[s] \in Unpublished => command[s] \in Unpublished,
         \A e \in Callers \ {d} :
           /\ call[e].session # s => call'[e].session # s
           /\ call'[e].at = "providing" /\ call'[e].session = s =>
                call[e].at = "providing" /\ call[e].session = s
  PROVE  CallStage(d)'
<1>1. CASE call[d].at = "idle"
  <2>1. ~Bound(d)'
    BY <1>1 DEF Bound, Starting, Early
  <2> QED
    BY <2>1, FreeStageNext
<1>2. CASE s \in Sessions
  BY <1>2 DEF CallStage, Starting
<1> QED
  BY <1>1, <1>2

\* What a step of one call leaves to the others.
Others(c) == \A d \in Callers \ {c} : call'[d] = call[d]

\* A step of a call within its session, that neither tells a kernel anything nor
\* provisions: what custody becomes is open, or nothing is left to publish.
LEMMA QuietStep ==
  ASSUME CommandInv, CallsOK, NEW c \in Callers, Others(c), CallStage(c)',
         call'[c].session = call[c].session \/ call'[c].session \notin Sessions,
         call'[c].at # "providing", UNCHANGED <<phase, command>>,
         \A s \in Sessions : custody[s] = "none" => custody'[s] = "none",
         \A s \in Sessions : SessionOpen(s)'
  PROVE  CommandInv'
<1> SUFFICES ASSUME NEW d \in Callers \ {c} PROVE CallStage(d)'
  BY DEF CommandInv
<1>1. CallStage(d) /\ call'[d] = call[d]
  BY DEF CommandInv, Others
<1>2. CASE call[d].at = "idle"
  <2>1. ~Bound(d)'
    BY <1>1, <1>2 DEF Bound, Starting, Early
  <2> QED
    BY <2>1, FreeStageNext
<1>3. CASE call[d].at # "idle"
  <2>1. call[d].session \in Sessions
    BY <1>3 DEF CallsOK
  <2> QED
    BY <1>1, <2>1, StageKept DEF Others
<1> QED
  BY <1>2, <1>3

-----------------------------------------------------------------------------
(* What an action does to its call, and to custody.                        *)

\* A call that goes on keeps its session and its operation.
LEMMA MovesOn ==
  ASSUME CallsOK, NEW c \in Callers, NEW place, GoesTo(c, place)
  PROVE  /\ Others(c) /\ call'[c].at = place /\ call'[c].session = call[c].session
         /\ call'[c].op = call[c].op /\ call'[c].late = call[c].late
  BY DEF GoesTo, Others, CallsOK, CallRecords

\* A call that ends has none.
LEMMA EndsFree ==
  ASSUME CallsOK, NEW c \in Callers, Ends(c)
  PROVE  /\ Others(c) /\ call'[c].at = "idle" /\ call'[c].session \notin Sessions
         /\ CallStage(c)'
<1>1. Others(c) /\ call'[c] = Idle
  BY DEF Ends, Others, CallsOK
<1>2. call'[c].at = "idle" /\ call'[c].session \notin Sessions
  BY <1>1, HubHostAssumption DEF Idle
<1>3. ~Bound(c)'
  BY <1>2 DEF Bound, Starting, Early
<1> QED
  BY <1>1, <1>2, <1>3, FreeStageNext

\* A call that finds its hub.
LEMMA FindsHub ==
  ASSUME CallsOK, NEW c \in Callers, NEW place, NEW h,
         call' = [call EXCEPT ![c] = [@ EXCEPT !.at = place, !.hub = h]]
  PROVE  /\ Others(c) /\ call'[c].at = place /\ call'[c].session = call[c].session
         /\ call'[c].op = call[c].op /\ call'[c].late = call[c].late
  BY DEF Others, CallsOK, CallRecords

\* A sweep leaves custody open in this sense.
LEMMA SweepsOpen ==
  ASSUME CommandInv, SessionsOK, Sweeps, UNCHANGED <<phase, command>>
  PROVE  /\ \A s \in Sessions : custody[s] = "none" => custody'[s] = "none"
         /\ \A s \in Sessions : SessionOpen(s)'
<1>1. PICK ss \in SUBSET Sweepable :
        custody' = [s \in Sessions |-> IF s \in ss THEN "swept" ELSE custody[s]]
  BY DEF Sweeps
<1>2. \A s \in ss : custody[s] = "live"
  BY DEF Sweepable
<1> QED
  BY <1>1, <1>2 DEF CommandInv, SessionOpen, Open

\* What is closed by its own close is over, and has nothing left to publish.
LEMMA FinalizedOpen ==
  ASSUME CommandInv, SessionsOK, NEW c \in Callers, call[c].session \in Sessions,
         custody' \in {custody, Finalized(c)}, UNCHANGED <<phase, command>>,
         ~call[c].late => /\ phase[call[c].session] = "none"
                          /\ command[call[c].session] \notin Unpublished
  PROVE  /\ \A s \in Sessions : custody[s] = "none" => custody'[s] = "none"
         /\ \A s \in Sessions : SessionOpen(s)'
<1>1. CASE custody' = custody
  BY <1>1 DEF CommandInv, SessionOpen
<1>2. CASE custody' = Finalized(c)
  BY <1>2 DEF CommandInv, SessionOpen, SessionsOK, Finalized, Open
<1> QED
  BY <1>1, <1>2

\* Custody as it was is as open as it was.
LEMMA SameOpen ==
  ASSUME CommandInv, UNCHANGED <<phase, command, custody>>
  PROVE  /\ \A s \in Sessions : custody[s] = "none" => custody'[s] = "none"
         /\ \A s \in Sessions : SessionOpen(s)'
  BY DEF CommandInv, SessionOpen

-----------------------------------------------------------------------------
(* The steps that tell a kernel nothing.                                   *)

\* A call that ends without more.
LEMMA EndStep ==
  ASSUME CommandInv, CallsOK, NEW c \in Callers, Ends(c), UNCHANGED <<phase, command>>,
         \A s \in Sessions : custody[s] = "none" => custody'[s] = "none",
         \A s \in Sessions : SessionOpen(s)'
  PROVE  CommandInv'
  BY EndsFree, QuietStep

\* A call that goes on, to a place of which the early stage is all there is to say.
LEMMA GoOnStep ==
  ASSUME CommandInv, CallsOK, NEW c \in Callers, call[c].at # "idle", Others(c),
         call'[c].session = call[c].session, call'[c].op = call[c].op,
         call'[c].at \in Early \cup {"selecting", "reopening", "finalized"},
         Starting(c)' => Starting(c),
         UNCHANGED <<phase, command>>,
         \A s \in Sessions : custody[s] = "none" => custody'[s] = "none",
         \A s \in Sessions : SessionOpen(s)'
  PROVE  CommandInv'
<1>1. CallStage(c) /\ call[c].session \in Sessions
  BY DEF CommandInv, CallsOK
<1>2. CallStage(c)'
  BY <1>1 DEF CallStage, Starting, Early, Others
<1> QED
  BY <1>2, QuietStep DEF Starting, Early

\* A new call: a start of a session that no other call has.
LEMMA CallCommands ==
  ASSUME HostInv, CommandInv, NEW c \in Callers, NEW op \in Operations, NEW s \in Sessions,
         Call(c, op, s)
  PROVE  CommandInv'
<1>1. CallsOK
  BY DEF HostInv, Typed
<1>2. /\ Others(c) /\ call'[c].at = "identity" /\ call'[c].session = s /\ call'[c].op = op
      /\ UNCHANGED <<phase, command, custody>>
  BY <1>1 DEF Call, Others, CallsOK
<1>3. /\ op = "start" => custody[s] = "none" /\ \A d \in Callers : call[d].session # s
      /\ op # "start" => custody[s] # "none"
  BY DEF Call
<1>4. CallStage(c)'
  BY <1>2, <1>3 DEF CallStage, Starting, Early, Others
<1>5. ASSUME NEW d \in Callers \ {c}
      PROVE  CallStage(d)'
  <2>1. call'[d] = call[d] /\ CallStage(d)
    BY <1>2 DEF Others, CommandInv
  <2> QED
    BY <1>1, <1>2, <1>3, <2>1 DEF CallStage, Starting, Early, Others, CallsOK
<1> QED
  BY <1>2, <1>4, <1>5, SameOpen DEF CommandInv

\* The steps of a call up to its launch, and its refusal.
LEMMA EarlyCommands ==
  ASSUME HostInv, CommandInv, NEW c \in Callers,
         FindHub(c) \/ OpenHub(c) \/ ReadStatus(c) \/ Launch(c) \/ RefuseLaunch(c)
  PROVE  CommandInv'
<1>1. CallsOK /\ SessionsOK
  BY DEF HostInv, Typed
<1>2. CASE FindHub(c)
  <2> DEFINE place == IF ready[RepoOfCall(c)] = None THEN "opening" ELSE "found"
             h == ready[RepoOfCall(c)]
  <2>1. /\ call[c].at = "identity" /\ UNCHANGED <<phase, command, custody>>
        /\ call' = [call EXCEPT ![c] = [@ EXCEPT !.at = place, !.hub = h]]
    BY <1>2 DEF FindHub, At
  <2>2. place \in {"opening", "found"}
    OBVIOUS
  <2> HIDE DEF place, h
  <2> QED
    BY <1>1, <2>1, <2>2, FindsHub, SameOpen, GoOnStep DEF Starting, Early
<1>3. CASE OpenHub(c)
  <2>1. call[c].at = "opening" /\ Sweeps /\ UNCHANGED <<phase, command>>
    BY <1>3 DEF OpenHub, At
  <2>2. CASE Ends(c)
    BY <1>1, <2>1, <2>2, SweepsOpen, EndStep
  <2>3. ASSUME NEW h \in FreeHubs, KeepHub(c, h),
               call' = [call EXCEPT ![c] =
                 [@ EXCEPT !.at = "found",
                           !.hub = IF ready[RepoOfCall(c)] = None THEN h ELSE ready[RepoOfCall(c)]]]
        PROVE  CommandInv'
    <3> DEFINE hub == IF ready[RepoOfCall(c)] = None THEN h ELSE ready[RepoOfCall(c)]
    <3>1. call' = [call EXCEPT ![c] = [@ EXCEPT !.at = "found", !.hub = hub]]
      BY <2>3
    <3> HIDE DEF hub
    <3>2. /\ Others(c) /\ call'[c].at = "found" /\ call'[c].session = call[c].session
          /\ call'[c].op = call[c].op
      BY <1>1, <3>1, FindsHub
    <3>3. Starting(c)' => Starting(c)
      BY <2>1, <3>2 DEF Starting, Early
    <3> QED
      BY <1>1, <2>1, <3>2, <3>3, SweepsOpen, GoOnStep DEF Early
  <2> QED
    BY <1>3, <2>2, <2>3 DEF OpenHub
<1>4. CASE ReadStatus(c)
  <2>1. call[c].at = "found" /\ GoesTo(c, "statused") /\ UNCHANGED <<phase, command, custody>>
    BY <1>4 DEF ReadStatus, At
  <2> QED
    BY <1>1, <2>1, MovesOn, SameOpen, GoOnStep DEF Starting, Early
<1>5. CASE Launch(c)
  <2>1. /\ call[c].at \in {"found", "statused"} /\ UNCHANGED <<phase, command, custody>>
        /\ GoesTo(c, IF call[c].op = "start" THEN "selecting" ELSE "reopening")
    BY <1>5 DEF Launch, MayLaunch, At
  <2> QED
    BY <1>1, <2>1, MovesOn, SameOpen, GoOnStep DEF Starting, Early
<1>6. CASE RefuseLaunch(c)
  BY <1>1, <1>6, SameOpen, EndStep DEF RefuseLaunch
<1> QED
  BY <1>2, <1>3, <1>4, <1>5, <1>6

-----------------------------------------------------------------------------
(* The steps that change what is known of a session.                       *)

\* Only the calls of the session have to be looked at.
LEMMA SessionStep ==
  ASSUME CommandInv, CallsOK, NEW s \in Sessions,
         \A t \in Sessions \ {s} :
           phase'[t] = phase[t] /\ command'[t] = command[t] /\ custody'[t] = custody[t],
         SessionOpen(s)',
         \A d \in Callers : call[d].session # s => call'[d] = call[d],
         \A d \in Callers : call[d].session = s =>
           CallStage(d)' /\ (call'[d].session = s \/ call'[d].session \notin Sessions)
  PROVE  CommandInv'
<1>1. \A t \in Sessions : SessionOpen(t)'
  BY DEF CommandInv, SessionOpen
<1>2. ASSUME NEW d \in Callers, call[d].session # s
      PROVE  CallStage(d)'
  <2>1. CallStage(d) /\ call'[d] = call[d]
    BY <1>2 DEF CommandInv
  <2>2. CASE call[d].at = "idle"
    <3>1. ~Bound(d)'
      BY <2>1, <2>2 DEF Bound, Starting, Early
    <3> QED
      BY <3>1, FreeStageNext
  <2>3. CASE call[d].at # "idle"
    <3>1. call[d].session \in Sessions \ {s}
      BY <1>2, <2>3 DEF CallsOK
    <3>2. \A e \in Callers \ {d} :
            /\ call[e].session # call[d].session => call'[e].session # call[d].session
            /\ call'[e].at = "providing" /\ call'[e].session = call[d].session =>
                 call[e].at = "providing" /\ call[e].session = call[d].session
      BY <3>1
    <3> QED
      BY <2>1, <3>1, <3>2, StageKept
  <2> QED
    BY <2>2, <2>3
<1> QED
  BY <1>1, <1>2 DEF CommandInv

\* A call that nothing binds is not bound by a step that leaves it alone.
LEMMA StaysFree ==
  ASSUME NEW d \in Callers, ~Bound(d), call'[d] = call[d]
  PROVE  CallStage(d)'
<1>1. ~Bound(d)'
  BY DEF Bound, Starting
<1> QED
  BY <1>1, FreeStageNext

\* A start that provisions has its session for itself.
LEMMA ProvisionCommands ==
  ASSUME HostInv, CommandInv, NEW c \in Callers, Provision(c)
  PROVE  CommandInv'
<1>1. /\ CallsOK /\ SessionsOK /\ call[c].at = "selecting" /\ CallStage(c) /\ UNCHANGED command
  BY DEF HostInv, Typed, Provision, At, CommandInv
<1> PICK s \in Sessions : s = call[c].session
  BY <1>1 DEF CallsOK
<1>4. SessionOpen(s)
  BY DEF CommandInv
<1>2. CASE EndLaunch(c, Attached(call[c].hub)) /\ UNCHANGED <<custody, phase>>
  BY <1>1, <1>2, SameOpen, EndStep DEF EndLaunch
<1>3. CASE /\ custody' = [custody EXCEPT ![s] = "live"]
           /\ phase' = [phase EXCEPT ![s] = "launching"]
           /\ GoesTo(c, "providing")
  <2>1. /\ custody'[s] = "live" /\ phase'[s] = "launching"
        /\ \A t \in Sessions \ {s} : phase'[t] = phase[t] /\ custody'[t] = custody[t]
    BY <1>1, <1>3 DEF SessionsOK
  <2>2. /\ Others(c) /\ call'[c].at = "providing" /\ call'[c].session = s
        /\ call'[c].op = call[c].op
    BY <1>1, <1>3, MovesOn
  <2>3. \A d \in Callers \ {c} : call[d].session # s
    BY <1>1 DEF CallStage, Starting
  <2>4. CallStage(c)'
    <3>1. custody[s] = "none"
      BY <1>1 DEF CallStage, Starting
    <3>2. command'[s] \notin Unpublished
      BY <1>1, <1>4, <3>1 DEF SessionOpen, Open
    <3>3. \A d \in Callers \ {c} : call'[d].session # s
      BY <2>2, <2>3 DEF Others
    <3> QED
      BY <2>1, <2>2, <3>2, <3>3 DEF CallStage, Starting, Early
  <2>5. SessionOpen(s)'
    BY <2>1 DEF SessionOpen, Open
  <2>6. \A d \in Callers : call[d].session # s => call'[d] = call[d]
    BY <2>2 DEF Others
  <2>7. \A d \in Callers : call[d].session = s =>
          CallStage(d)' /\ (call'[d].session = s \/ call'[d].session \notin Sessions)
    BY <2>2, <2>3, <2>4
  <2>8. \A t \in Sessions \ {s} :
          phase'[t] = phase[t] /\ command'[t] = command[t] /\ custody'[t] = custody[t]
    BY <1>1, <2>1
  <2> QED
    BY <1>1, <2>5, <2>6, <2>7, <2>8, SessionStep
<1> QED
  BY <1>2, <1>3 DEF Provision

\* What a resume does to the calls: those that end the earlier life are late.
LEMMA OutrunCalls ==
  ASSUME CallsOK, NEW c \in Callers, NEW s, s = call[c].session, call[c].at = "reopening",
         call' = Outrun([call EXCEPT ![c].at = "providing"], s)
  PROVE  /\ call'[c].at = "providing" /\ call'[c].session = s /\ call'[c].op = call[c].op
         /\ \A d \in Callers \ {c} :
              IF call[d].session = s /\ call[d].at \in {"stopping", "waiting", "failing"}
              THEN /\ call'[d].at = call[d].at /\ call'[d].session = s /\ call'[d].late = TRUE
              ELSE call'[d] = call[d]
<1> DEFINE moved == [call[c] EXCEPT !.at = "providing"]
           calls == [call EXCEPT ![c] = moved]
<1>1. /\ moved.session = s /\ moved.at = "providing" /\ moved.op = call[c].op
  BY DEF CallsOK, CallRecords
<1>2. \A d \in Callers : calls[d] = IF d = c THEN moved ELSE call[d]
  BY DEF CallsOK
<1>3. call' = [d \in Callers |->
                IF calls[d].session = s /\ calls[d].at \in {"stopping", "waiting", "failing"}
                THEN [calls[d] EXCEPT !.late = TRUE] ELSE calls[d]]
  BY DEF Outrun
<1> HIDE DEF calls, moved
<1>4. call'[c] = moved
  BY <1>1, <1>2, <1>3
<1>5. ASSUME NEW d \in Callers \ {c}
      PROVE  IF call[d].session = s /\ call[d].at \in {"stopping", "waiting", "failing"}
             THEN /\ call'[d].at = call[d].at /\ call'[d].session = s /\ call'[d].late = TRUE
             ELSE call'[d] = call[d]
  <2>1. call'[d] = IF call[d].session = s /\ call[d].at \in {"stopping", "waiting", "failing"}
                   THEN [call[d] EXCEPT !.late = TRUE] ELSE call[d]
    BY <1>2, <1>3
  <2>2. call[d] \in CallRecords
    BY DEF CallsOK
  <2> QED
    BY <2>1, <2>2 DEF CallRecords
<1> QED
  BY <1>1, <1>4, <1>5

\* A resume outruns every call that ends the earlier life.
LEMMA ReopenCommands ==
  ASSUME HostInv, ResumeInv, CommandInv, NEW c \in Callers, Reopen(c)
  PROVE  CommandInv'
<1>1. /\ CallsOK /\ SessionsOK /\ call[c].at = "reopening" /\ UNCHANGED command
  BY DEF HostInv, Typed, Reopen, At
<1> PICK s \in Sessions : s = call[c].session
  BY <1>1 DEF CallsOK
<1>2. CASE EndLaunch(c, Attached(call[c].hub)) /\ UNCHANGED <<custody, phase>>
  BY <1>1, <1>2, SameOpen, EndStep DEF EndLaunch
<1>3. CASE /\ custody[s] \in Closed /\ phase[s] = "none"
           /\ custody' = [custody EXCEPT ![s] = "live"]
           /\ phase' = [phase EXCEPT ![s] = "launching"]
           /\ call' = Outrun([call EXCEPT ![c].at = "providing"], s)
  <2>1. /\ custody'[s] = "live" /\ phase'[s] = "launching"
        /\ \A t \in Sessions \ {s} :
             phase'[t] = phase[t] /\ command'[t] = command[t] /\ custody'[t] = custody[t]
    BY <1>1, <1>3 DEF SessionsOK
  <2>2. /\ call'[c].at = "providing" /\ call'[c].session = s /\ call'[c].op = call[c].op
        /\ \A d \in Callers \ {c} :
             IF call[d].session = s /\ call[d].at \in {"stopping", "waiting", "failing"}
             THEN /\ call'[d].at = call[d].at /\ call'[d].session = s /\ call'[d].late = TRUE
             ELSE call'[d] = call[d]
    BY <1>1, <1>3, OutrunCalls
  <2>3. SessionOpen(s)'
    BY <2>1 DEF SessionOpen, Open
  <2>4. ASSUME NEW d \in Callers \ {c}, call[d].session = s
        PROVE  ~Bound(d)' /\ call'[d].session = s
    <3>1. CallStage(d)
      BY DEF CommandInv
    <3>2. ~Starting(d) /\ call[d].at # "providing"
      BY <1>3, <2>4, <3>1 DEF CallStage, Closed
    <3> QED
      BY <2>2, <2>4, <3>2 DEF Bound, Starting, Early
  <2>5. CallStage(c)'
    <3>1. \A d \in Callers \ {c} : call'[d].at = "providing" => call'[d].session # s
      BY <2>2, <2>4 DEF Bound
    <3>2. call[c].op # "start"
      BY <1>1 DEF ResumeInv
    <3> QED
      BY <2>1, <2>2, <3>1, <3>2 DEF CallStage, Starting, Early
  <2>6. \A d \in Callers : call[d].session # s => call'[d] = call[d]
    BY <2>2
  <2>7. \A d \in Callers : call[d].session = s =>
          CallStage(d)' /\ (call'[d].session = s \/ call'[d].session \notin Sessions)
    BY <2>2, <2>4, <2>5, FreeStageNext
  <2> QED
    BY <1>1, <2>1, <2>3, <2>6, <2>7, SessionStep
<1> QED
  BY <1>2, <1>3 DEF Reopen

\* A launch ends, with its session attached or not: only this launch knew it.
LEMMA AttachCommands ==
  ASSUME HostInv, CommandInv, NEW c \in Callers, Attach(c) \/ LaunchFails(c)
  PROVE  CommandInv'
<1>1. /\ CallsOK /\ SessionsOK /\ call[c].at = "providing" /\ CallStage(c)
      /\ UNCHANGED <<custody, command>>
  BY DEF HostInv, Typed, Attach, LaunchFails, At, CommandInv
<1> PICK s \in Sessions : s = call[c].session
  BY <1>1 DEF CallsOK
<1>2. phase[s] = "launching" /\ custody[s] \in Open
  BY <1>1 DEF CallStage, CommandInv, SessionOpen
<1>3. \E k \in {"attached", "none"} : phase' = [phase EXCEPT ![s] = k]
  BY DEF Attach, LaunchFails
<1>4. \A t \in Sessions \ {s} :
        phase'[t] = phase[t] /\ command'[t] = command[t] /\ custody'[t] = custody[t]
  BY <1>1, <1>3 DEF SessionsOK
<1>5. SessionOpen(s)'
  BY <1>1, <1>2 DEF SessionOpen
<1>6. Others(c) /\ CallStage(c)' /\ (call'[c].session = s \/ call'[c].session \notin Sessions)
  <2>1. CASE Ends(c)
    BY <1>1, <2>1, EndsFree
  <2>2. CASE LaunchFails(c) /\ call[c].op = "start" /\ GoesTo(c, "failing")
    <3>1. /\ Others(c) /\ call'[c].at = "failing" /\ call'[c].session = s
      BY <1>1, <2>2, MovesOn
    <3>2. phase'[s] = "none" /\ command'[s] \notin Unpublished
      BY <1>1, <2>2 DEF LaunchFails, CallStage, SessionsOK
    <3> QED
      BY <3>1, <3>2 DEF CallStage, Starting, Early
  <2> QED
    BY <2>1, <2>2 DEF Attach, LaunchFails, EndLaunch
<1>7. \A d \in Callers \ {c} : call[d].session = s => CallStage(d)'
  BY <1>1, <1>6, WhenLaunching, StaysFree DEF Others
<1>8. \A d \in Callers : call[d].session = s =>
        CallStage(d)' /\ (call'[d].session = s \/ call'[d].session \notin Sessions)
  BY <1>6, <1>7 DEF Others
<1>9. \A d \in Callers : call[d].session # s => call'[d] = call[d]
  BY <1>6 DEF Others
<1> QED
  BY <1>1, <1>4, <1>5, <1>8, <1>9, SessionStep

\* A start that failed never ran, unless a resume came first.
LEMMA FailedCommands ==
  ASSUME HostInv, CommandInv, NEW c \in Callers, FinalizeFailedLaunch(c)
  PROVE  CommandInv'
<1>1. /\ CallsOK /\ SessionsOK /\ call[c].at = "failing" /\ CallStage(c) /\ Ends(c)
      /\ custody' \in {custody, Finalized(c)} /\ UNCHANGED <<phase, command>>
  BY DEF HostInv, Typed, FinalizeFailedLaunch, EndLaunch, At, CommandInv
<1>2. ~call[c].late => /\ phase[call[c].session] = "none"
                       /\ command[call[c].session] \notin Unpublished
  BY <1>1 DEF CallStage
<1>3. call[c].session \in Sessions
  BY <1>1 DEF CallsOK
<1> QED
  BY <1>1, <1>2, <1>3, FinalizedOpen, EndStep

\* A command is accepted only while the session is attached, and nobody starts or
\* ends it then.
LEMMA SubmitCommands ==
  ASSUME HostInv, CommandInv, NEW c \in Callers, Submit(c)
  PROVE  CommandInv'
<1>1. /\ CallsOK /\ SessionsOK /\ call[c].at = "found" /\ Ends(c) /\ UNCHANGED <<phase, custody>>
  BY DEF HostInv, Typed, Submit, At
<1>2. CASE UNCHANGED command
  BY <1>1, <1>2, SameOpen, EndStep
<1>3. CASE Accepted(call[c].hub, call[c].session)
           /\ command' = [command EXCEPT ![call[c].session] = "running"]
  <2> PICK s \in Sessions : s = call[c].session
    BY <1>1 DEF CallsOK
  <2>1. phase[s] = "attached" /\ SessionOpen(s)'
    BY <1>1, <1>3 DEF Accepted, CommandInv, SessionOpen
  <2>2. \A t \in Sessions \ {s} :
          phase'[t] = phase[t] /\ command'[t] = command[t] /\ custody'[t] = custody[t]
    BY <1>1, <1>3 DEF SessionsOK
  <2>3. Others(c) /\ CallStage(c)' /\ call'[c].session \notin Sessions
    BY <1>1, EndsFree
  <2>4. \A d \in Callers \ {c} : call[d].session = s => CallStage(d)'
    BY <2>1, <2>3, WhenAttached, StaysFree DEF Others
  <2>5. \A d \in Callers : call[d].session = s =>
          CallStage(d)' /\ (call'[d].session = s \/ call'[d].session \notin Sessions)
    BY <2>3, <2>4 DEF Others
  <2>6. \A d \in Callers : call[d].session # s => call'[d] = call[d]
    BY <2>3 DEF Others
  <2> QED
    BY <1>1, <2>1, <2>2, <2>5, <2>6, SessionStep
<1> QED
  BY <1>2, <1>3 DEF Submit

\* Turns, publications, crashes.
LEMMA SessionCommands ==
  ASSUME HostInv, CommandInv, NEW s \in Sessions, TurnEnds(s) \/ Publish(s) \/ Crash(s)
  PROVE  CommandInv'
<1>1. CallsOK /\ SessionsOK /\ SessionOpen(s) /\ UNCHANGED <<custody, call>>
  BY DEF HostInv, Typed, TurnEnds, Publish, Crash, CommandInv
<1>2. \A t \in Sessions \ {s} :
        phase'[t] = phase[t] /\ command'[t] = command[t] /\ custody'[t] = custody[t]
  BY <1>1 DEF SessionsOK, TurnEnds, Publish, Crash, Finish
<1>3. CASE TurnEnds(s) \/ Crash(s)
  <2>1. phase[s] = "attached" /\ SessionOpen(s)'
    BY <1>1, <1>3 DEF TurnEnds, Crash, SessionOpen
  <2>2. \A d \in Callers : call[d].session = s => CallStage(d)'
    BY <1>1, <2>1, WhenAttached, StaysFree
  <2> QED
    BY <1>1, <1>2, <2>1, <2>2, SessionStep
<1>4. CASE Publish(s)
  <2>1. UNCHANGED phase /\ command[s] = "settled" /\ command'[s] \notin Unpublished
    BY <1>1, <1>4 DEF Publish, SessionsOK, Unpublished
  <2>2. SessionOpen(s)'
    BY <1>1, <2>1 DEF SessionOpen
  <2>3. \A d \in Callers : call[d].session = s => CallStage(d)'
    BY <1>1, <2>1 DEF CommandInv, CallStage, Starting
  <2> QED
    BY <1>1, <1>2, <2>2, <2>3, SessionStep
<1> QED
  BY <1>3, <1>4

\* A close of a session that is attached is the one that ends it; of a session
\* that is being launched, it ends an earlier life.
LEMMA BeginCloseCommands ==
  ASSUME HostInv, CommandInv, NEW c \in Callers, BeginClose(c)
  PROVE  CommandInv'
<1>1. /\ CallsOK /\ SessionsOK /\ call[c].at = "found" /\ UNCHANGED <<custody, command>>
  BY DEF HostInv, Typed, BeginClose, At
<1> PICK s \in Sessions : s = call[c].session
  BY <1>1 DEF CallsOK
<1>2. CASE Ends(c) /\ UNCHANGED phase
  BY <1>1, <1>2, SameOpen, EndStep
<1>3. CASE /\ phase' = [phase EXCEPT ![s] = IF @ = "attached" THEN "closing" ELSE @]
           /\ call' = [call EXCEPT ![c] = [@ EXCEPT !.at = "stopping", !.late = phase[s] = "launching"]]
  <2> DEFINE outrun == phase[s] = "launching"
  <2>1. /\ phase'[s] = IF phase[s] = "attached" THEN "closing" ELSE phase[s]
        /\ \A t \in Sessions \ {s} :
             phase'[t] = phase[t] /\ command'[t] = command[t] /\ custody'[t] = custody[t]
    BY <1>1, <1>3 DEF SessionsOK
  <2>2. /\ Others(c) /\ call'[c].at = "stopping" /\ call'[c].session = s
        /\ call'[c].late = outrun
    <3>1. call' = [call EXCEPT ![c] = [call[c] EXCEPT !.at = "stopping", !.late = outrun]]
      BY <1>3
    <3> HIDE DEF outrun
    <3> QED
      BY <1>1, <3>1 DEF Others, CallsOK, CallRecords
  <2>3. SessionOpen(s)'
    <3>1. SessionOpen(s)
      BY DEF CommandInv
    <3> QED
      BY <1>1, <2>1, <3>1 DEF SessionOpen
  <2>4. CallStage(c)'
    <3>1. phase[s] \in Phases
      BY <1>1 DEF SessionsOK
    <3>2. ~call'[c].late => phase'[s] \in {"closing", "none"}
      BY <2>1, <2>2, <3>1 DEF Phases, Running
    <3> QED
      BY <2>2, <3>2 DEF CallStage, Starting, Early
  <2>5. ASSUME NEW d \in Callers \ {c}, call[d].session = s
        PROVE  CallStage(d)'
    <3>1. CASE phase[s] = "attached"
      BY <2>2, <2>5, <3>1, WhenAttached, StaysFree DEF Others
    <3>2. CASE phase[s] # "attached"
      <4>1. CallStage(d) /\ call'[d] = call[d] /\ phase'[s] = phase[s]
        BY <2>1, <2>2, <2>5, <3>2 DEF CommandInv, Others
      <4>2. \A e \in Callers \ {d} :
              /\ call[e].session # s => call'[e].session # s
              /\ call'[e].at = "providing" /\ call'[e].session = s =>
                   call[e].at = "providing" /\ call[e].session = s
        BY <2>2 DEF Others
      <4> QED
        BY <1>1, <2>5, <4>1, <4>2, StageKept
    <3> QED
      BY <3>1, <3>2
  <2>6. \A d \in Callers : call[d].session = s =>
          CallStage(d)' /\ (call'[d].session = s \/ call'[d].session \notin Sessions)
    BY <2>2, <2>4, <2>5 DEF Others
  <2>7. \A d \in Callers : call[d].session # s => call'[d] = call[d]
    BY <2>2 DEF Others
  <2> QED
    BY <1>1, <2>1, <2>3, <2>6, <2>7, SessionStep
<1> QED
  BY <1>2, <1>3 DEF BeginClose

\* The kernel is through with a session that was closing; what else ends it knows.
LEMMA CloseStoppedCommands ==
  ASSUME HostInv, CommandInv, NEW c \in Callers, CloseStopped(c)
  PROVE  CommandInv'
<1>1. /\ CallsOK /\ SessionsOK /\ call[c].at = "stopping" /\ CallStage(c)
      /\ GoesTo(c, "waiting") /\ UNCHANGED custody
  BY DEF HostInv, Typed, CloseStopped, At, CommandInv
<1> PICK s \in Sessions : s = call[c].session
  BY <1>1 DEF CallsOK
<1>2. /\ \A t \in Sessions \ {s} :
           phase'[t] = phase[t] /\ command'[t] = command[t] /\ custody'[t] = custody[t]
      /\ phase'[s] = IF phase[s] = "closing" THEN "none" ELSE phase[s]
      /\ command'[s] \in Unpublished => command[s] \in Unpublished
  BY <1>1 DEF CloseStopped, Finish, SessionsOK, Unpublished
<1>3. /\ Others(c) /\ call'[c].at = "waiting" /\ call'[c].session = s /\ call'[c].late = call[c].late
  BY <1>1, MovesOn
<1>4. SessionOpen(s)'
  <2>1. SessionOpen(s)
    BY DEF CommandInv
  <2> QED
    BY <1>1, <1>2, <2>1 DEF SessionOpen
<1>5. CallStage(c)'
  <2>1. ~call'[c].late => phase'[s] = "none"
    BY <1>1, <1>2, <1>3 DEF CallStage
  <2> QED
    BY <1>3, <2>1 DEF CallStage, Starting, Early
<1>6. ASSUME NEW d \in Callers \ {c}, call[d].session = s
      PROVE  CallStage(d)'
  <2>1. CallStage(d) /\ call'[d] = call[d] /\ SessionOpen(s)
    BY <1>3 DEF CommandInv, Others
  <2>2. CASE phase[s] = "closing"
    <3>1. ~Starting(d) /\ call[d].at # "providing"
      BY <1>6, <2>1, <2>2 DEF CallStage, SessionOpen, Open
    <3>2. ~Starting(d)'
      BY <2>1, <3>1 DEF Starting
    <3> QED
      BY <1>2, <1>6, <2>1, <2>2, <3>1, <3>2 DEF CallStage
  <2>3. CASE phase[s] # "closing"
    <3>1. phase'[s] = phase[s]
      BY <1>2, <2>3
    <3>2. \A e \in Callers \ {d} :
            /\ call[e].session # s => call'[e].session # s
            /\ call'[e].at = "providing" /\ call'[e].session = s =>
                 call[e].at = "providing" /\ call[e].session = s
      BY <1>3 DEF Others
    <3> QED
      BY <1>1, <1>2, <1>6, <2>1, <3>1, <3>2, StageKept
  <2> QED
    BY <2>2, <2>3
<1>7. \A d \in Callers : call[d].session = s =>
        CallStage(d)' /\ (call'[d].session = s \/ call'[d].session \notin Sessions)
  BY <1>3, <1>5, <1>6 DEF Others
<1>8. \A d \in Callers : call[d].session # s => call'[d] = call[d]
  BY <1>3 DEF Others
<1> QED
  BY <1>1, <1>2, <1>4, <1>7, <1>8, SessionStep

\* The end of a close: custody is closed once nothing is to be published.
LEMMA EndCloseCommands ==
  ASSUME HostInv, CommandInv, NEW c \in Callers, FinalizeClosure(c) \/ EndClose(c)
  PROVE  CommandInv'
<1>1. /\ CallsOK /\ SessionsOK /\ call[c].at \in {"waiting", "finalized"} /\ CallStage(c)
      /\ call[c].session \in Sessions /\ UNCHANGED <<phase, command>>
  BY DEF HostInv, Typed, FinalizeClosure, EndClose, At, CommandInv, CallsOK
<1>2. CASE FinalizeClosure(c)
  <2>1. /\ custody' \in {custody, Finalized(c)} /\ GoesTo(c, "finalized")
        /\ ~call[c].late => /\ phase[call[c].session] = "none"
                            /\ command[call[c].session] \notin Unpublished
    BY <1>1, <1>2 DEF FinalizeClosure, NothingPending, CallStage, At
  <2>2. /\ Others(c) /\ call'[c].at = "finalized" /\ call'[c].session = call[c].session
        /\ call'[c].op = call[c].op /\ ~Starting(c)'
    BY <1>1, <2>1, MovesOn DEF Starting, Early
  <2> QED
    BY <1>1, <2>1, <2>2, FinalizedOpen, GoOnStep
<1>3. CASE EndClose(c)
  BY <1>1, <1>3, SameOpen, EndStep DEF EndClose
<1> QED
  BY <1>2, <1>3

\* Sweeps, and steps of nothing.
LEMMA RestCommands ==
  ASSUME HostInv, CommandInv, TimerSweep \/ UNCHANGED hubVars
  PROVE  CommandInv'
<1>1. CallsOK /\ SessionsOK /\ UNCHANGED <<phase, command, call>>
  BY DEF HostInv, Typed, TimerSweep, hubVars
<1>2. /\ \A s \in Sessions : custody[s] = "none" => custody'[s] = "none"
      /\ \A s \in Sessions : SessionOpen(s)'
  BY <1>1, SweepsOpen, SameOpen DEF TimerSweep, hubVars
<1>3. \A c \in Callers : CallStage(c)'
  BY <1>1, <1>2 DEF CommandInv, CallStage, Starting, CallsOK, Early
<1> QED
  BY <1>2, <1>3 DEF CommandInv

-----------------------------------------------------------------------------
(* The invariant.                                                          *)

\* Every step keeps it, from the types and from what a resume is.
LEMMA CommandInvNext == HostInv /\ ResumeInv /\ CommandInv /\ [HubNext]_hubVars => CommandInv'
<1> SUFFICES ASSUME HostInv, ResumeInv, CommandInv, [HubNext]_hubVars PROVE CommandInv'
  OBVIOUS
<1>1. ASSUME NEW c \in Callers, CallerStep(c)
      PROVE  CommandInv'
  BY <1>1, EarlyCommands, ProvisionCommands, ReopenCommands, AttachCommands, FailedCommands,
     SubmitCommands, BeginCloseCommands, CloseStoppedCommands, EndCloseCommands DEF CallerStep
<1> QED
  BY <1>1, CallCommands, SessionCommands, RestCommands DEF HubNext

\* Only a launch of a resume goes on to reopen custody.
LEMMA ResumeInvNext == HostInv /\ ResumeInv /\ [HubNext]_hubVars => ResumeInv'
<1> SUFFICES ASSUME HostInv, ResumeInv, [HubNext]_hubVars PROVE ResumeInv'
  OBVIOUS
<1>1. CallsOK
  BY DEF HostInv, Typed
<1>2. ASSUME NEW c \in Callers, Others(c),
             call'[c].at \in {"statused", "reopening"} => call'[c].op = "resume"
      PROVE  ResumeInv'
  BY <1>2 DEF ResumeInv, Others
<1>3. ASSUME NEW c \in Callers, NEW place, place \notin {"statused", "reopening"}, GoesTo(c, place)
      PROVE  ResumeInv'
  BY <1>1, <1>2, <1>3, MovesOn
<1>4. ASSUME NEW c \in Callers, Ends(c)
      PROVE  ResumeInv'
  BY <1>1, <1>2, <1>4, EndsFree
<1>5. ASSUME NEW c \in Callers, NEW op \in Operations, NEW s \in Sessions, Call(c, op, s)
      PROVE  ResumeInv'
  <2>1. Others(c) /\ call'[c].at = "identity"
    BY <1>1, <1>5 DEF Call, Others, CallsOK
  <2> QED
    BY <1>2, <2>1
<1>6. ASSUME NEW c \in Callers, FindHub(c)
      PROVE  ResumeInv'
  <2> DEFINE place == IF ready[RepoOfCall(c)] = None THEN "opening" ELSE "found"
             h == ready[RepoOfCall(c)]
  <2>1. call' = [call EXCEPT ![c] = [@ EXCEPT !.at = place, !.hub = h]]
    BY <1>6 DEF FindHub
  <2>2. place \in {"opening", "found"}
    OBVIOUS
  <2> HIDE DEF place, h
  <2> QED
    BY <1>1, <1>2, <2>1, <2>2, FindsHub
<1>7. ASSUME NEW c \in Callers, OpenHub(c)
      PROVE  ResumeInv'
  <2>1. ASSUME NEW h \in FreeHubs,
               call' = [call EXCEPT ![c] =
                 [@ EXCEPT !.at = "found",
                           !.hub = IF ready[RepoOfCall(c)] = None THEN h ELSE ready[RepoOfCall(c)]]]
        PROVE  ResumeInv'
    <3> DEFINE hub == IF ready[RepoOfCall(c)] = None THEN h ELSE ready[RepoOfCall(c)]
    <3>1. call' = [call EXCEPT ![c] = [@ EXCEPT !.at = "found", !.hub = hub]]
      BY <2>1
    <3> HIDE DEF hub
    <3>2. Others(c) /\ call'[c].at = "found"
      BY <1>1, <3>1, FindsHub
    <3> QED
      BY <1>2, <3>2
  <2> QED
    BY <1>4, <1>7, <2>1 DEF OpenHub
<1>8. ASSUME NEW c \in Callers, ReadStatus(c)
      PROVE  ResumeInv'
  BY <1>1, <1>2, <1>8, MovesOn DEF ReadStatus
<1>9. ASSUME NEW c \in Callers, Launch(c)
      PROVE  ResumeInv'
  <2>1. GoesTo(c, IF call[c].op = "start" THEN "selecting" ELSE "reopening")
        /\ call[c].op \in {"start", "resume"}
    BY <1>9 DEF Launch, MayLaunch, At, ResumeInv
  <2> QED
    BY <1>1, <1>2, <2>1, MovesOn
<1>10. ASSUME NEW c \in Callers, Reopen(c)
       PROVE  ResumeInv'
  <2>1. ASSUME call' = Outrun([call EXCEPT ![c].at = "providing"], call[c].session)
        PROVE  ResumeInv'
    <3>1. call[c].at = "reopening"
      BY <1>10 DEF Reopen, At
    <3>2. \A d \in Callers : call'[d].at \in {"statused", "reopening"} => call'[d] = call[d]
      BY <1>1, <2>1, <3>1, OutrunCalls
    <3> QED
      BY <3>2 DEF ResumeInv
  <2> QED
    BY <1>4, <1>10, <2>1 DEF Reopen, EndLaunch
<1>11. ASSUME NEW c \in Callers, BeginClose(c)
       PROVE  ResumeInv'
  <2>1. ASSUME NEW l, call' = [call EXCEPT ![c] = [@ EXCEPT !.at = "stopping", !.late = l]]
        PROVE  ResumeInv'
    <3>1. Others(c) /\ call'[c].at = "stopping"
      BY <1>1, <2>1 DEF Others, CallsOK, CallRecords
    <3> QED
      BY <1>2, <3>1
  <2> QED
    BY <1>4, <1>11, <2>1 DEF BeginClose
<1>12. ASSUME NEW c \in Callers,
              RefuseLaunch(c) \/ Provision(c) \/ Attach(c) \/ LaunchFails(c)
                \/ FinalizeFailedLaunch(c) \/ Submit(c) \/ CloseStopped(c) \/ FinalizeClosure(c)
                \/ EndClose(c)
       PROVE  ResumeInv'
  BY <1>3, <1>4, <1>12 DEF RefuseLaunch, Provision, Attach, LaunchFails, FinalizeFailedLaunch,
     EndLaunch, Submit, CloseStopped, FinalizeClosure, EndClose
<1>13. ASSUME UNCHANGED call
       PROVE  ResumeInv'
  BY <1>13 DEF ResumeInv
<1>14. ASSUME NEW c \in Callers, CallerStep(c)
       PROVE  ResumeInv'
  BY <1>6, <1>7, <1>8, <1>9, <1>10, <1>11, <1>12, <1>14 DEF CallerStep
<1> QED
  BY <1>5, <1>13, <1>14 DEF HubNext, TurnEnds, Publish, Crash, TimerSweep, hubVars

\* At first there is neither session nor call.
LEMMA CommandInvInit == HubInit => ResumeInv /\ CommandInv
<1> SUFFICES ASSUME HubInit PROVE ResumeInv /\ CommandInv
  OBVIOUS
<1>1. \A c \in Callers : call[c].at = "idle"
  BY DEF HubInit, Idle
<1>2. \A c \in Callers : ~Bound(c)
  BY <1>1 DEF Bound, Starting, Early
<1>3. \A c \in Callers : CallStage(c)
  BY <1>2, FreeStage
<1> QED
  BY <1>1, <1>3 DEF HubInit, ResumeInv, CommandInv, SessionOpen, Unpublished

\* Of all steps, only a publication refuses a command.
LEMMA OnlyPublishRefuses ==
  ASSUME HostInv, [HubNext]_hubVars, NEW s \in Sessions,
         command[s] = "settled", command'[s] = "refused"
  PROVE  Publish(s)
<1>1. SessionsOK
  BY DEF HostInv, Typed
<1>2. ASSUME NEW c \in Callers, CallerStep(c)
      PROVE  FALSE
  <2>1. CASE Submit(c)
    BY <1>1, <2>1 DEF Submit, SessionsOK
  <2>2. CASE CloseStopped(c)
    BY <1>1, <2>2 DEF CloseStopped, Finish, SessionsOK
  <2>3. CASE UNCHANGED command
    BY <2>3
  <2> QED
    BY <1>2, <2>1, <2>2, <2>3 DEF CallerStep, FindHub, OpenHub, ReadStatus, Launch, RefuseLaunch,
       Provision, Reopen, Attach, LaunchFails, FinalizeFailedLaunch, BeginClose, FinalizeClosure,
       EndClose
<1>3. ASSUME NEW t \in Sessions, TurnEnds(t) \/ Publish(t) \/ Crash(t)
      PROVE  Publish(s)
  <2>1. CASE TurnEnds(t) \/ Crash(t)
    BY <1>1, <2>1 DEF TurnEnds, Crash, Finish, SessionsOK
  <2>2. CASE Publish(t)
    BY <1>1, <2>2 DEF Publish, SessionsOK
  <2> QED
    BY <1>3, <2>1, <2>2
<1> QED
  BY <1>2, <1>3 DEF HubNext, Call, TimerSweep, hubVars

\* A command that was accepted is published before its session's close ends
\* custody; it is refused only when a sweep did, or what ends an earlier life
\* (AgentHub.closeSession, waitForPendingCommands).
THEOREM AcceptedArePublished == HubSpec => AckedPublished
<1> DEFINE refused == \A s \in Sessions :
             command[s] = "settled" /\ command'[s] = "refused" => custody[s] \in {"swept", "overrun"}
<1>1. HubInit => HostInv /\ ResumeInv /\ CommandInv
  BY HostInvInit, CommandInvInit
<1>2. HostInv /\ ResumeInv /\ CommandInv /\ [HubNext]_hubVars => (HostInv /\ ResumeInv /\ CommandInv)'
  BY HostInvNext, ResumeInvNext, CommandInvNext
<1>3. HostInv /\ CommandInv /\ [HubNext]_hubVars => [refused]_hubVars
  <2> SUFFICES ASSUME HostInv, CommandInv, [HubNext]_hubVars, NEW s \in Sessions,
                      command[s] = "settled", command'[s] = "refused"
               PROVE  custody[s] \in {"swept", "overrun"}
    OBVIOUS
  <2>1. Publish(s)
    BY OnlyPublishRefuses
  <2>2. custody[s] # "live"
    BY <2>1 DEF Publish, HostInv, Typed, SessionsOK
  <2>3. SessionOpen(s)
    BY DEF CommandInv
  <2> QED
    BY <2>2, <2>3 DEF SessionOpen, Unpublished, Open
<1> QED
  BY <1>1, <1>2, <1>3, PTL DEF HubSpec, AckedPublished

-----------------------------------------------------------------------------
(* EventRing: the polling client.                                          *)

\* What NoSilentGap needs to be inductive: a cursor that is ahead of the ring
\* is one of an earlier life, and so is every number it has passed.
PollInv ==
  /\ latest \in Nat /\ oldest \in 1..(latest + 1)
  /\ committed \in Nat /\ cursor \in Nat /\ reused \in Nat
  /\ committed <= latest
  /\ cursor <= reused \/ cursor <= latest
  /\ \A s \in Nat : reused < s /\ s <= cursor => s \in given \cup told

LEMMA PollInvInit == RingInit => PollInv
  BY DEF RingInit, PollInv

LEMMA PollInvNext == PollInv /\ [RingNext]_ringVars => PollInv'
<1> SUFFICES ASSUME PollInv, [RingNext]_ringVars PROVE PollInv'
  OBVIOUS
<1> USE DEF PollInv, ring, polling
<1>1. CASE Push
  BY <1>1 DEF Push
<1>2. CASE Commit
  BY <1>2 DEF Commit
<1>3. CASE FinishTerminal
  BY <1>3 DEF FinishTerminal
<1>4. CASE HostDies
  BY <1>4 DEF HostDies
<1>5. CASE Resume
  BY <1>5 DEF Resume, SeedOfResume
<1>6. CASE \E after \in 0..latest : Subscribe(after)
  BY <1>6 DEF Subscribe
<1>7. CASE TailReads \/ TailWaits
  BY <1>7 DEF TailReads, TailWaits
<1>8. CASE Poll
  <2>1. CASE Expired(cursor)
    <3>1. /\ cursor' = EarliestReplayable
          /\ told' = told \cup (cursor + 1)..EarliestReplayable
          /\ UNCHANGED <<given, reused, latest, oldest, committed>>
      BY <1>8, <2>1 DEF Poll, CursorAfter
    <3>2. EarliestReplayable \in Nat /\ EarliestReplayable <= latest
      BY DEF EarliestReplayable, Count
    <3> QED
      BY <3>1, <3>2
  <2>2. CASE ~Expired(cursor)
    <3>1. /\ cursor' = NextCursor(cursor)
          /\ given' = given \cup {s \in oldest..latest : s > cursor}
          /\ UNCHANGED <<told, reused, latest, oldest, committed>>
      BY <1>8, <2>2 DEF Poll, CursorAfter
    <3>2. cursor + 1 >= oldest
      BY <2>2 DEF Expired, Count
    <3>3. \/ cursor' = latest
          \/ cursor' = cursor /\ latest <= cursor
      BY <3>1 DEF NextCursor
    <3>4. ASSUME NEW s \in Nat, reused < s, s <= cursor'
          PROVE  s \in given' \cup told
      <4>1. CASE s <= cursor
        BY <3>1, <3>4, <4>1
      <4>2. CASE s > cursor
        <5>1. s \in oldest..latest
          BY <3>2, <3>3, <3>4, <4>2
        <5> QED
          BY <3>1, <4>2, <5>1
      <4> QED
        BY <4>1, <4>2
    <3>5. cursor' \in Nat /\ (cursor' <= reused \/ cursor' <= latest)
      BY <3>3
    <3> QED
      BY <3>1, <3>4, <3>5
  <2> QED
    BY <2>1, <2>2
<1>9. CASE UNCHANGED ringVars
  BY <1>9 DEF ringVars
<1> QED
  BY <1>1, <1>2, <1>3, <1>4, <1>5, <1>6, <1>7, <1>8, <1>9 DEF RingNext

\* A client that goes on from the cursor it was given misses no event that it was
\* not told of, and no life stamps again what a record counted (readAfter,
\* InteractionKernel.resume).
THEOREM PollingToldOfGaps == RingSpec => []NoSilentGap
<1>1. RingInit => PollInv
  BY PollInvInit
<1>2. PollInv /\ [RingNext]_ringVars => PollInv'
  BY PollInvNext
<1>3. PollInv => NoSilentGap
  BY DEF PollInv, NoSilentGap
<1> QED
  BY <1>1, <1>2, <1>3, PTL DEF RingSpec

-----------------------------------------------------------------------------
(* The tail.                                                               *)

TailRecords == [state : TailStates, queue : Seq(1..MaxSeq), waiting : BOOLEAN,
                got : 0..MaxSeq, last : 0..MaxSeq]

\* What is queued follows what was given, as a statement about each event.
Follows(t) == \A i \in 1..Len(t.queue) : t.queue[i] = t.got + i

LEMMA SpanIs ==
  ASSUME NEW got \in Nat, NEW n \in Nat, got + n \in 0..MaxSeq
  PROVE  /\ Span(got + 1, got + n) \in Seq(1..MaxSeq)
         /\ Len(Span(got + 1, got + n)) = n
         /\ \A i \in 1..n : Span(got + 1, got + n)[i] = got + i
<1>1. (IF got + n < got + 1 THEN 0 ELSE got + n + 1 - (got + 1)) = n
  OBVIOUS
<1>2. Span(got + 1, got + n) = [i \in 1..n |-> got + 1 + i - 1]
  BY <1>1 DEF Span
<1>3. \A i \in 1..n : got + 1 + i - 1 = got + i /\ got + i \in 1..MaxSeq
  BY EventRingAssumption
<1>4. Span(got + 1, got + n) = [i \in 1..n |-> got + i]
  BY <1>2, <1>3
<1> DEFINE s == [i \in 1..n |-> got + i]
<1>5. s \in Seq(1..MaxSeq) /\ Len(s) = n /\ \A i \in 1..n : s[i] = got + i
  BY <1>3
<1> HIDE DEF s
<1> QED
  BY <1>4, <1>5 DEF s

LEMMA FollowsIs ==
  ASSUME NEW t \in TailRecords, t.got + Len(t.queue) \in 0..MaxSeq
  PROVE  Follows(t) <=> t.queue = Span(t.got + 1, t.got + Len(t.queue))
<1>1. /\ t.queue \in Seq(1..MaxSeq) /\ Len(t.queue) \in Nat /\ t.got \in Nat
  BY EventRingAssumption DEF TailRecords
<1> DEFINE s == Span(t.got + 1, t.got + Len(t.queue))
<1>2. /\ s \in Seq(1..MaxSeq) /\ Len(s) = Len(t.queue)
      /\ \A i \in 1..Len(t.queue) : s[i] = t.got + i
  BY <1>1, SpanIs
<1> HIDE DEF s
<1>3. ASSUME Follows(t) PROVE t.queue = s
  BY <1>1, <1>2, <1>3, SeqEqual DEF Follows
<1>4. ASSUME t.queue = s PROVE Follows(t)
  BY <1>2, <1>4 DEF Follows
<1> QED
  BY <1>3, <1>4 DEF s

RingBounds ==
  /\ life \in 1..MaxLives
  /\ latest \in 0..MaxSeq /\ oldest \in 1..(latest + 1) /\ Count <= MaxEvents
  /\ committed \in 0..MaxSeq /\ finished \in BOOLEAN
  /\ cursor \in 0..MaxSeq /\ reused \in 0..MaxSeq
  /\ given \subseteq 1..MaxSeq /\ told \subseteq 1..MaxSeq

\* TailGapless of a tail t and a ring whose last event is n.
TailOK(t, n) ==
  /\ t \in TailRecords
  /\ Len(t.queue) <= MaxEvents /\ t.got + Len(t.queue) <= MaxSeq
  /\ t.waiting => t.state = "open" /\ t.queue = <<>>
  /\ Follows(t)
  /\ t.state = "open" => t.got + Len(t.queue) = n
  /\ t.state = "done" => t.got + Len(t.queue) = t.last

TailInv == RingBounds /\ TailOK(tail, latest)

LEMMA NoTailOK == ASSUME NEW n PROVE TailOK(NoTail, n)
  BY EventRingAssumption DEF TailOK, NoTail, TailRecords, TailStates, Follows

LEMMA EmitOK ==
  ASSUME NEW n \in Nat, n + 1 <= MaxSeq, NEW t, TailOK(t, n)
  PROVE  TailOK(Emit(t, n + 1), n + 1)
<1> USE EventRingAssumption DEF TailOK, TailRecords, TailStates
<1>1. CASE t.state # "open"
  BY <1>1 DEF Emit
<1>2. CASE t.state = "open" /\ t.waiting
  <2> DEFINE u == [t EXCEPT !.waiting = FALSE, !.got = n + 1]
  <2>1. /\ u \in TailRecords /\ u.queue = t.queue /\ u.waiting = FALSE
        /\ u.got = n + 1 /\ u.state = "open"
    <3>1. n + 1 \in 0..MaxSeq
      OBVIOUS
    <3> QED
      BY <1>2, <3>1
  <2>2. Emit(t, n + 1) = u
    BY <1>2 DEF Emit
  <2> HIDE DEF u
  <2>3. t.queue = <<>> /\ Len(u.queue) = 0
    BY <1>2, <2>1
  <2> QED
    BY <2>1, <2>2, <2>3 DEF Follows
<1>3. CASE t.state = "open" /\ ~t.waiting /\ Len(t.queue) >= MaxEvents
  <2> DEFINE u == [t EXCEPT !.state = "failed"]
  <2>1. /\ u \in TailRecords /\ u.queue = t.queue /\ u.waiting = FALSE
        /\ u.got = t.got /\ u.state = "failed"
    BY <1>3
  <2>2. Emit(t, n + 1) = u
    BY <1>3 DEF Emit
  <2> HIDE DEF u
  <2> QED
    BY <2>1, <2>2 DEF Follows
<1>4. CASE t.state = "open" /\ ~t.waiting /\ ~(Len(t.queue) >= MaxEvents)
  <2> DEFINE q == Append(t.queue, n + 1)
             u == [t EXCEPT !.queue = q]
  <2>1. /\ q \in Seq(1..MaxSeq) /\ Len(q) = Len(t.queue) + 1
        /\ \A i \in 1..Len(q) : q[i] = t.got + i
    BY <1>4 DEF Follows
  <2>2. Emit(t, n + 1) = u
    BY <1>4 DEF Emit
  <2> HIDE DEF q
  <2>3. /\ u \in TailRecords /\ u.queue = q /\ u.waiting = FALSE
        /\ u.got = t.got /\ u.state = "open"
    BY <1>4, <2>1
  <2> HIDE DEF u
  <2>4. u.got + Len(u.queue) = n + 1
    BY <1>4, <2>1, <2>3
  <2>5. Len(u.queue) <= MaxEvents
    BY <1>4, <2>1, <2>3
  <2>6. Follows(u)
    BY <2>1, <2>3 DEF Follows
  <2> QED
    BY <2>2, <2>3, <2>4, <2>5, <2>6
<1> QED
  BY <1>1, <1>2, <1>3, <1>4

LEMMA CompleteOK ==
  ASSUME TailInv
  PROVE  TailOK(Complete(tail), latest)
<1> USE EventRingAssumption DEF TailInv, RingBounds, TailOK, TailRecords, TailStates
<1>1. CASE tail.state # "open"
  BY <1>1 DEF Complete
<1>2. CASE tail.state = "open"
  <2> DEFINE u == [tail EXCEPT !.state = "done", !.waiting = FALSE, !.last = latest]
  <2>1. /\ u \in TailRecords /\ u.queue = tail.queue /\ u.waiting = FALSE
        /\ u.got = tail.got /\ u.state = "done" /\ u.last = latest
    OBVIOUS
  <2>2. Complete(tail) = u
    BY <1>2 DEF Complete
  <2> HIDE DEF u
  <2> QED
    BY <1>2, <2>1, <2>2 DEF Follows
<1> QED
  BY <1>1, <1>2

LEMMA SubscribeOK ==
  ASSUME TailInv, NEW after \in 0..latest, Subscribe(after)
  PROVE  TailOK(tail', latest)
<1> USE EventRingAssumption DEF TailInv, RingBounds
<1> DEFINE q == Span(after + 1, latest)
<1>1. /\ q \in Seq(1..MaxSeq) /\ Len(q) = latest - after
      /\ \A i \in 1..Len(q) : q[i] = after + i
  <2>1. latest - after \in Nat /\ after + (latest - after) = latest /\ after \in Nat
    OBVIOUS
  <2> DEFINE n == latest - after
  <2> HIDE DEF n
  <2>2. q = Span(after + 1, after + n)
    BY <2>1 DEF n
  <2>3. n \in Nat /\ after + n \in 0..MaxSeq
    BY <2>1 DEF n
  <2> HIDE DEF q
  <2>4. q \in Seq(1..MaxSeq) /\ Len(q) = n /\ \A i \in 1..n : q[i] = after + i
    BY <2>1, <2>2, <2>3, SpanIs
  <2> QED
    BY <2>4 DEF n
<1>2. NoTail \in TailRecords /\ NoTail.queue = <<>> /\ NoTail.waiting = FALSE
  BY DEF NoTail, TailRecords, TailStates
<1>3. after \in 0..MaxSeq
  OBVIOUS
<1>4. CASE tail' = [NoTail EXCEPT !.state = "failed", !.got = after]
  <2> DEFINE u == [NoTail EXCEPT !.state = "failed", !.got = after]
  <2>1. /\ u \in TailRecords /\ u.queue = <<>> /\ u.waiting = FALSE
        /\ u.got = after /\ u.state = "failed"
    BY <1>2, <1>3 DEF TailRecords, TailStates
  <2> HIDE DEF u
  <2>2. tail' = u
    BY <1>4 DEF u
  <2> QED
    BY <2>1, <2>2 DEF TailOK, Follows
<1>5. ASSUME NEW st \in {"open", "done"}, Len(q) <= MaxEvents,
             tail' = [NoTail EXCEPT !.state = st, !.queue = q, !.got = after, !.last = latest]
      PROVE  TailOK(tail', latest)
  <2> HIDE DEF q
  <2>1. /\ tail' \in TailRecords /\ tail'.queue = q /\ tail'.waiting = FALSE
        /\ tail'.got = after /\ tail'.state = st /\ tail'.last = latest
    BY <1>2, <1>1, <1>5, <1>3 DEF TailRecords, TailStates
  <2>2. tail'.got + Len(tail'.queue) = latest
    BY <1>1, <2>1
  <2>3. Follows(tail')
    BY <1>1, <2>1 DEF Follows
  <2> QED
    BY <1>5, <2>1, <2>2, <2>3 DEF TailOK
<1>6. CASE ~(Expired(after) \/ Len(q) > MaxEvents)
  <2> DEFINE st == IF finished THEN "done" ELSE "open"
  <2>1. tail' = [NoTail EXCEPT !.state = st, !.queue = q, !.got = after, !.last = latest]
    BY <1>6 DEF Subscribe, Replay
  <2>2. st \in {"open", "done"} /\ Len(q) <= MaxEvents
    BY <1>1, <1>6
  <2> HIDE DEF st, q
  <2> QED
    BY <1>5, <2>1, <2>2
<1>7. CASE Expired(after) \/ Len(q) > MaxEvents
  BY <1>4, <1>7 DEF Subscribe
<1> QED
  BY <1>6, <1>7

\* next gives the head of the queue.
LEMMA ReadOK ==
  ASSUME TailInv, TailReads
  PROVE  TailOK(tail', latest)
<1> USE EventRingAssumption DEF TailInv, RingBounds
<1> DEFINE q == tail.queue
           u == [tail EXCEPT !.got = Head(q), !.queue = Tail(q)]
<1>1. tail \in TailRecords /\ q \in Seq(1..MaxSeq) /\ q # <<>>
  BY DEF TailReads, TailOK, TailRecords
<1>2. /\ Tail(q) \in Seq(1..MaxSeq) /\ Len(Tail(q)) = Len(q) - 1 /\ Len(q) \in Nat \ {0}
      /\ \A i \in 1..(Len(q) - 1) : Tail(q)[i] = q[i + 1]
  <2> HIDE DEF q
  <2> QED
    BY <1>1, EmptySeq, HeadTailProperties
<1>3. Head(q) = tail.got + 1 /\ Head(q) \in 1..MaxSeq
  BY <1>1, <1>2 DEF TailOK, Follows
<1>4. /\ u \in TailRecords /\ u.queue = Tail(q) /\ u.got = Head(q)
      /\ u.state = tail.state /\ u.waiting = tail.waiting /\ u.last = tail.last
  <2>1. Head(q) \in 0..MaxSeq
    BY <1>3
  <2> QED
    BY <1>1, <1>2, <2>1 DEF TailRecords
<1>5. tail.got \in Nat
  BY <1>1 DEF TailRecords
<1>6. tail' = u
  BY DEF TailReads
<1> HIDE DEF u, q
<1>7. u.got + Len(u.queue) = tail.got + Len(q)
  <2>1. Len(u.queue) = Len(q) - 1 /\ u.got = tail.got + 1
    BY <1>2, <1>3, <1>4
  <2>2. u.got + Len(u.queue) = (tail.got + 1) + (Len(q) - 1)
    BY <2>1
  <2>3. Len(q) \in Nat
    BY <1>2
  <2>4. (tail.got + 1) + (Len(q) - 1) = tail.got + Len(q)
    BY <1>5, <2>3
  <2> QED
    BY <2>2, <2>4
<1>8. Follows(u)
  <2>1. ASSUME NEW i \in 1..Len(u.queue) PROVE u.queue[i] = u.got + i
    <3>1. i \in 1..(Len(q) - 1) /\ i + 1 \in 1..Len(q)
      BY <1>2, <1>4
    <3>2. q[i + 1] = tail.got + (i + 1)
      BY <3>1 DEF TailOK, Follows, q
    <3>3. u.queue[i] = q[i + 1] /\ u.got = tail.got + 1
      BY <1>2, <1>3, <1>4, <3>1
    <3>4. tail.got + (i + 1) = (tail.got + 1) + i
      BY <1>5, <3>1
    <3> QED
      BY <3>2, <3>3, <3>4
  <2> QED
    BY <2>1 DEF Follows
<1>9. Len(u.queue) <= MaxEvents /\ ~tail.waiting
  BY <1>1, <1>2, <1>4 DEF TailOK, q
<1> QED
  BY <1>4, <1>6, <1>7, <1>8, <1>9 DEF TailOK, q

LEMMA WaitOK ==
  ASSUME TailInv, TailWaits
  PROVE  TailOK(tail', latest)
<1> DEFINE u == [tail EXCEPT !.waiting = TRUE]
<1>1. /\ u \in TailRecords /\ u.queue = tail.queue /\ u.got = tail.got
      /\ u.state = tail.state /\ u.waiting = TRUE /\ u.last = tail.last
  BY DEF TailInv, TailOK, TailRecords
<1>2. tail' = u /\ tail.state = "open" /\ tail.queue = <<>>
  BY DEF TailWaits
<1> HIDE DEF u
<1> QED
  BY <1>1, <1>2 DEF TailInv, TailOK, Follows

\* Steps that leave the ring as it is.
LEMMA BoundsStay ==
  ASSUME RingBounds, UNCHANGED <<life, oldest, latest>>, UNCHANGED <<cursor, reused, given, told>>,
         committed' \in 0..MaxSeq, finished' \in BOOLEAN
  PROVE  RingBounds'
  BY DEF RingBounds, Count

LEMMA TailInvNext == TailInv /\ [RingNext]_ringVars => TailInv'
<1> SUFFICES ASSUME TailInv, [RingNext]_ringVars PROVE TailInv'
  OBVIOUS
<1> USE EventRingAssumption
<1>1. CASE Push
  <2>1. /\ latest' = latest + 1 /\ latest + 1 <= MaxSeq /\ latest \in Nat
        /\ tail' = Emit(tail, latest + 1)
        /\ UNCHANGED <<life, committed, finished, cursor, reused, given, told>>
    BY <1>1 DEF Push, polling, TailInv, RingBounds
  <2>2. oldest' \in 1..(latest' + 1) /\ latest' + 1 - oldest' <= MaxEvents
    BY <1>1, <2>1 DEF Push, Fits, TailInv, RingBounds
  <2>3. RingBounds'
    <3>1. latest' \in 0..MaxSeq
      BY <2>1
    <3> QED
      BY <2>1, <2>2, <3>1 DEF TailInv, RingBounds, Count
  <2>4. TailOK(tail, latest)
    BY DEF TailInv
  <2>5. TailOK(tail', latest')
    BY <2>1, <2>4, EmitOK
  <2> QED
    BY <2>3, <2>5 DEF TailInv, TailOK, Follows
<1>2. CASE Commit
  <2>1. RingBounds'
    BY <1>2, BoundsStay DEF Commit, ring, polling, TailInv, RingBounds
  <2> QED
    BY <1>2, <2>1 DEF Commit, ring, TailInv, TailOK, Follows
<1>3. CASE FinishTerminal
  <2>1. RingBounds'
    BY <1>3, BoundsStay DEF FinishTerminal, ring, polling, TailInv, RingBounds
  <2>2. TailOK(tail', latest') /\ latest' = latest
    BY <1>3, CompleteOK DEF FinishTerminal, ring
  <2> QED
    BY <2>1, <2>2 DEF TailInv, TailOK, Follows
<1>4. CASE HostDies
  <2>1. RingBounds'
    BY <1>4, BoundsStay DEF HostDies, ring, polling, TailInv, RingBounds
  <2>2. TailOK(tail', latest')
    BY <1>4, NoTailOK DEF HostDies
  <2> QED
    BY <2>1, <2>2 DEF TailInv, TailOK, Follows
<1>5. CASE Resume
  <2>1. RingBounds'
    <3>1. /\ life' = life + 1 /\ life < MaxLives
          /\ latest' = committed /\ oldest' = committed + 1 /\ finished' = FALSE
          /\ reused' = cursor /\ given' = {} /\ told' = {}
          /\ UNCHANGED <<committed, cursor>>
      BY <1>5 DEF Resume, SeedOfResume
    <3>2. life' \in 1..MaxLives
      BY <3>1 DEF TailInv, RingBounds
    <3>3. latest' \in 0..MaxSeq /\ oldest' \in 1..(latest' + 1) /\ latest' + 1 - oldest' <= MaxEvents
      BY <3>1 DEF TailInv, RingBounds
    <3> QED
      BY <3>1, <3>2, <3>3 DEF TailInv, RingBounds, Count
  <2>2. TailOK(tail', latest')
    BY <1>5, NoTailOK DEF Resume
  <2> QED
    BY <2>1, <2>2 DEF TailInv, TailOK, Follows
<1>6. ASSUME NEW after \in 0..latest, Subscribe(after)
      PROVE  TailInv'
  <2>1. RingBounds'
    BY <1>6, BoundsStay DEF Subscribe, ring, polling, TailInv, RingBounds
  <2>2. TailOK(tail', latest') /\ latest' = latest
    BY <1>6, SubscribeOK DEF Subscribe, ring
  <2> QED
    BY <2>1, <2>2 DEF TailInv, TailOK, Follows
<1>7. CASE TailReads \/ TailWaits
  <2>1. RingBounds'
    BY <1>7, BoundsStay DEF TailReads, TailWaits, ring, polling, TailInv, RingBounds
  <2>2. TailOK(tail', latest') /\ latest' = latest
    BY <1>7, ReadOK, WaitOK DEF TailReads, TailWaits, ring
  <2> QED
    BY <2>1, <2>2 DEF TailInv, TailOK, Follows
<1>8. CASE Poll
  <2>1. UNCHANGED <<life, oldest, latest, committed, finished, tail, reused>>
    BY <1>8 DEF Poll, ring
  <2>2. EarliestReplayable \in 0..MaxSeq /\ NextCursor(cursor) \in 0..MaxSeq
    BY DEF EarliestReplayable, NextCursor, TailInv, RingBounds
  <2>3. cursor' \in 0..MaxSeq
    BY <1>8, <2>2 DEF Poll, CursorAfter
  <2>4. given' \subseteq 1..MaxSeq /\ told' \subseteq 1..MaxSeq
    <3>1. /\ {x \in oldest..latest : x > cursor} \subseteq 1..MaxSeq
          /\ (cursor + 1)..EarliestReplayable \subseteq 1..MaxSeq
      BY <2>2 DEF TailInv, RingBounds
    <3>2. /\ given' \subseteq given \cup {x \in oldest..latest : x > cursor}
          /\ told' \subseteq told \cup (cursor + 1)..EarliestReplayable
      BY <1>8 DEF Poll
    <3> QED
      BY <3>1, <3>2 DEF TailInv, RingBounds
  <2>5. RingBounds'
    BY <2>1, <2>3, <2>4 DEF TailInv, RingBounds, Count
  <2> QED
    BY <2>1, <2>5 DEF TailInv, TailOK, Follows
<1>9. CASE UNCHANGED ringVars
  <2>1. RingBounds'
    BY <1>9, BoundsStay DEF ringVars, ring, polling, TailInv, RingBounds
  <2> QED
    BY <1>9, <2>1 DEF ringVars, ring, TailInv, TailOK, Follows
<1> QED
  BY <1>1, <1>2, <1>3, <1>4, <1>5, <1>6, <1>7, <1>8, <1>9 DEF RingNext

LEMMA TailInvImplies == TailInv => TailGapless
<1> SUFFICES ASSUME TailInv PROVE TailGapless
  OBVIOUS
<1> USE EventRingAssumption DEF TailInv
<1>1. RingTypeOK
  BY DEF RingTypeOK, RingBounds, TailOK, TailRecords
<1>2. tail \in TailRecords /\ tail.got \in Nat /\ Len(tail.queue) \in Nat
  BY DEF TailOK, TailRecords
<1>3. tail.got + Len(tail.queue) \in 0..MaxSeq
  BY <1>2 DEF TailOK
<1>4. tail.queue = Span(tail.got + 1, tail.got + Len(tail.queue))
  BY <1>2, <1>3, FollowsIs DEF TailOK
<1> QED
  BY <1>1, <1>4 DEF TailGapless, TailOK, RingBounds

\* A live tail gives every event after its cursor, once and in order, until the
\* session finished or the tail was told that it fell behind (streamEvents,
\* EventSubscription).
THEOREM TailHasNoGap == RingSpec => []TailGapless
<1>1. RingInit => TailInv
  <2> SUFFICES ASSUME RingInit PROVE TailInv
    OBVIOUS
  <2>1. RingBounds
    <3>1. 0 + 1 - 1 <= MaxEvents
      BY EventRingAssumption
    <3>2. /\ life = 1 /\ oldest = 1 /\ latest = 0 /\ committed = 0 /\ finished = FALSE
          /\ cursor = 0 /\ reused = 0 /\ given = {} /\ told = {}
      BY DEF RingInit
    <3>3. given \subseteq 1..MaxSeq /\ told \subseteq 1..MaxSeq /\ finished \in BOOLEAN
      BY <3>2, Zenon
    <3>4. Count <= MaxEvents
      BY <3>1, <3>2 DEF Count
    <3>5. life \in 1..MaxLives /\ latest \in 0..MaxSeq /\ oldest \in 1..(latest + 1)
      BY <3>2, EventRingAssumption
    <3>6. committed \in 0..MaxSeq /\ cursor \in 0..MaxSeq /\ reused \in 0..MaxSeq
      BY <3>2, EventRingAssumption
    <3> QED
      BY <3>3, <3>4, <3>5, <3>6 DEF RingBounds
  <2> QED
    BY <2>1, NoTailOK DEF RingInit, TailInv
<1>2. TailInv /\ [RingNext]_ringVars => TailInv'
  BY TailInvNext
<1>3. TailInv => TailGapless
  BY TailInvImplies
<1> QED
  BY <1>1, <1>2, <1>3, PTL DEF RingSpec
==============================================================================
