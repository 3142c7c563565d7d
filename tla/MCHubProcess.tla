---------------------------- MODULE MCHubProcess ----------------------------
(***************************************************************************)
(* What one hub process keeps in memory, on small instances: its hubs and  *)
(* slots (HubHost: two repositories with a session of each, two calls and  *)
(* the least quota) and the events of a session (EventRing).  The two have *)
(* no variable in common, and no property speaks of both, so that either   *)
(* is explored with the other at rest.                                     *)
(***************************************************************************)
EXTENDS HubHost, EventRing, TLC

CONSTANTS a, b, s1, s2, c1, c2, h1, h2, h3

VARIABLE focus  \* which of the two is explored

OneAndOne == [s \in Sessions |-> IF s = s1 THEN a ELSE b]

Init == focus \in {"host", "ring"} /\ HubInit /\ RingInit

Next ==
  /\ \/ focus = "host" /\ HubNext /\ UNCHANGED ringVars
     \/ focus = "ring" /\ RingNext /\ UNCHANGED hubVars
  /\ UNCHANGED focus

Spec == Init /\ [][Next]_<<focus, hubVars, ringVars>>

Symmetry == Permutations(Callers) \cup Permutations(Hubs)
=============================================================================
