----------------------------- MODULE ResultLine -----------------------------
(***************************************************************************)
(* What custody promises a consumer of one session, with no files, locks,  *)
(* sidecars or crashes: a line of published results that only grows, and   *)
(* only while the session is live; a decision on the exact head of a       *)
(* closed session, after which nothing changes; and deletion after the     *)
(* decision only (the custody rules at the head of                         *)
(* src/workspace/lifecycle.ts).                                            *)
(***************************************************************************)
EXTENDS Naturals, Sequences

CONSTANTS Commits, Base

VARIABLES
  phase,  \* "none", "live", "closed", "decided" or "deleted"
  line,   \* the commit of each published result, in order
  head    \* the commit a handoff must name

vars == <<phase, line, head>>

Init == phase = "none" /\ line = <<>> /\ head = Base

Provision == phase = "none" /\ phase' = "live" /\ UNCHANGED <<line, head>>

\* A terminal turn: its result names the new head, moved or not.
Publish(c) ==
  /\ phase = "live"
  /\ line' = Append(line, c) /\ head' = c
  /\ UNCHANGED phase

\* Closure captures the last state of the worktree.
Close(c) ==
  /\ phase = "live" /\ phase' = "closed"
  /\ head' = c
  /\ UNCHANGED line

Reopen == phase = "closed" /\ phase' = "live" /\ UNCHANGED <<line, head>>

Decide == phase = "closed" /\ phase' = "decided" /\ UNCHANGED <<line, head>>

\* The results go only after the decision of their consumer.
Delete == phase = "decided" /\ phase' = "deleted" /\ line' = <<>> /\ head' = Base

Next ==
  \/ Provision \/ Reopen \/ Decide \/ Delete
  \/ \E c \in Commits : Publish(c) \/ Close(c)

Spec == Init /\ [][Next]_vars
=============================================================================
