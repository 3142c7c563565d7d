---------------------------- MODULE ResumeHandle ----------------------------
(***************************************************************************)
(* The resume handle of one session: what a transport reports at a launch, *)
(* what the kernel keeps of it in the durable record                       *)
(* (src/kernel/interaction-kernel.ts), and what the bridge between the two *)
(* (src/hub/transport-adapter.ts) makes of the record at the next launch.  *)
(*                                                                         *)
(* A handle is a locator, a payload that only the provider's transport     *)
(* understands, and whether an identity was seen to come back.  Its cursor *)
(* is the kernel's own and is module EventRing's.                          *)
(***************************************************************************)
EXTENDS Naturals

CONSTANTS
  Locators,  \* session files and ids of a provider
  None,      \* null
  Absent,    \* a payload with no key in it
  MaxLives   \* bound: launches of the session

VARIABLES
  provider,  \* of the session, for good
  status,    \* "none", "live", "over"
  life,      \* launches so far
  handle,    \* record.resume
  reported,  \* history: the resume state the last launch's transport reported
  refusal    \* the code of the last launch's refusal

vars == <<provider, status, life, handle, reported, refusal>>

Providers == {"omp", "pi", "agy", "hermes"}

\* The payload a provider's transport reports and asks for: pi's token is a
\* locator or null; agy's and hermes's is a flag; omp has none.
Payloads(p) == CASE p = "omp" -> {None}
                 [] p = "pi" -> Locators \cup {None}
                 [] OTHER -> BOOLEAN

Handles == [id : Locators \cup {None}, verified : BOOLEAN,
            payload : UNION {Payloads(p) : p \in Providers} \cup {Absent}]

Init ==
  /\ provider \in Providers
  /\ status = "none" /\ life = 0
  /\ handle = None /\ reported = None /\ refusal = "none"

-----------------------------------------------------------------------------
(* The transports.                                                         *)

\* What open() may report of a fresh session.  The dialects of agy and hermes
\* refuse a session without an id; pi's token is the locator.
FreshReports ==
  {r \in [id : Locators \cup {None}, verified : {FALSE}, payload : Payloads(provider)] :
     /\ r.id = None => provider \in {"omp", "pi"}
     /\ provider = "pi" => r.payload = r.id}

\* The locator a transport asks the provider for, None if it refuses the hint.
Wanted(hint) ==
  CASE provider = "pi" -> hint.payload
    [] provider = "agy" /\ ~hint.payload -> None
    [] OTHER -> hint.id

\* What open() may report under a hint: the identity it asked for has come back
\* (hermes: session/load succeeded), or the launch fails.
ResumedReports(hint) ==
  {r \in [id : {Wanted(hint)} \ {None}, verified : {TRUE}, payload : Payloads(provider)] :
     /\ provider = "pi" => r.payload = r.id
     /\ provider \in {"agy", "hermes"} => r.payload}

-----------------------------------------------------------------------------
(* The bridge.                                                             *)

\* liveResumeOf needs what the transport once reported to be in the data.
Unfolds == provider # "omp" => handle.payload # Absent

-----------------------------------------------------------------------------
(* The kernel.                                                             *)

\* buildResume: a handle of the locator that was observed.
BuildResume(id) == [id |-> id, verified |-> FALSE,
                    payload |-> IF provider = "omp" THEN None ELSE Absent]

Refused(code) == refusal' = code /\ UNCHANGED <<status, life, handle, reported>>

\* A provider that is not found, or that declines what it is offered.
Unavailable == Refused("TRANSPORT_UNAVAILABLE")

\* start: hub.start has no handle to give.
Start ==
  /\ status = "none"
  /\ \/ \E report \in FreshReports :
          /\ handle' = BuildResume(report.id)
          /\ reported' = report
          /\ status' = "live" /\ life' = 1 /\ refusal' = "none"
     \/ Unavailable
  /\ UNCHANGED provider

\* The session ends: its record is terminal.
Ends ==
  /\ status = "live"
  /\ status' = "over"
  /\ UNCHANGED <<provider, life, handle, reported, refusal>>

\* verifyResumeReport: a locator that is recorded has come back; the handle is
\* then the transport's, and verified.
Verifies(report) == handle.id # None => report.id = handle.id

Verified(report) == [report EXCEPT !.verified = report.verified \/ handle.id = report.id]

Resume ==
  /\ status = "over" /\ life < MaxLives
  /\ \/ Unavailable
     \/ ~Unfolds /\ Refused("RESUME_STATE_INVALID")
     \/ Unfolds /\ Refused("LAUNCH_FAILED")
     \/ /\ Unfolds
        /\ \E report \in ResumedReports(handle) :
             IF Verifies(report)
             THEN /\ handle' = Verified(report)
                  /\ reported' = report
                  /\ status' = "live" /\ life' = life + 1 /\ refusal' = "none"
             ELSE Refused("RESUME_VERIFICATION_FAILED")
  /\ UNCHANGED provider

Next == Start \/ Ends \/ Resume

Spec == Init /\ [][Next]_vars

-----------------------------------------------------------------------------
TypeOK ==
  /\ provider \in Providers /\ status \in {"none", "live", "over"} /\ life \in 0..MaxLives
  /\ handle \in Handles \cup {None} /\ reported \in Handles \cup {None}

\* A handle is replayed as the transport reported it: no resume of a session is
\* refused because the record lacks what its transport had reported.  The code
\* does not keep this: buildResume drops the payload of the first launch.
HandleReplayed ==
  refusal = "RESUME_STATE_INVALID" => ~(reported.payload \in Payloads(provider))
=============================================================================
