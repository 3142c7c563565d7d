# Agent Hub: specifications, model checking and proofs

Agent Hub (TypeScript, `src/` of this repository) runs coding agents (omp, pi, agy, hermes) as
child processes, each in a git worktree of its own, and keeps what they produced until somebody
decides about it. A *hub* is a process: a CLI call, an MCP server or a library host. Several hubs,
and a detached garbage collector, work on one hub home and one repository, and any of them may die
at any moment.

This directory holds TLA+ modules that model the parts of the program where order matters, the
configurations that check them with TLC, and proofs checked by TLAPS. `PROJECT.json` names every
run, the source lines each definition stands for, the hazards the properties are aimed at, the
findings, and for every property a *mutant*: a definition changed the way a plausible bug would
change it (marked `Mutant:` in the modules), under which the run must find the property violated.

Contents: 1 the system; 2 what is hard; 3 the modules; 4 the runs; 5 assumptions; 6 what the runs
found in the code; 7 what is proved; 8 what is only checked, and what is not modelled; 9 the plan.


## 1. The system

```
 cli.ts / mcp.ts / library host
        |                                              gc-worker.ts (detached)
  AgentHubSupervisor --- one AgentHub per repository        |
        |                       |                     GcCoordinator (deadline file)
        |              +--------+-----------+               |
        |     InteractionKernel     WorkspaceLifecycle -----+
        |              |                    |
        |      EventRing, record     record / sidecar / results / ref / worktree / lease
        |      (runtime mirror)      locks.ts, git
        |              |
        |      transport (rpc-base; agy, hermes) --- provider process
```

| Component (source) | State it keeps | Operations | Correct when | Modelled |
|---|---|---|---|---|
| Custody of a workspace (`workspace/lifecycle.ts`, `store.ts`, `gitops.ts`, `records.ts`) | per session: `record.json`, the sidecar `record.pending.json`, `results/<seq>.json`, the ref `refs/agent-hub/workspace/<id>`, the worktree, a tombstone | `provision`, `publishTurnResult`, `finalizeClosure`, `handoff`, `reopenForResume`, `recover`, `gc`; each but `provision` starts with `loadWorkspace`, which replays or abandons a sidecar | an announced result stays exact and pinned; a decision names the last result for good; a deletion follows the decision and the window, in an order that can be continued; no crash leaves a state that needs a human | `Custody` |
| Repository lock (`locks.ts`) | a directory with an owner file, directories renamed aside | acquire, reclaim by proof of death, release by the owner | never two holders; only a death in a known window leaves it stuck | `RepoLock` |
| Ownership (`workspace/leases.ts`, `lifecycle.ts`, `hub/agent-hub.ts`) | the lease of the provider, the runtime mirror, custody, for one session | start, resume, close, cleanup (recover then gc) of several hubs | one provider at a time, accounted for until proven dead; a running session keeps its custody; a lost session is settled | `Ownership` |
| Interaction kernel (`kernel/interaction-kernel.ts`) | per session: status, turn, two queues, closing/finished/degraded, the record with its serialized writes, the resume handle | prompt, follow-up, steer, cancel, status, permission answers, close, the event pump, crash handling | every future settles once, with its own outcome; the record says "closed" only over a dead provider; a close ends; a handle comes back as it was reported | `Kernel`, `ResumeHandle` |
| Provider transports (`live/transports/rpc-base.ts`, `omp-rpc.ts`, `pi-rpc.ts`, `agy-stream-json.ts`, `hermes-acp.ts`; `hub/transport-adapter.ts`) | handshake, status, pending commands or the turn and its queue, permission requests, the attempts of `stop()` | connect, handshake, resume, send, cancel, stop (ask, INT, TERM, KILL, proof), exit | closed is proven; kills are authorised; nobody is left waiting; no resume opens on another session; texts keep their order | `Transports` and what it extends |
| Child processes (`live/child-process.ts`, `process.ts`) | a process group: the leader, and what it started; pipes | spawn, signal, wait, probe | as above | `Transport` |
| Event ring (`kernel/events.ts`) | bounded buffer, last sequence, subscribers | push, read after a cursor, subscribe, seed of a resume | a tail has no gap; a poller is told of its gaps | `EventRing` |
| GC coordinator, worker (`workspace/gc-coordinator.ts`, `gc-worker.ts`) | a deadline file with a revision, two locks | arm, ensureWorker, the worker's loop, update after a pass | a decided session is collected in the end | `GcCoordinator` |
| Hub, supervisor (`hub/agent-hub.ts`, `hub/supervisor.ts`) | attached sessions, slots, pending commands, the sweep timer, the cache of hubs | launch, submit, close, cleanup, retire | quotas hold; only a live hub sweeps; a close publishes what came before it | `HubHost` |
| Attach input and wire (`hub/attach-io.ts`, `cli.ts`) | queued lines under three bounds, the framing buffer, commands in flight | read, frame, hold, hand over, dispatch, close, settle, exit | lines are handled once, in order, and none is lost silently; no wait for a wakeup that does not come | `AttachWire` |
| Live session manager (`live/*.ts` but the transports) | the generation before the kernel | | reached by no entry point | no |
| Bootstrap and probes, integrations, pairing, git access, the rest of CLI and MCP | none between calls, or files of one writer | | | no |

How they interact. `AgentHub.start` provisions custody, then lets the kernel spawn and attach the
provider; the lifecycle records the lease from the kernel's `record_ownership` callback. The kernel
writes the runtime mirror at each committed status change. When a turn ends the hub publishes a
result (`publishTurnResult`): worktree captured as a commit, ref moved, result and record written.
`close` is the kernel's close, then `finalizeClosure`, then the release of the lease. A sweep timer
in every hub, and the gc worker, run `recover` and `gc` over all sessions of the home. What hubs
share are files and refs only; what orders them is the lock of `locks.ts` (per session, and one
"workspace-admin" for provisioning and collection), and *not* for the mirror and the lease.


## 2. What is hard

* **Crashes between writes.** A publication is five durable writes in two stores (files and git
  refs); a deletion is five removals; a decision and the deadline of its collection are two files.
  A process may die after each.
* **Several hubs.** Recovery reads mirror and lease without a lock and acts on them later, while a
  resume of another hub changes them. `locks.ts` itself is a protocol over `mkdir` and `rename`. A
  handoff arms a deadline while a worker's pass over the old one runs.
* **Awaits.** The kernel is one thread, but the caller of a command, the pump and the close each
  await the transport or the mirror and act on what they read before. The same holds of a hub's
  tool calls, whose hub may be retired while they wait, and of the attached wire.
* **The provider's order.** Statuses, answers and the exit of the process reach the pump through a
  stream, later than the commands that were sent meanwhile. A leader may die and its helpers live;
  an exit, a timer, a stop and a failing launch come in any order.
* **Bounds.** A ring that evicts, a subscriber that falls behind, a queue of lines by count and by
  bytes, a quota of sessions: what happens at the limit is what tests seldom reach.
* **Failures of one step in several.** The mirror write fails; the stop proves nothing; the lock
  is taken; the worktree is gone; a launch fails half way.

The list `hazards` of `PROJECT.json` has each at its line, with the properties that watch it.


## 3. The modules

### Custody, CustodyProps, ResultLine

`Custody` models one session's files, one durable write a step, and several processes in them.
`record`, `pending`, `results`, `ref`, `tombstone`, `worktree` are the files of the same names;
`treeOf`, `pastOf`, `ncommits` abstract git's object store to the two things the code asks of it
(is the tree the same; is the commit an ancestor). `at` and `op` are a process's place in its
operation, and what it holds in memory is determined by them and the files it locked. `wsLock` and
`adminLock` are the two locks. A death (`Crash`) frees the locks of the process at once: the next
claim reclaims them by proof of death (module `RepoLock` looks at how).

| Code | Actions |
|---|---|
| `provision` | `AddWorktree`, `Provision` |
| `loadWorkspace`, `recoverPendingTransaction` | `ReplayRecord`, `ReplayResult`, `ReplayDone`, `Abandon`, `Loaded`, `LoadRefused` |
| `applyRefTransition`, `applyRefTransitionCaptured` | `WriteIntent`, `Capture`, `MoveRef`, `WriteResult`, `WriteRecord`, `RemoveSidecar`, with `CaptureFails`, `RefDiverged`, `PublishRefused` |
| `finalizeClosure`, `handoff`, `reopenForResume` | `CloseIdempotent`, `CloseWithoutCapture`, `Decide`, `DecideRefused`, `Reopen`, `ReopenRefused` |
| `gc`, `gcOne`, `completeDeletion` | `BeginGc`, `WriteTombstone`, `Retain`, `ContinueDeletion`, `RemoveWorktree`, `DeleteRef`, `RemoveFile`, `Removed` |
| the agent, and people | `Edit`, `LoseWorktree`, `Expire`, and `MoveRefOutside` in `MCCustodyFaults` (its variable `foreign` says whether anybody does it) |

The gates that ask the lease and the mirror are left open (`Retain`, `ReopenRefused` may always
happen): what holds does so whatever they answer. `Ownership` is about those answers.

`ResultLine` is the abstract promise, with no files and no crashes: a line of results that grows
while the session is live, a head, a decision that freezes both, a deletion after it.
`CustodyProps!Abstract` maps the files to it by reading them as a replay would: a sidecar whose
commit the ref already names *is* the transition (`Effective`). So a publication takes effect at
the move of the ref, one that leaves the ref where it is at the write of the record, and a replay
after a crash changes nothing a consumer can see.

### RepoLock

`acquireRepositoryLock`, `classify`, `tryRecover` and `release`, one file system call a step. A
directory keeps its identity through renames (`lockDir`, `aside`), because that is what the code's
paths do not see. A claim is one call and the process it runs in; removal of a directory is two
steps, its contents and itself.

### Kernel

One session over an RPC transport and its provider. A step is what JavaScript runs between two
awaits. `pump` and `closer` are what those activities await; `sending` the sends that callers
await; `writes` is `record_tail`, the serialized mirror writes; `stream` the events not read yet;
`inbox`, `held`, `running`, `alive` the provider, which is external and modelled from how
`rpc-base.ts`, `omp-rpc.ts` and `pi-rpc.ts` read it. A status event is pushed only when the
transport's status changes (`SetStatus`), an exit always, and both may wait while the kernel
goes on.

| Code | Actions |
|---|---|
| `prompt`, `dispatchTurn` | `Prompt`, `SendAnswered`, `SendFails` |
| `acceptFollowUp` | `FollowUpNow`, `FollowUpLater` |
| `cancel` | `Cancel` |
| `pumpLoop`, `handleEvent` | `ReadTurnEnd`, `ReadStatus`, `ReadExit`, `ReadOther`, `StreamExhausted` |
| `finalizeTurn`, `drainQueue` | `TurnCommitted` with `DrainProvider`, `DrainQueue`, `NoDrain` |
| `commitStatus`, `degradeOnDurableFailure` | `Lands`, `Fails`, `Degrade`, `PumpDegraded`, `CloserDegraded` |
| `crashSafely` | `Crash`, `CrashStopped`, `CrashCommitted` |
| `close`, `runCloseAttempt`, its retry | `Close`, `CloseStopped`, `CloseCommitted`, `RetryTerminate`, `RetryStopped`, `RetryCommitted` |

### Ownership

Several hubs and the providers they spawn, for one session. Each transaction of custody is one step
here (they hold the session's lock; `Custody` takes them apart), a commit of the kernel is one step
(`Kernel` takes it apart), but the mirror and the lease are read and written where the code reads
and writes them: `pass` carries what a recovery pass has read, `launch` a resume between its
reopening, its spawn, its lease and its first record. `unowned` marks providers that no file ever
named because their hub died between spawn and lease; the code cannot know them, and the
properties say so by leaving them out.

### Transport, AgyStreamJson, HermesAcp, RpcTransport, Transports

One session's transport from its creation to the end of its stream. `Transport` is what the four
classes share: the process group (`leader`, `helpers`, a SIGKILL on its way), the pipes `inp` and
`out`, and `stop()`: the chain of `attempts` with the mode and the flag its cache is keyed by, and
the `ladder` of the attempt that runs, whose rungs differ by class and mode. The kill that runs
beside `stop()` (a failed launch, a broken stream) is `background`. The dialects add theirs:
`AgyStreamJson` the turn and the follow-up queue, `HermesAcp` (which shares that state) the ACP
handshake and the permission requests with their timer, `RpcTransport` the commands with ids and
timers, the ready frame, the verification of a resume and the lifecycle frames of omp and pi.
`Transports` puts them together; the variable `plan` is the launch: class, resume or not,
permission policy and bounds, so that one run explores all of them.

The event loop takes a callback only when no continuation is due (`Turnover`), so that what is
dispatched from one chunk of stdout comes before the continuation of the command it answered. The
provider is external and free: it answers, fails, misnames the session, emits garbage, asks for
permissions, dies, leaves helpers in its group, ignores what can be ignored.

| Code | Actions |
|---|---|
| spawn, `failLaunch`, handshakes, `raceInit`, `runResume` | `AgySpawn` ... `AgyOpenFails`, `AcpSpawn` ... `AcpOpenFails`, `RpcSpawn` ... `RpcLaunchFailed`, `RpcShakes` |
| commands and texts | `AgyPrompt`, `AgyFollowUp`, `AgyCancel`, `AcpPrompt`, `AcpFollowUp`, `AcpCancel`, `AcpVerdict`, `RpcSend`, `RpcTimer`, `RpcContinues` |
| reading of stdout, fatal envelopes | `AgyReads`, `AcpReads`, `RpcReads` |
| `stop`, `shutdown`, `child.stop` | `FirstStop`, `LaterStop`, `ChainedStop`, `LadderStep`, `BackgroundKill` |
| exits | `AgyExits`, `AcpExits`, `RpcExits` |

### GcCoordinator

The durable deadline (`schedule`: ticks left, revision), the handoffs that arm it (`caller`), the
detached workers (`waiting` for the worker lock, `worker` and its `pass`), and hubs that start and
clean up (`hub`). Time is relative: a window or a deadline is the ticks left of it. What is done
under the schedule's lock is one step; a pass is one step a session, and other processes come in
between, which is what the revision is for. What a pass finds of a session besides its window is a
`blocker`, to be retried or final. `Faults` are processes that die or find a lock busy, at every
place.

| Code | Actions |
|---|---|
| `handoff` of the hub, `arm`, `spawnDetachedGcWorker` | `Handoff`, `Arm`, `ArmSpawns` |
| `runGcWorker` | `WorkerLocks`, `WorkerReleases`, `WorkerLeaves`, `BeginPass`, `PassOne`, `EndPass`, `UpdateAfterPass` |
| hub start, its cleanup, `ensureWorker` | `HubStarts`, `HubCleans`, `HubCleaned`, `EnsureWorker` |
| faults | `CallerFails`, `PassFails`, `WorkerFails`, `HubFails` |

### HubHost

One host process: the supervisor's cache of hubs (`ready`), reserved slots (`inFlight`), sweep
timers, and tool calls as chains of awaits (`call`: the repository's identity, the opening of a
hub, the status, the launch, the stop, the pending publications, custody). Hub objects are
identities that are reused once nothing refers to them; a retired hub stays in use by the calls
that hold it, as in the code. A session here runs at most one tracked command. `late` marks a call
that ends an earlier life of its session, and custody remembers what closed it (`closed`, `swept`,
`overrun`), because only the first is what `AckedPublished` promises about.

### EventRing

The ring of one session through its resumes: the sequence numbers it holds are `oldest..latest`,
the durable record counts to `committed`, and a resume seeds the ring from there. Two readers: a
live `tail` with its bounded queue, and a client that polls with the `cursor` it was given. Bodies
matter only in that the byte bound may evict more than the count does (`Push` may evict any number
that keeps the bounds).

### AttachWire

The pump of `attach-io.ts` and the wire of `cli.ts` that reads it. Stdin is a sequence of lines with
their bytes, of which so many are pulled and so many lines framed; what lies between is the framing
buffer. Both are chains of awaits, and a waiter is one whose promise no `notify` has resolved yet.
The hub is outside: a launch succeeds or not, a command settles or not, the provider may end the
session.

### ResumeHandle

What a transport reports at a launch, what `buildResume` records of it, and what `liveResumeOf`
makes of the record at the next launch, for the four providers. It is small, and has the one
finding that every user of a resume would meet (section 6).

### MC modules

`MC*` declare the model values and the inputs of a run. `MCHubProcess` puts `HubHost` and
`EventRing` in one run: they share no variable and no property speaks of both, so `focus` chooses
which of the two moves, and the state space is the sum and not the product. `MCTransports` names
the eight launches, `MCAttachWire` the five inputs.


## 4. The runs

Sizes are distinct states; the longest run takes about two minutes with two workers. All runs set
`CHECK_DEADLOCK FALSE`: a session that is deleted, a lock given back, a kernel or a transport that
finished, a wire that exited is the end of the system, and so are the bounds.

| Run | Bounds | States | Shows |
|---|---|---|---|
| `custody` | 2 processes, 2 trees, 3 commits, 2 results, revision 3, 2 deaths | 683 k | types, `CustodyInv`, `CrashResolvable`, `AckedResultsKept`, `DeletionOrdered`, and the refinement `ImplementsResultLine` |
| `custody_faults` | 1 commit, 1 result, revision 2, 2 deaths, with and without a ref somebody else moves, fairness | 330 k | `AuditKept`: what the ref contradicts is left as it is; `DeletionCompletes`: without such a ref a begun deletion ends |
| `repo_lock` | 4 claims, 2 deaths | 41 k | `ExclusiveBarringRace`, `StuckByDeathOnly` |
| `repo_lock_race` | 4 claims, 1 death | violated | `Exclusive` (section 6) |
| `kernel` | a prompt and two follow-ups queued by the hub, 1 cancel, 1 failing write | 2.4 M | `KernelInv`, `FinishedSettlesAll`, `OwnResult`, `StopProven`, `RecordIsLast` |
| `kernel_live` | a prompt and a native follow-up, 1 cancel, fairness | 772 k | `ClosingFinishes` |
| `ownership` | 2 hubs, 2 spawns, fairness | 112 k | `Accounted`, `RunningOwns`, `NeverUnderProvider`, `HubLossSettles` |
| `transports` | eight launches, two a class: resumes and fresh ones, up to 3 texts, 2 commands, a permission request, 2 attempts of stop, pipes of 1 or 2, fairness | 177 k | `ClosedProven`, `KillAuthorised`, `FailureKills`, `FollowUpsInOrder`, `ResumeNeverFresh`, `StatusTruthful`, `NobodyLeftWaiting` |
| `gc` | 2 sessions, windows of 1 and 2 ticks, retry 1, revisions modulo 4, 2 handoffs, a hub start, a blocker, a fault, fairness | 464 k | `ScheduleServed`, `DeadlineKept`, `DecidedCollected` |
| `hub` | 2 repositories with a session each, 2 calls, 3 hub identities, quota 1; a ring of 2 events, 4 numbers, 3 lives | 2.2 M | `QuotaKept`, `TimersOwned`, `AckedPublished`; `TailGapless`, `NoSilentGap` |
| `attach` | chunks and lines of 3 bytes, a queue of 2 commands and 3 bytes, five inputs, fairness | 32 k | `HardBounds`, `OnceInOrder`, `NothingLostSilently`, `EofIsNoCancel`, `WireGoesOn` |
| `resume_handle` | 2 locators, 3 launches | violated | `HandleReplayed` (section 6) |

Why the bounds are enough to be interesting.

* Custody: two processes are what the locks tell apart (the holder and another); two deaths allow a
  crash in the replay of a crash; two results allow a decision on an earlier one; three commits
  allow two publications and a capture at close; two trees are equal or not; revision 3 allows a
  session to be closed, reopened and closed again. For the end of a deletion one result is enough.
* RepoLock: the race takes a dead owner, two reclaimers and a third claim, which is four; the other
  invariants are proved for any number.
* Kernel: three commands are one in work, one with the provider, and one in the queue.
* Ownership: with two spawns a first provider is left behind and a second one started; three spawns
  (355 k states) were checked as well and show nothing more.
* Transports: a bound that is large in one launch is small in the others. Three texts are a turn and
  a queue that keeps its order; two commands in flight are answered in either order; two attempts
  are the two modes, one chained behind the other.
* GcCoordinator: two handoffs are a deadline and the one that overlaps with the pass that serves it;
  the second session keeps the first from being all a worker sees.
* HubHost: two repositories make the hub of one idle and retired by a call for the other, and with a
  quota of one each launch is at the limit. EventRing: with two of four numbers in the ring there are
  cursors evicted, at the edge, in the ring and ahead of it; three lives allow a cursor of the first
  to be used in the third.
* AttachWire: the inputs are more lines than the queue holds, lines that fill it by bytes, one that is
  too long, a close followed by more, and blank and invalid lines; a pull may take any number of
  bytes up to one more than a chunk.

`Procs`, `Claims`, `Commands`, `Callers` and `Hubs` are symmetric where a run declares it, as no
definition tells their members apart. Runs with liveness properties use no symmetry.


## 5. Assumptions, and fairness

What the models take for granted, and where that comes from:

* *Custody, Ownership:* the locks exclude. `locks.ts` breaks this in one race (`repo_lock_race`);
  the models of what is under the lock assume it.
* *Custody:* session ids are not used again (UUIDs), a file written by rename is there or not, git
  ref updates compare and swap.
* *Kernel:* `AnswersFirst`, the provider answers a command before it ends the command's turn, as
  `omp-rpc.ts` and `pi-rpc.ts` rely on. `PromptAfterHandshake`, no command before the pump has read
  the idle that ends the handshake; the code does not wait for it (section 6). Both are constants,
  so that a run states what it assumes.
* *Ownership:* `Assumed` names three things the code does not ensure and the passing run needs.
  `"sweep"`: no pass recovers the session while a resume launches it (without it `RunningOwns` fails).
  `"close"`: no hub closes a session that is over for it while another runs it; `finalizeClosure`
  checks no owner, so without it `RunningOwns` fails too. `"stop"`: a resume that fails proves the
  stop of its provider; without it the mirror keeps the "closed" of the earlier life, so that a
  later close in that hub releases the lease of a process that lives, and `Accounted` fails. Each is
  a real gap of the code, listed under `hazards`; the run shows that there is no other one.
* *Ownership, Transports:* pids are not used again; probes answer. Reading or writing a lease is one
  step.
* *GcCoordinator:* a pass overlaps with fewer changes of the file than there are revisions
  (`GcAssumption`); the code's revision is a number that only grows while the file is there.
* *HubHost:* a session belongs to one repository; calls and sessions are finitely many.
* *AttachWire:* a line within its own bound fits the queue (`MaxLine <= QueueBytes`), as the constants
  of `attach-io.ts` have it.

Fairness:

* *Custody* (`custody_faults`): a process that started an operation goes on unless it dies (`WF` of `ProcStep`); gc
  passes keep coming and now and then find the locks free and the gates open (`SF` of `BeginGc` and
  `WriteTombstone`): every hub has a sweep timer, the gc worker retries every 15 minutes, and the
  holders of a lock end. Nothing is assumed of `RemoveFile`'s order.
* *Kernel:* the pump and the close go on (`WF`): every stop is bounded by the transport's
  timeouts, a mirror write ends or fails. Nothing is assumed of the provider, nor of callers.
* *Ownership:* a hub's launches, closes and passes go on unless it dies, and finalization is not
  refused for ever (`SF`), since `LOCK_BUSY` comes from holders that end.
* *Transports:* a SIGKILL lands, and the event loop goes on: of the timers that are due, the exits to
  observe and the continuations to run it takes one (one `WF` of all). Nothing is asked of the
  provider: it may hang at any point, ignore TERM, keep helpers alive.
* *GcCoordinator:* time passes, and each process that is neither dead nor waiting for a window goes on
  (`WF` of `Tick`, `CallerStep`, `WorkerStep`, `HubStep`). Faults are never fair, and a property that
  needs their absence says so (`dropped`).
* *AttachWire:* the event loop runs what is resolved (`WF` of each such step); a tail ends only once
  its session is over. That commands settle is no fairness but the premise of `WireEnds`
  (`[]<>(inFlight = {})`); the host need not write or end stdin.


## 6. What the runs found in the code

Two statements of the repository that the program does not keep, each with a run whose
counterexample TLC prints (`findings` quotes the statement):

1. `repo_lock_race` / `Exclusive`, `src/locks.ts:201`. Between the verdict that an owner is dead and
   the rename the lock may have been reclaimed and taken again; the rename then moves a live
   owner's directory aside, a third claim creates the path, and two live processes hold the lock.
2. `resume_handle` / `HandleReplayed`, `src/kernel/interaction-kernel.ts:369`. `start` records
   `buildResume` with empty data and drops the `resume_state` the transport reported (line 582); at
   the next resume `liveResumeOf` (`hub/transport-adapter.ts:142`) misses a required field and
   throws `RESUME_STATE_INVALID` for pi, agy and hermes, after custody was reopened
   (`agent-hub.ts:345`), which stays live until a recovery closes it.

Gaps that no run states, because the passing properties exclude them, by a constant, a premise or
their wording. They were seen as counterexamples when the exclusion was dropped, the last two
while the code was read:

* `PromptAfterHandshake` (`interaction-kernel.ts:1267`): the idle status that ends the handshake is
  read after a prompt was accepted, and ends its turn as succeeded.
* `FollowUps = "native"` with `FinishedSettlesAll` (866): a native follow-up is queued after the await
  of its delivery, with nothing looked at again; if the session was closed meanwhile its future
  never settles, and `AgentHub.close` waits for it.
* `Assumed` of `Ownership` (`lifecycle.ts:949` and 441, `interaction-kernel.ts:614`): what each of
  the three stands for is in section 5. Besides, recovery leaves the lease of a dead provider in
  place (`leases.ts:152`), and the resume that custody lets through fails on it.
* `OwnerCached` of `HubHost` (`supervisor.ts:101`): a resume may attach its session to a hub that was
  retired between its `hubFor` and its launch; later calls do not find the session, and no quota
  counts it. `QuotaKept` and `AckedPublished` hold in spite of it.
* `NothingMissed` of `EventRing`: a record is written now and then, and a resume counts on from it, so
  numbers that a polling client saw after the last commit are stamped again, and it is not told of
  the events it misses; `hub_events` of `mcp.ts` calls its sequence numbers gapless. `NoSilentGap` is
  about the numbers above the cursor the client brought.
* A deletion of a session whose head never advanced (`store.ts:578`) may die with a result file gone
  and the record in place; every later pass retains it as `results-missing`. `AdvancedDeletionCompletes`
  is the part that holds.
* `OnceInOrder` of `AttachWire`: stdin that fails in the middle of a line hands over the part that came;
  the second disjunct of the property is that case.
* A launch that is refused (`cli.ts:897`) leaves the attached pump undisposed, and with it the process
  waiting for stdin.
* `resume --attach` tails from number 0 on a ring that was seeded above it, which is an expired cursor,
  so that the wire exits with an error.


## 7. What is proved

For every value of the constants, from the named assumptions of the modules: `CustodyAssumption` (the
bounds are naturals, the base tree is a tree), `NoneAssumption` (an absent file is none of the
contents a file can have), `RepoLockAssumption` (`None` is no claim), `KernelAssumption` and
`OwnershipAssumption` (`None` is no command and no provider, the bounds are naturals), `GcAssumption` (one of the
retention windows is the longest; fewer handoffs than revisions), `EventRingAssumption` (a
ring of at least one), `HubHostAssumption` (each session has a repository; sessions and calls are
finite), `TransportAssumption` and `RpcAssumption` (what a launch and a command can be), `AttachWireAssumption`
(positive bounds, a line fits the queue, the inputs are sequences of lines). The bounds
stay in the guards, and as they are arbitrary the theorems hold of runs of any length. Where a
theorem has a hypothesis of its own, the run that checks its property makes the same choice of
constants.

Two things recur. The library's induction takes a predicate as a parameter, which this prover cannot
give it, so induction is over *sets* of naturals: a set that is not empty has a least element
(`LeastNatural` of `GcCoordinator_proofs`), and one that has 0 and every successor has them all
(`Induction` of `AttachWire_proofs`), both from the library's theorem about `<`. And a step invariant is proved one action at a time,
each from the few parts of the invariant the action can disturb.

**Custody** (`Custody_proofs`). `CustodyInvariant` is
`Spec => []CustodyInv`, and `TypeCorrect`, `CrashesResolve`, `AckedResultsStay`,
`DecisionsStayExact`, `DeletionsInOrder` follow from it. None of those five is inductive.
`CustodyInv` says what is known at each stage:

* `Locked`: who is inside holds the lock that place needs, so that two processes are never inside;
* `SidecarInv`: the record is as `Before` the planned transition, with the ref at either end, or as
  `After` it. This is what lets a load tell one from the other, and what a crash leaves;
* `Stage`: what a process at each place relies on without reading it again;
* `LineInv`: every result up to the last is there, and the head reaches it;
* `AckedInv`, `DecisionInv`, `DeletionInv`: what was announced, decided and deleted;
* `Alone`: files of the custody directory go only under the lock, or when the record is gone.

The module has one lemma per action that writes a file: it preserves `FilesInv`, from what the place
of its process says. Then the same of locks and places; the steps are put together by the disjuncts
of `Next`, and the theorems derived.

`AuditIsKept` (`SpecWithForeignRef => AuditKept`) needs no invariant, which is the point of it: every
write that a load can bring about is guarded by the ref being at one of the two ends of the
sidecar's transition, or at the head of the record, so that the step formula alone shows that
nothing of a contradicted session changes, however it came to be contradicted.

The last part shows that the files implement `ResultLine` (`CustodyImplementsResultLine`):
initial states map to initial states, and under `CustodyInv` every step maps to a step of the line
or changes nothing a reader can find. The argument is about when a transition takes effect. While
the ref proves the sidecar's commit, readers find the planned record (`Effective`), because the next
load replays it. So a publication or closure with a commit takes effect when the ref moves; one
that made no commit, at its capture if the ref already names the head, or when the record is
written if there is no ref; the record's later write and every replay go unnoticed (`Unnoticed`).
Closures without a worktree, reopenings and decisions take effect with the record, and a deletion
with its tombstone.

**RepoLock** (`RepoLock_proofs`). `LockOrderly` is `Spec => []LockInv`; `LockExclusive` and
`LockStuckByDeath` follow. `LockInv` is conditional on `NoRace`: as long as no two claims have judged
the same owner dead, a claim in the lock is the directory's creator, and what was renamed aside is
what was judged. So the race of finding 1 is the *only* way to two holders.

**GcCoordinator** (`GcCoordinator_proofs`). `DeadlineServed` is `Spec => []ScheduleServed`: with the
places of handoffs it is inductive, because a deadline is handed from the handoff that armed it
("spawning") to a worker that waits, from there to the one that holds the lock, and a worker leaves
only when there is no deadline.

`DeadlineIsKept` is `Spec => []DeadlineKept`, from `KeptInv`. The hazard is a pass that read an old
deadline and updates the file after a handoff armed a new one. The argument counts: a pass overlaps
with fewer arms than there are revisions, so that a revision the pass finds unchanged means that
nothing was armed since it began. Then every session that is owed a collection was there when the
pass began, and the pass saw it and has retried it, or given it up for good. That no window is put
off follows from the file holding the least of what was asked for since the last pass.

**Kernel** (`Kernel_proofs`). Two invariants. `EndInv`, for every value of the constants (native
follow-ups, providers that end a turn before they answer, and all), follows the serialized writes
of the mirror: whose they are, which stage of the pump or of a close waits for one, and what the last
of them will say. `StopProvenAlways` and `RecordIsLastAlways` follow. `TurnInv` adds whose turn it is:
of a command, its frame, its running and its answer at most one exists at a time, an abort follows
only a command that was cancelled, and the end of a turn is told once. It needs `HubQueued`: the
provider answers first, prompts come after the handshake, and the hub holds the follow-ups. From it
follow `KernelInvAlways`, `FinishedSettlesAllAlways` and `OwnResultAlways`. The hypothesis cannot be
dropped: with native follow-ups TLC finds `FinishedSettlesAll` and `OwnResult` violated (section 6),
and with three of them `KernelInv`.

**Ownership** (`Ownership_proofs`). `AccountedAlways`, `RunningOwnsAlways` and
`NeverUnderProviderAlways`, for any hubs and any number of providers, under `Secured`: the three
assumptions of the run (section 5). `OwnInv`: one hub at a time launches or runs the session, and
nobody closes it meanwhile; what a pass has read of mirror and lease still holds when it acts on it;
and a provider that lives and was not lost with its hub is the launch's own or the one the lease
names. Less is enough for two of them, as TLC shows: `Accounted` holds with `"close"` and `"stop"`, and
`RunningOwns` with `"sweep"` and `"close"`; `NeverUnderProvider` needs all three.

**Transports** (`Transports_proofs`), for launches of all four classes and any bounds.

* The types are not inductive alone: that a command's id stays within `MaxReqs` holds because the
  handshake has one command or one answer of it under way at a time (`ShakeInv`), so that its length
  is known. `Sound` is both.
* `ClosedProvenAlways` is `Spec => []ClosedProven`, from `ProcessInv`: a ladder that looks at the group
  has observed the exit, an exit is observed of a dead leader, and nothing spawns after it.
* `KillIsAuthorised` is `Spec => KillAuthorised`: a graceful ladder has no KILL in any class, and the
  kill beside `stop()` is armed only where a launch fails or the stream breaks (`KillInv`).
* `ResumeNeverFreshAlways`: what an init, a `session/load` or a `get_state` said of the session stays
  true of it while the answer waits in the pipe and while `open()` waits to go on (`ResumeInv`).
* `FollowUpsInOrderAlways`, from `OrderInv`: what was delivered comes before all that is queued, both
  increase, and the end of a turn that hermes has still to tell is of a text accepted. After the exit
  was observed a prompt to hermes may still be "delivered" into the void past what is queued; the
  invariant then says that no end of a turn in the pipe is that prompt's, so that the queue is not
  drained behind it.
* `StatusTruthfulAlways` is `Spec => []StatusTruthful` where no caller asks for the status
  (`"status" \notin Steering`, as in the run). Its invariant, `StatusInv`, says of the whole pipe what
  the property says of the last frame read: between two lifecycle frames the provider is where the
  first of them left it, so that a run goes on only behind a frame that says running, and a prompt
  settled locally or an abort is answered only where none does (`FramesInv`); an answer is of the
  command that waits under its id (`Matched`); and nothing of a turn precedes the end of the launch
  (`Early`). The hypothesis is needed. With `"status"` in `Steering` TLC finds `StatusTruthful`
  violated by a trace of 22 states: `send()` applies the answer of `get_state` in a continuation, after the frames
  of the same chunk, so that "still" overwrites the `agent_start` read behind it and an open session
  shows idle in a turn until its next lifecycle frame (rpc-base.ts:569-571).

The attempt to prove `RpcTransport`'s types found a mistake of the model: the arms of two `CASE`
expressions overlapped, which leaves their value open (TLC takes the first arm). They are disjoint
now (`Breaks`, `RpcSettles`).

**EventRing** (`HubProcess_proofs`). `PollingToldOfGaps` is `RingSpec => []NoSilentGap`. What it needs
to be inductive (`PollInv`): a cursor that is ahead of the ring is one of an earlier life, so that
what it passed over is not of this one. `TailHasNoGap` is `RingSpec => []TailGapless`, from
`TailInv`, which says of the queue number by number (`Follows`) what the property says of it as a
sequence; a lemma for each operation of the queue (`Emit`, `Complete`, a read, a subscription).

**HubHost** (`HubProcess_proofs`, the module of both, as `MCHubProcess` is). `SweepsAreOwned` is
`HubSpec => []TimersOwned`, inductive with the types. `QuotaIsKept` is `HubSpec => []QuotaKept`,
from `HostInv`: the types, calls with the sessions they need, a slot for each launch under way, and
the count of the sessions that cached hubs run together with the launches on cached hubs, which each
action changes by at most one. The quota holds for any number of hubs although hubs are retired and
replaced, because one that is retired takes neither a running session nor a launch with it.

`AcceptedArePublished` is `HubSpec => AckedPublished`. It follows from `SessionOpen`: the custody of a
session that a kernel knows, or whose command is to be published, is live or was closed by a sweep or
on behalf of an earlier life. That is inductive only with `CallStage`, which says what each call that
is under way may rely on while others go on: a start has its session for itself until it provisions,
one launch at a time attaches a session, and a close or a failed start that no new life outran finds
a kernel that is through with the session.

**AttachWire** (`AttachWire_proofs`). `HardBoundsAlways`, `OnceInOrderAlways`,
`NothingLostSilentlyAlways` and `EofIsNoCancelAlways`, for inputs of any number of lines, cut into any
chunks, and any bounds. The first part is about data: that the recursive functions of the module
exist (`Recursion`), what `Bytes`, `EndOf` and `Texts` compute line by line, that the lines framed in
two parts are those framed at once (`TextsConcat`) and that no line but a blank one is left out
(`TextsHave`). The invariant `Inv` has two further parts.
`PumpInv`: until the pump settles, what was handled, held and queued is exactly what was framed; a
pump that pulls leaves no whole line unframed (`Rest`), which is why the line left at the end is the
last that came. `WireInv`: the wire ends by a close or by the end of stdin, and by the latter only
once the pump has settled and the queue is empty, so that on this path nothing can be queued behind
the wire's back. A pump that settles without passing a bound has framed all that came, or a close
came first (`AllFramed \/ Closed`); a bound that was passed is a `readError`, and makes the end unclean.
For these proofs the module sums and selects with recursive functions whose steps are one
line each; the states that a run reaches are the same.


## 8. Only checked, and not modelled

Only model-checked: what is temporal (`DeletionCompletes`, `ClosingFinishes`, `HubLossSettles`,
`FailureKills`, `NobodyLeftWaiting`, `DecidedCollected`, `WireGoesOn`), since liveness under fairness is
beyond this prover. Every invariant and action property of a passing run has its theorem.

Left out of the modelled parts:

* custody: gc's removal of unclaimed leftovers after it released the admin lock, and reads (`list`,
  `inspect`);
* kernel: steering, permission answers and status requests as it forwards them, byte bounds;
* ownership: corrupt or foreign leases and probes that cannot tell (they refuse what a living process
  refuses), reaping (no caller asks for it), reused pids;
* transports: framing, the contents of tool and text updates, usage, the wording of errors;
* gc worker: the working directory it chooses;
* hub: `closeAll` (no caller), the wait for an asynchronous command by its id, which reads what is
  settled; what a cleanup does to a session is in `Ownership`;
* event bodies and documents: only their numbers and their bytes count.

Not modelled: the live session manager, which no entry point reaches (`hub/transport-adapter.ts` takes
only factories and types of it); bootstrap and probes, argument parsing, schemas, integrations,
pairing and git access, since they parse, print or run one command and keep no state that two
steps could disagree about.


## 9. Plan

Written in this order: `ResultLine`, `Custody` with `CustodyProps`, its proofs and refinement; `RepoLock`, its
proofs; `Kernel`; `Ownership`, which composes the outcomes of `Custody` and `Kernel`; the transports;
`GcCoordinator`, its proof; `HubHost`, its proofs; `EventRing`, its proofs; `AttachWire`;
`ResumeHandle`; then the proofs of `Kernel`, `Ownership`, the transports and `AttachWire`.

Next theorems: that a transport's detailed module keeps the promises of `Transport` step by step, and
what more than one component must agree on (`Ownership` over the outcomes of `Custody`).

Next modules: steering, permission answers and status requests in `Kernel`; the asynchronous commands
of `HubHost`. The live session manager only if an entry point takes it up again.
