# A verification project for the b4 runtime

This directory specifies the parts of the runtime in which several actors meet,
checks them with TLC on small instances, and proves with TLAPS, for every value of
the constants, their safety properties and, from named hypotheses, some that say what
happens in the end. Paths below are relative to the
repository; `RF` is `packages/cli/src/lib/dev/runtime-fetch-core.ts`.

## 1. The system

A b4 server serves the *threads* of agents and workflows. A request starts a
*run*: the route's code executes, writes checkpoints, may *park* on an interrupt
that waits for a human decision, and is resumed by a later request.

| Component | State it keeps | Operations | Talks to |
|---|---|---|---|
| Run registry (`run-registry.ts`) | one slot per thread | begin, release, claim, cancel | every run endpoint |
| Run endpoints (`RF`, `agui-handler.ts`) | per request: place, route, flags; shared: the route map, the resume claims | runs/stream, runs/wait, resume, agui, cancel, DELETE | registry, stores, route code |
| Threads store, checkpoint saver (`sqlite-storage`) | the thread's row; its checkpoints and pending interrupts | create, updateStatus, updateMetadata, delete; the saver's writes | called by the endpoints and by LangGraph |
| Request lifetime (`RF` 227-248, 482-896) | per-request stores, counters, controllers, disposals | arrival, dispatch, body settle, run release, close | registry, stores |
| Live turn hub (`live-turn-hub.ts`) and attach (`RF` 2627-2869) | a live turn per thread: digest, subscribers, their queues | open, publish, close, attach, next, detach, closeAll | run endpoints publish, viewers read |
| Sandbox manager (`sandbox-manager.ts`) | an entry per thread: handle or acquire, last use | getForThread, reapIdle, destroyThread, releaseAll | provider; called by turns, a timer, DELETE, close |
| Docker provider (`sandbox/src/docker`) | lifecycle state and generation per thread; the keeper container | acquire, release, destroy, exec, recovery | the gate, docker |
| Lifecycle gate (`thread-lifecycle.ts`) | per thread: running operations and a queue | runShared, runExclusive | Docker provider |
| Kubernetes provider | the pod and the volume claim of a thread | acquire, release, destroy | Kubernetes |
| Access policy (`thread-gate.ts`) | nothing | gate, gated create | every endpoint |
| Permissions stores | grants in memory and in a file or table | load, match, addAllow | the permission gate of core |
| Memory stores | records, embeddings | put, search, supersede, approve, browse | core's capability, the inspector |
| Dev session, dev child (`dev-session.ts`, `dev-child.ts`) | the current child, what `stop()` awaits, restart flags | start, change, restart, close, fail | file watcher, child process |
| LangGraph adapter, AG-UI translator | what one stream has seen | translate an event | route execution |
| Inspector (`inspector/src/browse`) | the browse machine: question, resident rows, request in flight | edit, load more, poll, retry, respond, fail | memory endpoints |
| Release publisher (`scripts/release/publisher.mjs`) | nothing between runs; in a run: its pass, package and readings | read, sweep, publish, wait, report | npm registry; started by a workflow |

What makes it hard:

* **Interleaving.** Handlers are single threaded but await: a thread's row, its
  slot, its pending set and its route map are read before an await and used
  after it, by up to six kinds of requests at once.
* **Response life is not run life.** A cancelled, disconnected, abandoned or
  shut-down response ends before the code it started. The slot, the stores, the
  resume claim and the sandbox have to follow the *code*.
* **Failure.** Stores throw in the middle of a settle, the process dies between
  two writes, docker commands fail or are aborted, a container runs out of PIDs.
* **Order.** DELETE's two deletions, a settle before the last chunk is seen, a
  late failure of an acquire that another has replaced, a stale recovery token.
* **Timeouts.** The reaper, the drain deadline of `close()`.
* **Processes.** `b4 dev` replaces a child process on a port that only one may
  hold, while files change, the child dies, and the session is being closed.
* **Others.** The store under the browser's window and the registry under a
  release are written by others between any two reads, and the registry shows
  what it has accepted late and part by part.
* **Bounds.** Viewers, queue lengths and byte counts of the hub.

Correctness, by component, is the list of properties in section 4;
`PROJECT.json` lists the hazards by line and the properties aimed at each.

## 2. The modules

| Module | Models | Status |
|---|---|---|
| `RunRegistry` | `createRunRegistry` | whole |
| `ThreadRuntime` | the run endpoints, cancel and DELETE on one thread; instantiates `RunRegistry` | partly |
| `ThreadTurns` | what the endpoints promise: routes take turns | abstract |
| `RequestLifetime` | the lifetimes of a request's resources, `close()` | whole |
| `LiveTurnHub` | the hub, its producers, the attach handler | whole |
| `KeyedGate` | the lifecycle gate with the gate objects that come and go | whole |
| `FairLine` | what the gate promises: one fair line | abstract |
| `SandboxManager` | the manager over a provider that serves in order | whole |
| `DockerSandbox` | the Docker provider over `FairLine` | partly |
| `DevSession` | the dev session, its child process and both kinds of `stop()` | whole |
| `MemoryBrowse` | the browse machine and reconciliation over the SQLite store's keyset windows | partly |
| `ReleasePublisher` | the serial publisher in its normal mode, over an eventually consistent registry | partly |
| `MC*` | the instances TLC checks | |
| `*_proofs` | the theorems | |

`ThreadRuntime` composes `RunRegistry` (`Registry == INSTANCE RunRegistry`): its
`Begin`, `Release` and cancels are the registry's actions conjoined with the
handler's. `DockerSandbox` composes `FairLine`, and `KeyedGate` is shown to
implement `FairLine` with its fairness, so what the provider relies on is what
the coordinator does. `SandboxManager` relies on the same order (its `calls`).

### How state and actions correspond to the code

*`ThreadRuntime`.* Every map of the runtime is keyed by thread id, so one
thread `Tid` shows all interaction. `pc[q]` names the await at which request `q`
is; an action is the code from one await to the next, with every synchronous
call it makes. `row`, `ckpt` are the store's row and the latest checkpoint,
`routeMap` is `threadRouteMap.get(Tid)`, `resumeClaim` the set of
`createPendingResumeClaims` at `Tid`. The locals that survive an await are
variables: `route` (routeKey), `prevParked` (previousParkedRoute), `sampled`
(interruptIdsBefore, or the snapshot a resume was checked against), `saw`
(sawInterrupt), `late` (settleAfterRouteUnwinds). `exec[r]` is the route code:
it starts, may write checkpoints (`GraphStarts`, agent routes only), may park an
interrupt, and ends; it is external, so it does these in any order and at any
time, also after it was aborted. The four run endpoints share one path with
guards that name the endpoints a step belongs to, because the code shares it
(admission, claim, mark, settle, status, release); the arms that differ
(`Respond`, `SampleBefore`, `Deferred`, `FreesSlot`, `RejectResume`) are
definitions of their own. `killed` and `raced` are history variables, and
`issued` names who parked which interrupt.

*`RequestLifetime`.* `lifetime[q]` is the `RequestLifetime` record, `active`
is `state.activeRequests`, `liveCtls` the set `liveShutdownControllers`,
`disposal` the promises in `pendingDisposals`. A run holds its slot by `held`
and its route code is in `executing`. `StreamSettlesAgain` is a body that is
cancelled after it ended. `timedOut` records that the drain met its deadline.

*`LiveTurnHub`.* A turn is the object `open` creates. A frame carries the
numbers of the chunks merged into it, so that concatenating texts is
concatenating `data`; its size is that number and an overhead, which keeps what
the byte caps depend on: a merge adds less than a frame does, and frames differ in
size. `sent` and `since` are history.

*`KeyedGate`.* A gate object is the `ThreadState` of a thread id; it leaves the
map when it is idle and an operation submitted before may still refer to it, so
objects are values of `Gate` and `state` is the map's entry. `order` is history.

*`SandboxManager`.* An entry object has the name of the turn that created it.
`calls` are the provider calls under way. A failed acquire may leave compute
behind (`Leftover`), and so may a removal: the Docker provider's `release` and
`destroy` swallow a `docker rm` that fails (`Removed`), when the manager has
forgotten the entry. `released`, the entries a removal was asked for, is history.
Time is not a number: an entry is either touched after a
reaper's scan or past the cutoff.

*`DockerSandbox`.* A lifecycle state has the name of its acquire, a keeper is a
number, a container with the thread's name is `keeper`. A docker call may fail
at each of its places, with or without its effect. `Restart` drops what is in
memory and keeps the container.

*`DevSession`.* `loop` says who runs `startOrRestart` (`restartInFlight` is
`loop = "restart"`), `pc` at which of its awaits it is; `stop[s]` is the call of
`SpawnedDevChild.stop` that the loop, `close()` or `failFatal()` awaits, from
SIGTERM over the grace window to SIGKILL. A process is its state and the version
of the sources it was built from; a child that exited has a code, one that a
signal killed has none, which is what `stop()` looks at. `Ended` is the end of
the command, after which the parent process exits, wherever the loop is.

*`MemoryBrowse`.* The reducer's state field by field, one action per event;
`requests` are those the hook has sent, in the order-free way they come back.
A row is its id, `updatedAt` and status; a cursor is the question, the time and
the id. The fields `asked` and `readAt` of `fulfilled` are history.

*`ReleasePublisher`.* `pass`, `index` and `next` are the place in
`publishManifestSerially`; each read of the registry is an action, and what the
code computes from it belongs to that action. `held` is what the registry has,
`shown` the facets of it that reads return by now. `Stops` ends a run at any
place: a read that fails, the deadline, a runner that dies. `sent`, `seen` and
`warned` are history.

## 3. Runs, bounds and fairness

Each run answers one question; `PROJECT.json` lists them with their properties.

* `runtime_turns`: a stream, a wait and a cancel with one failing store
  operation, one crash and a shutdown. Two routes, one of them an agent route,
  because the gate of a parked thread is about the *other* route; two interrupts
  beside, because a stale reading needs one before and one after.
* `runtime_resumes`: an AG-UI turn and two resumes, one per surface, which may
  disconnect, with a DELETE and one failing store operation. `NobodyIsStuck`, which
  the liveness proofs have as a hypothesis, is checked here, where requests meet most
  awaits; the instances of `runtime_turns` and `runtime_live` have been checked for it
  with the same result.
* `runtime_live`: a wait, a resume and a cancel with one failing store operation
  and one crash, under fairness: who asks is answered, who holds lets go, and the
  handlers implement `ThreadTurns`.
  Every property about runs is about pairs of them, and a third request is there
  to come between; two of one kind would run the same code.
* `lifetime`: two requests, two runs (so that one request may have both), two
  callers of `close()`, under the fairness of the closers' timers alone.
* `hub`: two turns that replace one another under two viewers, three chunks in
  all, queues of two frames and four bytes, a digest of seven bytes: merging,
  truncation and overflow by count and by size all happen.
* `gate`: two shared and two exclusive operations and as many gate objects, with
  fairness and the refinement: one of each kind runs while one of each waits.
* `sandbox`: three turns (an entry, its successor, and one that joins either),
  two reaper passes, one delete, one shutdown; acquires and removals may fail.
* `docker`: two commands on the handles of two acquires of possibly different
  configurations, one release, three keepers, restarts at any time, under
  fairness. The second command is the one that asks for a recovery the first one
  has already made, the second acquire the successor lifecycle.
* `dev`: five children, three changes and one child killed from outside, under
  fairness: a restart that is superseded by a change, that fails and is tried
  again, and that is under way when the session ends. `NobodyWaitsInVain`
  is the hypothesis of the liveness proofs.
* `browse`: four rows, three of them there at first, a page of one row and a cap
  of three, and three troubles (writes, failing requests, new questions) at any
  time, under fairness. The window has a head, a tail and a row beyond the cap.
* `release`: three packages (one before, one at and one after the run's place),
  two runs that stop somewhere, one publication by another, under fairness. Three
  packages with two publications by others, and two packages with three stopped
  runs and two publications, have been checked with the same result.
* `delete_race`: the smallest instance that shows the disagreement (below).

The bounds are constants of the modules and guards name them: `MaxInterrupts`,
`MaxFaults`, `MaxCrashes`, `MaxPublish`, `MaxKeepers`, `MaxChanges`, `MaxKills`,
`MaxTrouble`, `MaxOthers`. The proofs do not depend on their values. Deadlock is
checked in `release`, where a next run can always start. It is not checked
elsewhere, because requests, children and rows are finitely many: a model in
which each has been answered, or whose session has ended, has nothing left to do.

**Fairness.** A handler takes the steps it can take (the event loop), a client
need not send anything. `RouteFairness` says that the code of a route
terminates; nothing in the repository bounds it, so it is an assumption, stated
as a definition of its own, and the runs that need it say so. `KeyedGate`,
`FairLine` and `DockerSandbox` assume that a docker command ends: an exec has a
configured timeout at most, and release and destroy run without a signal, so
this too is an assumption about docker. The hub's properties need no fairness.
`DevSession` assumes the parent's own steps and timers, that a child that starts
comes up or ends, and that SIGKILL works; a child may ignore SIGTERM. One child
lives at a time (`OneChild` is proved), so the child's fairness names none.
`MemoryBrowse` assumes that requests are answered and that the hook polls;
`ReleasePublisher` that a run proceeds or is stopped, that the workflow's
schedule or a maintainer starts the next one, and that the registry shows what
it accepted at last. `CloseReturns` is
checked under fairness of the closer's own timers only: nothing else has to end;
`StoresAreDisposed` states the rest (`HandlersRun`) as its own premise.

**Where the code disagrees with what is written about it.** One run ends in a
counterexample to a comment, a finding in `PROJECT.json` with the quotation:
DELETE's in-flight check can be overtaken by a run that read the row before
(`delete_race`). `NoStrandedPrompt` states the exception (`raced`).

The models contain further behaviours of this kind, which no run reports:

* a shutdown frees the slots of streams whose routes still execute, so sandboxes
  are released under them (`FreesSlot`; `SlotCoversExecution` excepts it);
* a cancel may settle a stream before the chunk of a durable interrupt is seen,
  and the park is not recorded (`ParkRecorded` excepts it; `RF` 2513);
* a resume is checked before its slot is claimed, so it may start on a pending
  set that was replaced (`ReadPending`, `Begin`);
* AG-UI leaves the route map behind, so POST /resume may re-invoke an older route
  (`MarkRoute`, `ResumeRoute`);
* the reaper takes the sandbox of a turn that runs for longer than the idle
  timeout, and may drop an entry that replaced the one it scanned (`Visit`);
* `releaseAll`, which is to "release() everything" (`sandbox-manager.ts` 15), passes
  over a sandbox whose entry the late failure of another acquire removed: a delete
  drops an entry that is acquiring, a turn creates the next one, the first acquire
  rejects, and its handler deletes the thread's key without looking whose entry it
  is (`AcquireFailed`; `sandbox-manager.ts` 55). DELETE refuses while a run is in
  flight, so in the server this takes the window of `delete_race`; the manager
  itself does not exclude it. `OnlyALateFailureHides` allows just this step;
* a `docker rm` that fails is not told, so compute the manager has forgotten may
  run on until something acquires or removes the thread again, also after a
  shutdown (`Removed`, `RemoveEnds`; `docker-sandbox.ts` 351, 357). The
  manager's properties therefore speak of the removals it asks for;
* a second `close()` returns at once (`CloseAgain`);
* a failed acquire within a lifecycle leaves its state without a keeper
  (`AcquireCreateFails`);
* when a signal kills the serving dev child, `failFatal` awaits a close event
  that is in the past, so `failFatal` never settles the session and the error
  that names the exit is never printed; the process stays, or Node ends it without
  that error once nothing is left in its event loop (`Ends`, `Stop`; `dev-session.ts` 292;
  `RestartsAndEndingsEnd` and `NobodyWaitsInVain` except it);
* `close()` during a restart finds no current child, and the parent's exit leaves
  the one the loop has started (`Close`; `OnlyARestartLeavesAChild` allows just
  this);
* a newer version that somebody publishes between a run's sweep and its own
  publication is taken over by the candidate's tag (`Shows`; the sweep cannot
  exclude it, and the design, `docs/superpowers/specs/2026-08-09-release-integrity-controller-design.md`
  216, asks for a reading, not for a lock).

## 4. What is checked

* *Slots.* `SlotCoversExecution`: a route that executes holds its thread's slot, while the
  server is open and, except for the runs a shutdown aborts, while it closes.
  `TakesTurns`: the handlers implement `ThreadTurns`.
* *Cancels.* `CancelHitsHolder`: a cancel reaches the run that holds the slot,
  never one that has been released since, or its successor.
* *Parked prompts.* `ParkRecorded`: a prompt whose turn saw it stays gated on the
  route that parked it, whatever runs since. `NoStrandedPrompt`: losing the row
  does not strand a prompt. `NeverStuckBusy`. `ResumesSerialized`.
* *Ends.* `EveryRequestAnswered`; `HoldersLetGo`: whoever has the slot or the
  resume claim gives both back; `StoresAreDisposed`, `CloseReturns`, `CallsEnd`,
  `RestartsAndEndingsEnd`. *Nobody is stuck*: `NobodyIsStuck` and
  `NobodyWaitsInVain` say that in every state each await has a step that ends it,
  whatever the others did and whatever failed; with fairness and a distance that
  falls, the ends follow (section 5).
* *Lifetimes.* `CountersAreExact`, `StoresOutliveTheirUsers`,
  `ShutdownReachesEveryRun`.
* *Hub.* `ViewIsExact` (neither gap nor repetition, snapshot and tail together
  read like the turn), `AccountsAreExact` (byte counts against the queues they
  count), `EndsAreTold` (a viewer ends last, once, and for the reason there was).
* *Gate.* `KeepsTheLine`: it implements `FairLine`, so that
  everyone's turn comes.
* *Sandboxes.* `ServedHandleIsLive`, `WaitersHaveACall`;
  `OnlyALateFailureHides` (a sandbox gets out of the manager's sight without a
  removal asked for only by the late failure of section 3);
  `CommandsKeepTheirKeeper` (no recovery removes the keeper under another
  command), `RetryMeetsTheNextKeeper`, `ServesItsOwnKeeper`.
* *Dev.* `OneChild`: never two children alive. `ServesTheLatest`: between
  restarts, the child that serves was built from the latest sources.
  `OnlyARestartLeavesAChild`: a command that ends leaves no child, unless it ends
  in the middle of a restart. `RestartsAndEndingsEnd`, unless `stop()` waits
  for a child that a signal has ended.
* *Browse.* `AnswersOneQuestion`, `NothingIsSkippedOrDoubled` (pages of a table
  that others write), `NothingIsEvicted`, `PollingConverges`.
* *Release.* `DependenciesFirst`, `NeverRepublishes`, `NewerEndsTheRun`,
  `ResultsAreTrue`, `Completes`: reruns find their place and finish the release.

These are proved (section 5), so no run repeats them: `EntryIffHeld` and
`AbortTracksSources` of the registry, `SlotMatchesHandlers` (no path leaks a slot or
frees it early), `OneRouteExecuting`, `CancelOnlyObserved`, `ConflictsInOrder` (of
two operations that may not run together the earlier starts first), `ExclusiveRunsAlone`, `MapHoldsTheBusyGate`, `NobodyWaitsForNobody`,
`LiveControllersExact`, `FirstCloseLeavesQuiet`, and the type invariants of every
module with a proof.

Every property of a run has a mutant: a form of one definition with a plausible
bug that makes the property fail under the same configuration.

## 5. What is proved

For every value of the constants that satisfies the named assumptions (the sets
of requests are disjoint, the null values are not members, bounds are naturals):

* `RunRegistry`, at the end of `ThreadRuntime_proofs`, as an instance with its own
  constants (`Reg`): typing, `EntryIffHeld`, `AbortTracksSources`,
  `CancelHitsHolder`, however its methods are called. The inductive invariant is
  their conjunction. (`RegistryAssumption` is a definition that these theorems have
  as a hypothesis.)
* `ThreadRuntime_proofs`: typing, `SlotMatchesHandlers`, `SlotCoversExecution`,
  `OneRouteExecuting`, `ResumesSerialized`, `CancelOnlyObserved`,
  `CancelHitsHolder`, `NeverStuckBusy`, `NoStrandedPrompt`, `ParkRecorded`. None of
  them is inductive: that routes exclude one another follows from the slot's exactness
  and from where a handler may be while its route executes, so the invariant
  relates `handle` to `pc` (`HandleInv`), `aborted` to its two sources
  (`AbortInv`), and `late` to `exec` and `pc` (`LateInv`), beside the slot's
  exactness and the claim's holder. `NoStrandedPrompt` rests on who has raced a
  DELETE while it is at work (`RacedInv`) and on whom a row is owed to (`RowInv`);
  `ParkRecorded` on whose the pending interrupts are while a run holds the slot
  (`OwnInv`) and on a sample that is older than the run's own park (`IssuedInv`).
  The proofs go action by action. `HandlersTakeTurns` is the safety part of
  `TakesTurns`, for a server that cannot be shut down: since one route at most
  executes, the turn is determined (`TurnExact`), and each step that touches a route
  starts or ends it.
* `LiveTurnHub_proofs`: typing with the queues' limits, `ViewIsExact`,
  `AccountsAreExact`, `EndsAreTold`, for any turns, viewers, chunks and caps. The
  invariant (`HubInv`) adds to them that an open turn has not ended (`OpenInv`),
  that a digest that was kept has at most one frame of a subagent's call, counts its
  bytes and reads like what was sent (`DigestInv`), that a viewer who attached in
  time missed the end (`SnapInv`: so that a sleeper with an empty queue has the
  terminal frame before it), who holds a place (`PlaceInv`), and where a viewer that
  rests stands (`RestInv`). That `appendCoalesced` keeps a digest faithful is
  `Coalesced`: `MergePlaceFinds` shows that no later frame is of the same call, so
  joining there reads like appending (`TextJoined`), and the bytes added are the ones
  counted (`BytesReplace`). `TotalBytes` and `Text` are recursive functions on the
  positions of a sequence. What they do is proved by induction on the position, from
  the well-foundedness of the naturals (`Induction`: a set of naturals that has 0 and
  the successors of its members is `Nat`), which needs no operator parameter.
* `KeyedGate_proofs`: typing, `ExclusiveRunsAlone`, `NobodyWaitsForNobody`,
  `MapHoldsTheBusyGate`, `ConflictsInOrder`. The invariant adds that only the gate
  in the map has operations, that what runs on it is one exclusive or all shared, and that a
  queue's head conflicts with what runs; for the order, that what waits is the end
  of the order of submission, so that drain starts a prefix of the rest.
  `GateKeepsTheLine` is the safety part of `KeepsTheLine`: the gate implements
  `FairLine`. The line is what has not settled, by its place in the order (`Unfinished`);
  the invariant keeps a numbering of the unsettled places (`LineInv`), there is only
  one (`CountsByPlace`), draining loses nobody (`DrainMoves`), so that an enqueue
  appends a place and a settlement takes one away, and that nothing before it
  conflicts with it is `ConflictsInOrder`. With the proofs of `DockerSandbox`, which
  is written over `FairLine`, this reaches from the queue's code to the containers,
  for safety.
* `RequestLifetime_proofs`: typing, `CountersAreExact`, `StoresOutliveTheirUsers`,
  `ShutdownReachesEveryRun`, `LiveControllersExact`, `FirstCloseLeavesQuiet`. The
  invariant adds, per lifetime, when it is settled and what its controller can
  be, and who may be the first closer. The counters are cardinalities of finite
  sets, so the module assumes finitely many requests and runs.
* `DockerSandbox_proofs`: typing, `ServesItsOwnKeeper`, `RetryMeetsTheNextKeeper`,
  `CommandsKeepTheirKeeper`. What the gate gives is proved of `FairLine` first: an
  exclusive operation that runs is alone (`RunsAlone`), and what runs goes on
  running when another settles (`RunsOn`). The invariant then says which
  operation of the line each docker call holds (`LeaseInv`), that a command that
  executes has the present generation's token (`TokenInv`), and that a generation
  is recovered once (`RecoveredInv`).
* `SandboxManager`, at the end of `DockerSandbox_proofs`, which extends both modules
  (the manager's specification is `SpecManager`): typing, `ServedHandleIsLive`, `WaitersHaveACall`, `OnlyALateFailureHides`. The
  invariant says that each acquire under way belongs to an entry that is acquiring,
  once, and that the last acquire in the line is of the entry in the map when that
  one is acquiring. What follows bounds the one exception: as long as no acquire
  failed after the removal of its own sandbox was asked for, every sandbox nobody
  asked to remove is in the map (`NothingHiddenUnlessLate`), and the shutdown misses
  none (`ShutdownMissesNothingElse`).
* `DevSession_proofs`: typing, `OneChild`, `ServesTheLatest`,
  `OnlyARestartLeavesAChild`. The key is `HandsInv`: every living child is in
  somebody's hands, the session's, the loop's or a `stop()`'s that waits for its
  end, and at the point where a child is spawned there are none.
* `ReleasePublisher_proofs`: typing, `DependenciesFirst`, `NeverRepublishes`,
  `NewerEndsTheRun`, `ResultsAreTrue`, for any number of packages, runs and other
  publishers. What a read returned stays true of the registry (`ShownInv`), the
  loop leaves readable packages behind it (`OrderInv`), and a sign that forbids a
  publication, ours or a newer one, is still there at the next decision
  (`SeenInv`, `ReplacedInv`, `WarnedInv`).

* `MemoryBrowse_proofs`: typing, `AnswersOneQuestion`, `NothingIsSkippedOrDoubled`
  and the action property `NothingIsEvicted`, for any rows, page size and cap. What
  the model's lists are is proved first: ranking by the number of predecessors is a
  bijection onto the positions (`InOrderEnumerates`), so `Ordered` lists a set
  without repeats and in order (`OrderedLists`), and `KeptAt` keeps a list's order
  and drops nothing it should keep (`KeptAtKeeps`). The invariant (`BrowseInv`) says
  of the store that its rows are distinct and their stamps past (`TableInv`); of the
  requests that at most one under way is of the present revision, that it is the
  one `inFlight`, and that the reducer would still ask for it (`WindowInv`); of a
  page that was read and not yet delivered that it has every row of its span as old
  as its read (`PageInv`); of the screen that it is complete up to the continuation
  and older than the answer on its way (`ShownInv`); and that all of what is shown
  was asked by one query (`AskedInv`). A page joins the screen without a gap because
  the screen was complete up to the cursor the page was asked from.

**What happens in the end.** A liveness property follows from three things: the
fairness of the specification, an invariant that says that the step which helps can
be taken, and a distance that falls. The second speaks of ENABLED, which the prover
does not reason about; so it is a hypothesis of the theorem and a property of its
own that TLC checks (`NobodyIsStuck`, `NobodyWaitsInVain`). The rest is proved, for
any number of requests and children:

* `EveryRequestEnds` (`FairSpec /\ []NobodyIsStuck`): every admitted run, cancel and
  DELETE comes to its end. The distance of a run (`ToLeave`) counts the awaits before
  it, with what the route and a deferred release have still to do; nobody's step
  increases it (`NextFalls`: not another request's, a crash, or a failing store), and
  the run's own step, or the end of its route, decreases it (`StartFalls`, `RunFalls`,
  `RouteFalls`). It is at most thirty, so thirty uses of one lemma (`Nearer`) are
  enough. `RequestsAreAnswered` is `EveryRequestAnswered`; `SlotsAreGivenBack` is
  `HoldersLetGo`, with the invariant that a claim is held between its claim and the
  end of its run only (`ClaimInv`).
* `PassesEnd` (`FairSpec /\ []NobodyWaitsInVain`): every pass of a restart through
  `startOrRestart` ends, along `ToGo`. `EveryEndingEnds` is `EndingsEnd`, one of the two
  parts of `RestartsAndEndingsEnd`, and `RestartsAndEndingsComeToAnEnd` is the whole,
  from one more hypothesis: that changes stop at last (`ChangesStop`). The bound
  `MaxChanges` implies it in every instance, but that takes an induction over the number
  of changes; and it is what the code needs, because a loop that finds a pending change
  whenever it looks goes on for good. They rest on `AwaitInv`: the loop awaits a `stop()` where it stops a child and only there, a
  closed session awaits one or has ended, and a child that is waited for lives or
  died of a signal; and on `HandsInv`, by which the child that comes up or is killed
  is the one that is waited for.

Only model-checked: those two hypotheses; `CloseReturns`, whose two steps have no
guard that could keep them; `StoresAreDisposed`, `CallsEnd`, `Completes` and
`PollingConverges`, whose chains are as long as a request has runs, the line has
operations, a release has packages and the table has rows (an induction over a number
of temporal steps is not to be had); and the fairness of
the two refinements `TakesTurns` and `KeepsTheLine` (ENABLED of the abstract step).
Out of the prover's reach are ENABLED, and the library's induction theorems, which
take an operator as a parameter.

## 6. What is not modelled

* Message contents, model and tool calls, formatting: the route code is external.
* The access policy, and the answers of reads (GET) that change nothing.
* The parser of pending interrupts and resume entries (a set in `ThreadRuntime`).
* `ThreadRuntime` leaves the drain's deadline out; `RequestLifetime` has it.
* The workspace volume and the process an aborted docker client leaves behind.
* A failed recovery retires the provider's lifecycle while the manager keeps its
  handle: this needs `SandboxManager` and `DockerSandbox` composed.
* Of the browser: the abort of a superseded request (the machine does not rely on
  it), a remount, the pause while the page is hidden, optimistic edits, and the
  orders other than the default one.
* Of the publisher: the bootstrap mode, the checks of arguments, records and
  artifacts before the first read, and the report. Of the other release scripts:
  the controller, its observation and its recovery of drafts.
* Of the dev session: signals before `start()` returns, and how the watched
  directory decides which change is relevant.
* The components listed as `not_modelled` in `PROJECT.json`, with the reason.

## 7. Plan

Models that are left, in order: pending interrupts and resume resolution as
operators against a reference definition; `SandboxManager` over `DockerSandbox`;
the permissions stores; the access gate and the created row; the Kubernetes
provider; the AG-UI translator and its ledger; the release controller.

Proofs: every safety property that a run checks is proved, and the safety part of
both refinements; and the liveness properties whose chains are of bounded length, but for `CloseReturns`.
What is left are the proofs of the models still to be written.
