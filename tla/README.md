# A TLA+ model of ztest

ztest runs Zcash integration tests on a Kubernetes cluster: it builds images, provisions what the
tests need, admits tests into a slice of the cluster's capacity, runs each one in a namespace of its
own, and removes what it made. A long chain sync can be detached, and then lives in a driver pod after
the command that started it has returned. Several runs, of several users, share a cluster and
coordinate only through objects in it. This directory models that coordination, checks it with TLC on
small instances, and proves what TLAPS can reach for every instance.

Paths are relative to the repository root, which is `src/` here: the crate `src/src`, the command line
`src/cli/src`. `PROJECT.json` gives the source lines of every definition.

## The system and its parts

| Part | Code | State | Who else touches it |
| --- | --- | --- | --- |
| Admission core | `qos/scheduler.rs` | ceiling, committed, per-account usage, leases, queue | the run loop only |
| Run loop | `engine/schedule.rs` | parked, ready, in-flight tests, tallies | Ctrl-C, the renewal task (ceilings), tests |
| Reservation ledger | `qos/ledger.rs` | one `Lease` per run, in the cluster | every run, every sweep |
| Resource graph | `resource/graph.rs` | a `NodeState` per node | providers (futures) |
| Attempt | `engine/{pod,local}_runner.rs`, `test_ns.rs`, `cluster.rs` | namespace, runner, component pods, seed bindings | the test process, kubelet, Ctrl-C |
| Orphan reaping | `resource/entry.rs` | none: reads and deletes by label | every admission |
| `ztest cleanup` | `resource/reclaim.rs` | none: lists, plans, deletes | a person, at any time |
| Build slot | `resource/impls/buildkit.rs` | one build pod per cluster | every run that builds |
| Seed publication | `materialize/mod.rs`, `cli/src/snapshot.rs` | a volume, a puller Job, a snapshot per seed | every run that needs the seed, `snapshot prune` |
| Seed watches | `materialize/{progress,snapshot}.rs` | clocks on a log stream and on a snapshot | kubelet, CSI driver |
| Sync engine | `sync/runner.rs`, `probe.rs`, `restart.rs`, `nemesis.rs` | phase, probe states, restart watch | the watched component, the subject's task, `sync stop` |
| Detached sync | `cli/src/sync/`, `sync/{facade,detached}.rs`, `env.rs` | a driver pod, a record, a lease handed over | `sync start`, `stop`, `cleanup`, peers' sweeps |

How they interact. A run acquires a lease, which starts an orphan sweep; the lease's amount is the
ceiling of the run's admission core; the loop admits tests, each of which is an attempt that deploys
pods under the lease; the renewal task resizes the lease from the cluster's state and the loop's
demand and publishes the new ceiling. A compile on the cluster comes first, under a build lease of
its own *with the same run id*. A test that starts from a seed binds the snapshot that the run's
resource graph published before. `ztest sync start` acquires a lease as a run does and hands it to the
driver pod, which renews it from then on and runs the sync engine. When a run ends its lease is
deleted; when it crashes the lease lapses and the next admission reaps what it left.

What is hard about it. No two API calls are atomic and nothing is written with a precondition. Lists
of leases, pods and namespaces belong to different moments. A delete is accepted long before it is
finished. Replies are lost. A process may stop anywhere. Names are locks: a Job, a pod or a volume is
addressed by a name that another run may have given to a new object since. Within a run, the cancel
flag, the ceiling channel and the completions of tests reach one `select!` in any order.

What each part owes:

- admission core: never above the ceiling or a budget by its own act, no room left idle, arrival order;
- run loop: every test gets exactly one end, retries are bounded, nothing starts after a cancel;
- ledger: a lease covers its run and its run's pods; reservations fit the cluster;
- graph: exact validation, isolation of failures, reversed teardown, and it returns;
- attempt: it resolves, and when it has, nothing of it is left;
- sweeps: a live run loses nothing, a dead one leaves nothing, its lease goes last;
- build slot: the reservation covers the pod, waiters hold nothing, everybody gets a turn;
- seed publication: a snapshot holds the whole seed, no wait is for ever, a rerun repairs;
- seed watches: a stall is silence and silence is a stall;
- sync engine: Passed means every phase passed, phases run in turn, no restart is called a stall, an
  outcome is always reported;
- detached sync: no gap in the reservation, nothing stranded, a running sync is spared, a stop is
  honoured, the capacity comes back.

## Modules

| Module | Models | Checked by | Proved in |
| --- | --- | --- | --- |
| `Resources` | `qos::Resources`: saturating vectors over `Dims`, width `U64Max` | all that use it | |
| `SchedulerCore` | the methods of `Scheduler` as operators on a record | via `Scheduler`, `RunLoop` | `RunLoopProofs`, lemmas in `SchedulerProofs` |
| `Scheduler` | the same as a state machine under any client | `MCScheduler` | `RunLoopProofs`, lemmas in `SchedulerProofs` |
| `TestLifecycle` | what the run's events promise to a reporter (abstract) | via `RunLoop` | `RunLoopProofs` |
| `RunLoop` | `run_loop`, with a `SchedulerCore` inside; implements `TestLifecycle` | `MCRunLoop` | `RunLoopProofs` |
| `Ledger` | `acquire`, `drive`, `release` for several runs on one cluster | `MCLedger` | `LedgerProofs` |
| `Graph` | `validate`, `provision`, `teardown` | `MCGraph` | `GraphProofs` |
| `Attempt` | one attempt on either executor, namespace and teardown included | `MCAttempt` | `AttemptProofs` |
| `Reaper` | `reap_orphans`, `reap_run`, `cancel_exit`, `discover` + `reclaim` | `MCReaper` | `AttemptProofs` |
| `BuildSlot` | `Builder::acquire`, `await_build_slot`, `Builder::release` | `MCBuildSlot` | `GraphProofs` |
| `Materialize` | `provision_seed`, `publish`, `await_seed`, `snapshot prune` | `MCMaterialize` | `MaterializeProofs` |
| `SeedWatch` | `watch_puller`, `snapshot::watch` and their clocks | `MCSeedWatch` | `MaterializeProofs` |
| `SyncEngine` | `run`, `run_phase`, `eval_tick`, restart watch, nemesis, `fold` | `MCSyncEngine` | `SyncEngineProofs` |
| `DetachedSync` | `sync start`, `stop`, `adopt`, `hand_off`, the driver's life, its cleanup | `MCDetachedSync` | `DetachedSyncProofs` |

**Scheduler.** `sched` is the struct, field for field. A test is its footprint and service account.
`schedule_pass` visits the queue in arrival order through a recursive function (`visit` is one
iteration). `Idle` is the client's protocol, from the run loop: a test is not requested while it
waits or holds a lease. `MaxRequests` caps the slot ids.

**RunLoop.** `run` holds the loop's locals. One iteration of `while !futs.is_empty()` is `LoopTop`
followed by one arm of the `select!`: `CancelArm`, `Complete`, `OnCeiling` or `Tick`. An arm is one
step with everything it calls: a completion settles or re-requests the test, releases the slot,
admits, pumps and publishes the demand. The loops inside an arm (the sweep, `take_grants`, `pump`) are
recursive functions, one value per iteration. The two reads of the cancel flag in the completion arm may
differ, as in the code. `CtrlC` and `PublishCeiling` belong to other threads.

**Ledger.** One step per API call. `pc` is where a run's process is, `task` where its renewal task
is; `live`, `doomed`, `target` and `borrowed` are the locals that outlive an `await`. The engine is
reduced to a counter of equal tests; `RunLoop` has the real one. Any API call may fail before or
after it was applied; a run may crash anywhere. `Init` chooses a `scene`: what each run asks for, the
foreign load, and whether a live run may miss a whole TTL.

**Graph.** Every iteration order of the code's hash maps is a choice. `Round` is one pass of
`provision` with its refill, `Resolve` one completed provider; `Sweep` and `Removed` are the same of
`teardown`. `Cached` nodes survive.

**Attempt.** `pc` is the `await` the executor's future is suspended on. The test process deploys,
binds seeds, forks helpers and exits when it likes; the kubelet pulls, starts and removes. `pull` is
the age of `pull_error_since`, `clean` the time since a read last saw no pull error. A failed call sets
`fault` and is taken not to have applied, also the create of the runner pod; what a create leaves that
was applied and answered with an error is outside `NothingOutlives`, as after any failed call.

**Reaper.** A run's objects of one kind are one object. `s` is the sweep in progress with what it has
listed; runs go on living between any two of its calls. `dying` holds the objects whose delete was
accepted: `reap_run` awaits absence, `reclaim` does not. One sweep runs at a time. `Init` chooses a
`mode`: which runs there are, whether they build first or may be held, which sweeps happen, and
whether calls fail.

**BuildSlot.** `pod` is the one object called `ztest-buildkit`, with its owner; `Footprints` is how
many builds the capacity holds at once.

**Materialize.** One seed, its volume, its puller Job and its snapshot, all addressed by name; an
action is one API call of a run, of `prune`, or a step of a controller. The Job's name is the lock:
whoever creates it pulls, whoever finds it waits, and `target` is the Job whose deletion a run awaits,
which need not be the one that bears the name by then. Pod attempts are one pull that ends, fails or
falls silent; the clocks that decide are `SeedWatch`'s. `mode` bounds what goes wrong.

**SeedWatch.** The two watches that end otherwise unbudgeted waits. One follows the log of the Job's
pod through placement, image pulls, dropped and replayed streams and retries that count from zero; the
other samples the snapshot's status and, on the copying driver, the size of the newest file. Lists of
the pods and reads of the status may fail: the first looks at nothing in a unit without a list
(`Unlisted`), unless it is inside `follow`, and the second keeps its clock over a status it has not read
(`Unread`). `quiet` and `still` are histories of what really moved, against which the clocks are judged.

**SyncEngine.** One task drives everything, so the interleavings are between its awaits and the world.
A tick is three steps, `Tick` (sample), `Judge` (probes) and `Completion`, between which the component
may die, the subject's task may end and a stop may arrive. A probe's body is any answer of its class.
`lastOut`, `blind` and `unstopped` are histories. `StopSubject` is the engine's request: it drops the
subject's answer, and so does the model.

**DetachedSync.** Three processes, `cli`, `drv` and `op` (cleanup), two renewal tasks that write one
lease, and a peer that sweeps. `stray` holds the renewals sent by a task that was aborted before they
landed. Time is in renewal intervals. The driver's `teardown` is best effort, as in the code: a failed
delete of the bindings is passed over and the namespace is marked all the same. `mode` has the flags of
the commands and bounds the adversary.

The modules meet in shared objects rather than in one composed state space: `RunLoop` embeds
`SchedulerCore` and implements `TestLifecycle`; `Ledger` abstracts the loop to its demand; `Attempt`'s
`Resolves` is the fairness `RunLoop` assumes of tests; `DetachedSync` takes the engine's run as a step;
`Materialize` takes `SeedWatch`'s verdicts as choices. Each module's header names what it abstracts.

## Runs

Passing runs:

| Run | Instance | Shows | Distinct states |
| --- | --- | --- | --- |
| `scheduler` | four tests, two accounts, two dimensions | balanced books, no idle room, no overload by its own act, arrival order | 26 k |
| `run_loop` | four tests; fail-fast, pooled, serial, unmet dependency; two ceilings | loop and core agree, only oversized tests are left behind, no start after a cancel, the loop ends and implements `TestLifecycle` (retry budget included) | 82 k |
| `ledger` | four CPUs; two elastic runs of two tests, or an elastic run beside a fixed build lease with foreign load and stalls past the TTL | a lease covers its run and its pods; growth over an unchanged ledger never overcommits | 1.16 M |
| `graph` | all acyclic shapes of four nodes, all shapes of three with cycles and a missing node, caps 0 and 2 | exact validation, isolation, reversed teardown, return | 50 k |
| `attempt` | both executors, with and without cleanup and capture, cap 3, grace 2 | nothing outlives it, logs first, the grace restarts, it resolves | 88 k |
| `reaper` | a run that builds under all three sweeps; a run that may be held, cancelled or crash with failing calls; a run beside another's litter | live runs spared, holds respected, lease last, orphans gone in the end | 279 k |
| `build_slot` | three runs after one slot, crashes, failures, lost answers, sweeping admissions | reservation covers pod, waiters hold nothing, everyone is served | 37 k |
| `sync_engine` | a kill and a crash under liveness probes, two gated phases, coverage probes, a refused fault | Passed is clean, phases in turn and asked to stop when cut, no stall across a restart, an outcome is reported | 97 k |
| `detached_sync` | watched and stopped; peers' admissions; held; a killed CLI; cleanup with and without `--force` | hand-off without gap, nothing stranded, running sync spared, stop honoured, lease freed | 562 k |
| `materialize` | two runs racing with a crash, a failed and a silent pull and a failed call; one run rerun; a prune in the middle; a small seed | a snapshot is whole, a waiter returns, a rerun publishes | 457 k |
| `seed_watch` | copy-on-write and copying drivers, ordered and unordered lists, failing lists and reads, a sibling, a lost meter | a stall is silent, silence ends | 370 k |

One run refutes a sentence of the repository; the finding in `PROJECT.json` quotes it.
`not_run_only_when_closed_short`: `not_run` is said to be non-zero only on a run closed short, but a
test parked above a shrunken ceiling is dropped silently, with exit code OK.

### Limits of the guarantees

The passing properties are as strong as the code allows; a stronger form, often one that a comment
words, fails. TLC finds each of these by checking the named property on the run's instance with the
change given; the property is in the module, next to its source.

| Property | Instance | Why it fails |
| --- | --- | --- |
| `NotRunNeverStarted` (events.rs:87) | `run_loop` | a test waiting for a retry is counted as not run |
| `SkippedNeverRan` (events.rs:44) | `run_loop` | a retry is rejected when the ceiling has shrunk below the test |
| `PodsWithinReservation` | `ledger`, `KeepPods = TRUE` | kept pods hold requests after their slot was given back |
| `PanicMeansDefect` (ledger.rs:658) | `ledger` | the two lists it compares are of different moments |
| `ReleasedStaysReleased` (ledger.rs:205) | `ledger` | a renewal on the wire recreates the deleted lease until its TTL |
| `NoOvercommit` (ledger.rs:3) | `ledger` | list and write are not atomic |
| `LeaseCoversRun` | `ledger`, `Prompt = FALSE` | a published shrink is not acknowledged |
| `DependentsGoneFirst` (graph.rs:167) | `graph` | a dependency goes once its dependents' teardowns returned, also in error |
| `DeletedAfterExit` (test_ns.rs:1), `BindingsReaped` (cluster.rs:308) | `attempt` | a timed-out or cancelled runner outlives its namespace, and may still bind a seed |
| `KilledIsDead` (events.rs:12) | `attempt` | `--no-cleanup` leaves the runner pod up |
| `CancelReports` (local_runner.rs:128) | `attempt` | a helper that left the group holds the pipe the drain waits on |
| `HoldRespected` without its `~mode.fails` | `reaper` | a failed list hides the hold label |
| `LiveRunSpared` without its `~mode.builds` (entry.rs:227) | `reaper`, `Built` under orphan sweeps | "an object's lease predates it" is not so across the build and test leases of one run |
| `LiveRunSpared` (cleanup.rs:9) | `reaper`, one run that does not build, under cleanup | liveness is read once, before the objects |
| `LiveRunSpared`, for `steady` runs alone | `reaper`, the same with failing calls | a failed lease list reads as "nobody is live" |
| `CapacityFreedFirst` (reclaim.rs:227) | `reaper` | deletes are accepted, not awaited |
| `LiveHolderKept` (buildkit.rs:317) | `build_slot` | the delete is by name, two reads later |
| `EveryoneServed` | `build_slot`, `Admissions = FALSE` | a waiter that saw the holder live does not look at its lease again |
| `DeadTaskNeverPasses` (runner.rs:659) | `sync_engine`, `LoadProfiles` | the load task may die between the check for failure and the check for completion, and reads complete |
| `HeldBindingsKept` (env.rs:1037) | `detached_sync`, `HeldModes` | the driver leaves them (it returns early), but they carry the run id and no hold: the lease lapses and a peer's orphan sweep deletes them |
| `RaceSafe` (materialize/mod.rs:99) | `materialize`, `FaultFree` | a run that arrives between the Job's completion and its owner's delete reaps the Job; the owner reads its absence as failure |
| `SnapshotIsWhole` without its premise | `materialize` | with a prune in between, the label or the snapshot may go to a re-created, empty volume |
| `StallIsSilent` with `~hid` (nothing moved out of sight either) | `seed_watch`, unordered lists | the last pod of the list need not be "the Job's most recent pod" (progress.rs:307) |
| `StallIsSilent` without its `metered` | `seed_watch` | a lost meter on the copying driver reads growth as silence |
| `StallIsSilent` without its `Unread` | `seed_watch` | the snapshot was bound, but every read since failed |
| `SilenceEnds` of a snapshot without its `~setting.gets` | `seed_watch` | a read that succeeds late shows an old change, and restarts the clock |
| `NothingStranded` without its `faults = 0` | `detached_sync` | a failed delete of the bindings is passed over, and the namespace is marked finished all the same |

`ReservationCoversPod` excepts a pod whose create took effect and was answered with an error: its
reservation is released at once (buildkit.rs:287). `QuietGrowthNeverOvercommits` excepts a lease swept
under a live run that was cut off: its renewal writes the old amount back.

Found while reading for the models, and not pinned to a property:

- *Sync engine.* A final progress read that fails skips the at-completion probes and the phase still
  passes (runner.rs:722). Samples that cannot be read through an outage let a stall be clocked across
  the restart (`blind` in `StallIsReal`). The window of an `.after` probe may count time before the fault.
  The readiness wait, the work preflight and the span of a `within` do not look at the phase's deadline.
- *Detached sync.* `cleanup` without `--force` deletes a sync whose pod does not exist yet
  (reclaim.rs:674). `hand_off` may return an error after the driver adopted, and `abandon_launch` then
  deletes a running sync's record. `await_driver_running` polls for Running and misses a pod that was
  gone before it looked. `start --watch` exits 0 when the driver pod is gone before it attaches: a
  failed attach is not a failed start (cli/src/sync/mod.rs:684). A start that gives up releases its lease
  on an accepted delete of the pod, while the comment wants no capacity to read free under a
  terminating pod (cli/src/sync/mod.rs:414).
- *Seeds.* An owner whose Job another run deleted waits for a condition nobody will set. `await_pvc_gone`
  waits on a volume that another run has created anew. `unscheduled_since` is never cleared, so a
  retried pod inherits its age, and a queued retry spends the silence budget. A pod stuck in
  ContainerCreating has no clock.

### Bounds

Four tests of sizes 3, 2, 1 and 1 under ceilings 1, 2 and 4 make every relation between a waiting and
a fitting test occur; two published ceilings make a shrink below the committed amount and a recovery.
In the ledger two runs suffice for every pairwise race and the amounts allow one run to hold all, half
or nothing; its symmetry is over the two runs, and the scenarios are closed under swapping them. Four
nodes contain a diamond and a chain of three edges. A cap of three ticks with a grace of two lets the
grace run out, be interrupted and start again. One run is enough for a sweep against a single victim;
two are used where the sweep works through a list. Integers keep a width (`U64Max` 7 or 15) so that
saturation happens in the scheduler's instance.

Two runs and at most two faults of a kind make every pairwise race over a seed, with three turns
(`PUBLISH_ATTEMPTS`) as in the code. The windows of `SeedWatch` are 1 to 3 units, the blind one longer
than the metered one as in the code, and three pods of a Job make a retry of a retry. The registrations
of `SyncEngine` have at most two phases and three probes; each carries its own `horizon` on the clock,
long enough for every wait in it to run out. `DetachedSync` has a TTL of three intervals, so that one
lost renewal is survived; a `mode` has one adversary at a time, and peers sweep in three of the six.

Deadlock is checked where a module has an action for its end. It is off in `SyncEngine` (the outcome was
reported), `SeedWatch` (the watch has returned), `DetachedSync` (everybody has exited) and `Materialize`
(all runs ended, or an owner waits for a Job that was deleted, as above).

The type invariants are not run for their own sake; those of `Scheduler`, `RunLoop`, `Graph`,
`Attempt`, `BuildSlot`, `Materialize` and `SeedWatch` are part of what is proved.

### Fairness

- `RunLoop`: the loop is polled, and a spawned test resolves (both executors have a hard cap; that they
  resolve is `Attempt`'s `Resolves`). Nothing is assumed of Ctrl-C or of ceilings.
- `Graph`: the loops are polled and providers resolve.
- `Attempt`: the future is polled, time passes, an accepted delete finishes. `delete_and_await` has no
  give-up, so this one is needed. Nothing is assumed of the test; `Resolves` has the helper's exit as an
  explicit premise, and `CancelReports` shows why. That a watch breaks is possible and never relied on.
- `Reaper`: admissions keep coming (strongly fair: other sweeps take turns with them), a sweep runs to
  its end, leases and holds run out.
- `BuildSlot`: builders are polled, deletions finish, unrenewed leases lapse; with `Admissions`, other
  admissions keep sweeping; without them `EveryoneServed` fails. No call is assumed to fail.
- `SyncEngine`: the task is polled, time passes, and the launch of a subject, a probe and a stop return
  once called, which the engine awaits without a limit of its own. Nothing is assumed of what they answer
  or of the component; a run without timeouts need not end unless somebody stops it.
- `DetachedSync`: the command line, the driver, cleanup and the renewal tasks are polled, the kubelet
  acts, time passes and a request on the wire lands. No peer is assumed to sweep.
- `Materialize`: runs are polled, controllers act, and a pull without a volume falls silent. A rerun
  is made again and again, and the operator follows the error's remedy for an orphaned pull (strongly
  fair, `Retake` and `Release`): `RerunPublishes` is about a run that is repeated until it publishes.
- `SeedWatch` and `Scheduler` have safety properties only. That a watch polls in every unit is part of
  `SeedWatch`'s clock, as the code's sleeps give it; that a list answers is not.

`Ledger` has one timing assumption, `Prompt`: the engine sees a ceiling before the next tick, 2 s later.
Without it `LeaseCoversRun` fails.

## Proofs

Each theorem is for every value of the constants; the assumptions are the named `ASSUME`s of the
modules, and TLC evaluates them on every run.

The admission core, for any tests, accounts, dimensions, width and ceilings:

- `TypeCorrect`, `WorkConserving` (no queued request fits), `NeverOverloads` (no step of the core's own
  raises the commitment above the ceiling), `FreshEnqueue` (a request admits nobody but itself) and
  `ArrivalOrder` (a grant never passes over an earlier request that fits at that moment).
- The invariant is `InductiveInv`: types, and that no queued request fits. It is needed because a request
  runs the whole pass and is still to admit only itself. The argument goes through the pass: its trace
  (`TraceExists`, `PassTrace`) is a sequence of states, each a `visit` of the one before; along it the
  commitment only grows (`GrownTransitive`), so what did not fit when visited does not fit at the end
  (`FitsMonotone`, `PassSettles`).
- `BooksBalance`: `committed` is the sum of the live leases and each account's usage the sum of its own.
  A sum is a recursive function over the slot ids, so that what one lease more or less does to it is a
  first-order lemma (`PartialSums`, `SumAppend`, `SumSmaller`). The code adds and subtracts saturating;
  the proof shows that nothing saturates: a granted request fits what is free, and what a lease gives
  back is part of the sum, as is an account's usage of the pool's.

The run loop, for every suite, retry budget, footprint, configuration and sequence of ceilings:

- `LoopAgreesWithCore`, `NothingElseLeftBehind`, `NothingStartsAfterCancel`, `LoopWellTyped` and
  `WithinMaxInflight`, from the invariant `LoopInv`. It says where each test is: kept in one place, with the
  lease and the attempt number its events account for (`Kept`), and every test of the suite settled or
  kept, counted once (`Covered`, `Count`). While the run admits, the loop's tables are the core's (`Agree`).
  The agreement is broken within an arm, between the core's grants and the loop's taking them, so `Agree`
  has the range of slots still to be taken as parameters, and each lemma about a call (`SubmitGood`,
  `FreedGood`, `TakeGrantGood`, `SpawnGood`) moves the range along; after `take_grants` it is empty. That
  nothing but oversized tests is left needs more of the core: with no lease left the books are empty
  (`BooksBalance`'s invariant), so what the last pass did not admit exceeds the ceiling by itself.
- `LoopImplementsLifecycle`: the initial states map to initial states, `Start` to `Sweep`, the end of the
  loop to `Close`, an arm to a `Turn` or to a stutter (`TurnMaps`, `StutterMaps`, `LifecycleStep`). From the
  refinement follow `RetriesBounded` and `SettledForGood`.

`SchedulerProofs` has the lemmas on the core and on the loop's calls on it, up to `PumpGood`;
`RunLoopProofs` has the sweep, the arms, and the theorems of both. The lemmas that count or use
induction assume `LibraryFacts` (naturals are well ordered, and how `Cardinality` counts) instead of
citing the library, whose modules would sit in the context of each of their steps. `LibraryFactsHold`
proves it from `FiniteSetTheorems` once, before the theorems, which assume nothing. `LoopInv` was
checked with TLC on the instance of `run_loop` before it was proved.

`GraphProofs`, for any finite set of nodes, any shape, cap and cached set:

- `TypeCorrect` with `KahnInv`: the in-degree of a node is the number of its unpeeled dependencies, the
  queue is the unpeeled nodes with none, and every set the peeling entered was entered at a node with no
  dependency in it. From it `ValidateCorrect`: accepted exactly when dependencies exist and no cycle does.
- `OrderCorrect`, `CapCorrect`, `MonotonicCorrect`: from `ProvisionInv`.
- `IsolationCorrect`: when nothing is in flight and nothing can start, acyclicity leaves no node pending
  (`NoneLeft`), and Ready is the complement of what failures reach.
- `TeardownCorrect`: a remaining node with no remaining dependent always exists (`Sink`), so a sweep with
  nothing in flight starts something or all is done.

`AttemptProofs`, for every hard cap and grace: `HoldsNothing`, `LogsFirst` and `GraceWhole`. The
invariant says, for each await of the future, what the namespace, the process, its helpers and the
logs are (`NsInv`, `ProcInv`, `LogInv`), and that the age of the pull error never exceeds the time since
the last clean read by more than the tick in progress (`GraceInv`).

`GraphProofs` also holds `BuildSlot`'s, for any runs and footprints: `PodCovered`. A lease alone does
not say whose pod it covers: `OwnerInv` ties the pod to where the run that made it is, and a deleting
run to the very pod it saw, so that no run releases its lease on the absence of another's pod.

`MaterializeProofs`, for any finite set of runs and any number of turns: `PublishedWhole`. `WholeInv`
follows the pull: while nobody prunes the volume is never replaced, a Job that completed has filled it,
and a run that is about to label or to snapshot has seen that.

`MaterializeProofs` also holds `SeedWatch`'s, for all windows, payloads and retry limits: `StallProved`
and `SilenceProved`. The clock and the history agree (`ClockInv`) only because of what the watch has
read of the current pod (`ReadInv`): records of an earlier pod or a replayed record must not count as
motion, and the carried base must not hide it. `BehindInv` and `StillInv` are the same for the snapshot,
where the clock lags by at most a unit only if every read of the status answers.

`SyncEngineProofs`, for every registration: `PassedIsClean` and `InTurn`. `ResultsInv` says that each
verdict is what its phase's findings amount to, `OpenInv` that the phase in flight has stopped short of
no fatal finding (`FatalKnown`: a tick continues only when no fatal probe reports, lemma `Reports`), and
`DoneInv` that the outcome is the fold of the verdicts, over launched phases that completed or were
asked to stop.

`StallsAreReal`, in the same module, is `StallIsReal` for every registration, for any number of kills,
crashes and phases, and for restarts that a phase inherits from the one before it. With every sample
read, no open window is older than the last tick inside a restart (`Clocked`). That is inductive only
with what the watch knows: the restarts it counted did happen (`Counted`), and a component that is away
is held, or the next sample will show a restart the watch has not seen (`Noticed`), unless the phase has
opened no window yet (`Unopened`). The last case is the inherited restart: a new phase forgets the hold,
and nothing is clocked until its first answered tick. The theorem assumes that a window is a natural
number of ticks (`ProfilesAssumption`; the code has a `Duration`).

`LedgerProofs`, for any runs, cluster and demands, under `Prompt`:

- `LeaseCovers` and `PodsCovered`: what a run's engine may admit, and the pods it has, never exceed the
  lease that stands in its name. A grow is written before it is published and a shrink published before
  it is written, so at each await the invariant knows which of lease, ceiling, target and committed
  amount is ahead (`EngineInv`, `CoverInv`), also of a renewal that borrowed the demand before its `await`s.
  `PodsCovered` has the premise `~KeepPods`: with `--no-cleanup` pods outlive their slots.
- `GrowthQuiet`: a dimension that grows while the leases are those the run listed stays within the
  cluster. `PollInv` and `EngineInv` carry the bound from the list to the write. The sum of the leases
  is taken as an amount, whatever it is: nothing about it changes between the two.

`DetachedSyncProofs`, for every TTL and every mode: `HandOffCovered`, `NothingIsStranded` and
`RunningSpared`. `TaskInv` says which of the two tasks renews, `Renewed` that the lease is no older than the
failed calls explain, so that nobody who deletes leases has found it expired (`Unswept`). The premise
`Tolerated` of the first and the last is that fewer calls fail than renewals fit in the TTL (the code
renews a 60 s lease every 20 s). `NothingIsStranded` needs no premise: what a failed call may leave is in
the property itself, which claims the absence of pod, namespace, record and bindings where none failed.

`AttemptProofs` also holds `Reaper`'s theorems, for any runs and modes:

- `LeaseLast`: a sweep deletes a run's lease only once nothing else of the run is left to delete. The
  invariant says what the sweep in progress has listed, which of it is still to be deleted, and that a
  failed delete keeps the lease from the list of what is left (`ListInv`, `TodoInv`, `CurInv`).
- `HoldKept`: a held run is not touched by a sweep that could read the hold.
- `LiveSpared`: no sweep touches a run that was live all along. The premise `Evidence` is that no mode
  has `cleanup` with failing calls; the table above shows that it is needed.

Two components share a proof module where both are extended, so the initial predicate, the next-state
relation and the specification of `Reaper`, `BuildSlot`, `RunLoop` and `SeedWatch` carry the component's
name.

Every safety and action property that a passing run checks is proved; only model-checked is all
liveness. Out of the prover's reach are liveness under fairness
and `ENABLED`, induction over data through the library's operator-parameterised theorems (what is needed
of it is proved first-order, as `NatMinimum` and `IntervalInduction`), and modules with `RECURSIVE`
operators (none is used here).

## Not modelled

The definitions translate about 5,000 of the repository's 80,000 lines (6 %): the ones that change state
which two actors share, or that decide a verdict. The rest has no interleaving or protocol of its own:

- Rendering, argument parsing, manifests, configuration of the daemons, RPC clients, metric queries,
  cluster setup and macros, which are most of the repository's lines: data and I/O without a protocol
  of ztest's own. `TestSlow` and progress ticks.
- The deploy phases of `TestEnv` and `ReadyWatch`: one sequential future per test over objects of its
  own namespace. `Attempt` has what others see of it, `Deploy` at any time while the process runs.
- Image builds and loading: content-hashed tags make concurrent builds idempotent; the slot they share
  is `BuildSlot`.
- Planning, recording, replay and retention: pure functions, or one process appending to files of its own.
- The lock-step load pair, derived work and segments of the sync engine: data no step of it branches on.
- Of `ztest cleanup`, named targets and the purge of metric series; of `snapshot prune`, the sweep of
  binding contents; of `ztest sync`, `list` and `report`, which only read.

The components list in `PROJECT.json` has them all.

## Plan

1. The deploy phases of `TestEnv` with their budget, refining `Attempt`'s `Deploy`.
2. `Ledger` and `DetachedSync` composed: a hand-off while another run resizes.
3. Pure operators with reference definitions: work lists and seed pruning, retention, rate windows,
   quantity arithmetic.
4. The load driver's pair and its audit; recording and rerun.
