------------------------------ MODULE Attempt ------------------------------
(***************************************************************************)
(* One attempt of one test: the future the run loop awaits, from the       *)
(* creation of the test's namespace to its TestOutcome.  Both executors of *)
(* src/src/engine are modelled, the local one (a child process in a group  *)
(* of its own) and the pod one (a runner pod, polled), with the namespace  *)
(* half they share (engine/test_ns.rs and the helpers of cluster.rs).      *)
(*                                                                         *)
(* The engine's steps interleave with the test process, which deploys      *)
(* component pods and binds seeds, with the kubelet (image pulls, container*)
(* start and exit, removal of a deleted pod), with the clock and with      *)
(* Ctrl-C.  `fault` records that some API call of the engine failed, other *)
(* than a read of the runner pod, which the poll loop ignores.             *)
(***************************************************************************)
EXTENDS Naturals

CONSTANTS
    HardCap,    \* item.hard_cap, in clock ticks
    Grace       \* IMAGE_PULL_GRACE, in clock ticks

ASSUME TimesAssumption == HardCap \in Nat \ {0} /\ Grace \in Nat \ {0}

VARIABLES
    opts,       \* executor, `--no-cleanup` and capture: fixed for the attempt
    now,        \* ticks on the cap's clock, up to HardCap
    cancelled,  \* the run-wide Cancel
    pc,         \* where the executor's future is suspended
    verdict,    \* how the wait ended
    pull,       \* pull_error_since: 0 when None, else one more than its age
    clean,      \* history: ticks since a read last saw no pull error
    fetched,    \* the logs fetched so far
    fault,      \* an API call of the engine failed
    ns,         \* the test's namespace
    proc,       \* the test process: a child, or the runner pod's container
    image,      \* what the kubelet says of the runner image
    helper,     \* a descendant of the test process that holds its stdout
    comps,      \* the component pods in the namespace
    binding     \* a seed-binding VolumeSnapshotContent exists

engine == <<pc, verdict, pull, clean, fetched, fault>>
world == <<ns, proc, image, helper, comps, binding>>
vars == <<opts, now, cancelled, engine, world>>

None == "none"
Verdict == {"Pass", "Fail", "Timeout", "SpawnError", "Terminated"}
Pod == opts.executor = "pod"
Local == opts.executor = "local"
Alive == proc \in {"pending", "running"}

TypeOK ==
    /\ opts \in [executor : {"local", "pod"}, no_cleanup : BOOLEAN, capture : BOOLEAN]
    /\ now \in 0..HardCap /\ cancelled \in BOOLEAN
    /\ pc \in {"create", "bind", "sa", "spawn", "wait", "drain", "logs", "harvest",
               "delete_ns", "await_ns", "delete_vsc", "delete_pod", "await_pod", "done"}
    /\ verdict \in Verdict \cup {None}
    /\ pull \in 0..(Grace + 1) /\ clean \in 0..Grace
    /\ fetched \subseteq {"runner", "components"} /\ fault \in BOOLEAN
    /\ ns \in {None, "active", "terminating", "gone"}
    /\ proc \in {None, "pending", "running", "passed", "failed", "killed", "gone"}
    /\ image \in {"ok", "backoff", "invalid"}
    /\ helper \in {None, "group", "escaped"}
    /\ comps \in {None, "up", "dead"} /\ binding \in BOOLEAN

Init ==
    /\ opts \in [executor : {"local", "pod"}, no_cleanup : BOOLEAN, capture : BOOLEAN]
    /\ now = 0 /\ cancelled = FALSE
    /\ pc = "create" /\ verdict = None /\ pull = 0 /\ clean = 0
    /\ fetched = {} /\ fault = FALSE
    /\ ns = None /\ proc = None /\ image = "ok" /\ helper = None
    /\ comps = None /\ binding = FALSE

----------------------------------------------------------------------------
(* test_ns::open.  A failure after the namespace exists leaves it behind:  *)
(* the future returns SpawnError without a close.                          *)

OpenFails ==
    /\ pc' = "done" /\ verdict' = "SpawnError" /\ fault' = TRUE
    /\ UNCHANGED <<pull, clean, fetched, opts, now, cancelled, world>>

OpenStep(at, next) ==
    /\ pc = at
    /\ \/ OpenFails
       \/ /\ pc' = next
          /\ UNCHANGED <<verdict, pull, clean, fetched, fault, opts, now, cancelled,
                         proc, image, helper, comps, binding>>
          /\ ns' = "active"

create_test_namespace == OpenStep("create", "bind")
bind_driver == OpenStep("bind", "sa")
wait_for_default_sa == OpenStep("sa", "spawn")

----------------------------------------------------------------------------
(* Starting the test: the runner pod's create, or the child's spawn.  A    *)
(* failed start still closes the namespace, and deletes no pod: the create *)
(* is one of the calls that failed.  The pod's cap is measured from the     *)
(* start of the attempt, the child's from its spawn.                       *)

Spawn ==
    /\ pc = "spawn"
    /\ \/ /\ proc' = IF Pod THEN "pending" ELSE "running"
          /\ now' = IF Pod THEN now ELSE 0
          /\ pc' = "wait" /\ UNCHANGED <<verdict, fault>>
       \/ /\ pc' = "harvest" /\ verdict' = "SpawnError" /\ fault' = (fault \/ Pod)
          /\ UNCHANGED <<proc, now>>
    /\ UNCHANGED <<pull, clean, fetched, opts, cancelled, ns, image, helper, comps, binding>>

----------------------------------------------------------------------------
(* The wait of the pod executor: one iteration of the poll loop, or the    *)
(* cancel arm.  A read that fails changes nothing but the clock it costs.  *)

terminal_state ==
    CASE proc = "passed" -> "Pass"
      [] proc = "failed" -> "Fail"
      [] OTHER -> None

\* Mutant: a pull that recovers does not clear the first sighting.
pull_seen_never_reset == IF image # "ok" /\ pull = 0 THEN 1 ELSE pull

pull_seen ==
    CASE image = "ok" -> 0
      [] image # "ok" /\ pull = 0 -> 1
      [] OTHER -> pull

pull_error_is_terminal ==
    image = "invalid" \/ (image = "backoff" /\ pull_seen > Grace)

Settle(v) ==
    /\ verdict' = v
    /\ pc' = IF Pod THEN "logs" ELSE "drain"

\* Mutant: the loop waits for the runner's own end.
Poll_without_cap ==
    /\ Pod /\ pc = "wait" /\ proc # "gone"
    /\ terminal_state # None /\ Settle(terminal_state)
    /\ UNCHANGED <<pull, clean, fetched, fault, opts, now, cancelled, world>>

Poll ==
    /\ Pod /\ pc = "wait"
    /\ \E read \in IF proc = "gone" THEN {FALSE} ELSE BOOLEAN :
          \/ /\ read /\ terminal_state # None
             /\ Settle(terminal_state)
             /\ UNCHANGED <<pull, clean>>
          \/ /\ read /\ terminal_state = None /\ pull_error_is_terminal
             /\ Settle("SpawnError")
             /\ UNCHANGED <<pull, clean>>
          \/ /\ read => terminal_state = None /\ ~pull_error_is_terminal
             /\ pull' = IF read THEN pull_seen ELSE pull
             /\ clean' = IF read /\ image = "ok" THEN 0 ELSE clean
             /\ IF now >= HardCap THEN Settle("Timeout") ELSE UNCHANGED <<pc, verdict>>
    /\ UNCHANGED <<fetched, fault, opts, now, cancelled, world>>

PodCancelled ==
    /\ Pod /\ pc = "wait" /\ cancelled
    /\ Settle("Terminated")
    /\ UNCHANGED <<pull, clean, fetched, fault, opts, now, cancelled, world>>

----------------------------------------------------------------------------
(* The wait of the local executor.  The hard cap and the cancellation kill *)
(* the whole process group and reap the child; a child that exits by       *)
(* itself leaves its group alone.  The drain then waits for the end of the *)
(* pipe, which every descendant holding it keeps open.                     *)

ChildExited ==
    /\ Local /\ pc = "wait" /\ proc \in {"passed", "failed"}
    /\ \E v \in {terminal_state, "SpawnError"} : Settle(v)
    /\ UNCHANGED <<pull, clean, fetched, fault, opts, now, cancelled, world>>

kill_group ==
    /\ proc' = IF proc = "running" THEN "killed" ELSE proc
    /\ helper' = IF helper = "group" THEN None ELSE helper

ChildKilled(due, v) ==
    /\ Local /\ pc = "wait" /\ due
    /\ Settle(v)
    /\ kill_group
    /\ UNCHANGED <<pull, clean, fetched, fault, opts, now, cancelled,
                   ns, image, comps, binding>>

CapExpires == ChildKilled(now >= HardCap, "Timeout")
LocalCancelled == ChildKilled(cancelled, "Terminated")

Drain ==
    /\ pc = "drain"
    /\ opts.capture => helper = None
    /\ pc' = "harvest"
    /\ UNCHANGED <<verdict, pull, clean, fetched, fault, opts, now, cancelled, world>>

----------------------------------------------------------------------------
(* Teardown: the runner's log, then test_ns::close (harvest, namespace,    *)
(* binding contents), then the runner pod.                                 *)

\* The runner pod is deleted only by the path that created one.
after_close == IF Pod /\ proc # None THEN "delete_pod" ELSE "done"

\* Mutant: the runner's log is left for later.
RunnerLogs_skipped ==
    /\ pc = "logs" /\ pc' = "harvest"
    /\ UNCHANGED <<verdict, pull, clean, fetched, fault, opts, now, cancelled, world>>

RunnerLogs ==
    /\ pc = "logs"
    /\ fetched' = fetched \cup {"runner"}
    /\ pc' = "harvest"
    /\ UNCHANGED <<verdict, pull, clean, fault, opts, now, cancelled, world>>

Harvest ==
    /\ pc = "harvest"
    /\ fetched' = fetched \cup {"components"}
    /\ pc' = IF opts.no_cleanup THEN "done" ELSE "delete_ns"
    /\ UNCHANGED <<verdict, pull, clean, fault, opts, now, cancelled, world>>

\* A failure of the teardown is logged, not retried.
CloseFails(next) ==
    /\ fault' = TRUE /\ pc' = next
    /\ UNCHANGED <<verdict, pull, clean, fetched, opts, now, cancelled, world>>

DeleteNamespace ==
    /\ pc = "delete_ns"
    /\ \/ CloseFails(after_close)
       \/ /\ ns' = "terminating" /\ pc' = "await_ns"
          /\ UNCHANGED <<verdict, pull, clean, fetched, fault, opts, now, cancelled,
                         proc, image, helper, comps, binding>>

\* Mutant: an accepted delete counts as a finished one.
AwaitNamespace_accepted ==
    /\ pc = "await_ns" /\ pc' = "delete_vsc"
    /\ UNCHANGED <<verdict, pull, clean, fetched, fault, opts, now, cancelled, world>>

AwaitNamespace ==
    /\ pc = "await_ns" /\ ns = "gone" /\ pc' = "delete_vsc"
    /\ UNCHANGED <<verdict, pull, clean, fetched, fault, opts, now, cancelled, world>>

delete_seed_binding_contents_for_ns ==
    /\ pc = "delete_vsc"
    /\ \/ CloseFails(after_close)
       \/ /\ binding' = FALSE /\ pc' = after_close
          /\ UNCHANGED <<verdict, pull, clean, fetched, fault, opts, now, cancelled,
                         ns, proc, image, helper, comps>>

DeleteRunner ==
    /\ pc = "delete_pod"
    /\ \/ CloseFails("done")
       \/ /\ pc' = IF proc = "gone" THEN "done" ELSE "await_pod"
          /\ UNCHANGED <<verdict, pull, clean, fetched, fault, opts, now, cancelled,
                         world>>

AwaitRunner ==
    /\ pc = "await_pod" /\ proc = "gone" /\ pc' = "done"
    /\ UNCHANGED <<verdict, pull, clean, fetched, fault, opts, now, cancelled, world>>

\* The watch behind either wait may break; it need not.
WatchBreaks ==
    \/ pc = "await_ns" /\ CloseFails(after_close)
    \/ pc = "await_pod" /\ CloseFails("done")

----------------------------------------------------------------------------
(* The test process, the kubelet, the clock and the user.                  *)

\* env.rs materialize_phase: component pods go into the namespace only.
Deploy ==
    /\ proc = "running" /\ ns = "active" /\ comps = None
    /\ comps' = "up"
    /\ UNCHANGED <<opts, now, cancelled, engine, ns, proc, image, helper, binding>>

\* bind_seed creates the cluster-scoped content first, whatever the namespace.
bind_seed ==
    /\ proc = "running" /\ ~binding
    /\ binding' = TRUE
    /\ UNCHANGED <<opts, now, cancelled, engine, ns, proc, image, helper, comps>>

StartHelper ==
    /\ Local /\ proc = "running" /\ helper = None
    /\ helper' \in {"group", "escaped"}
    /\ UNCHANGED <<opts, now, cancelled, engine, ns, proc, image, comps, binding>>

HelperExits ==
    /\ helper # None
    /\ helper' = None
    /\ UNCHANGED <<opts, now, cancelled, engine, ns, proc, image, comps, binding>>

TestExits ==
    /\ proc = "running"
    /\ proc' \in {"passed", "failed"}
    /\ UNCHANGED <<opts, now, cancelled, engine, ns, image, helper, comps, binding>>

ComponentDies ==
    /\ comps = "up"
    /\ comps' = "dead"
    /\ UNCHANGED <<opts, now, cancelled, engine, ns, proc, image, helper, binding>>

PullMoves ==
    /\ proc = "pending" /\ image # "invalid"
    /\ image' \in {"ok", "backoff", "invalid"} \ {image}
    /\ UNCHANGED <<opts, now, cancelled, engine, ns, proc, helper, comps, binding>>

ContainerStarts ==
    /\ proc = "pending" /\ image = "ok"
    /\ proc' = "running"
    /\ UNCHANGED <<opts, now, cancelled, engine, ns, image, helper, comps, binding>>

\* Deleted by the engine, or under it: eviction, or a peer's orphan reaping.
RunnerRemoved ==
    /\ Pod /\ proc \notin {None, "gone"} /\ pc \in {"wait", "await_pod"}
    /\ proc' = "gone"
    /\ UNCHANGED <<opts, now, cancelled, engine, ns, image, helper, comps, binding>>

NamespaceFinalized ==
    /\ ns = "terminating"
    /\ ns' = "gone" /\ comps' = None
    /\ UNCHANGED <<opts, now, cancelled, engine, proc, image, helper, binding>>

Tick ==
    /\ pc # "done" /\ now < HardCap
    /\ now' = now + 1
    /\ pull' = IF pull \in 1..Grace THEN pull + 1 ELSE pull
    /\ clean' = IF clean < Grace THEN clean + 1 ELSE clean
    /\ UNCHANGED <<opts, cancelled, pc, verdict, fetched, fault, world>>

CtrlC ==
    /\ ~cancelled
    /\ cancelled' = TRUE
    /\ UNCHANGED <<opts, now, engine, world>>

Resolved == pc = "done" /\ UNCHANGED vars

Engine ==
    \/ create_test_namespace \/ bind_driver \/ wait_for_default_sa \/ Spawn
    \/ Poll \/ PodCancelled \/ ChildExited \/ CapExpires \/ LocalCancelled \/ Drain
    \/ RunnerLogs \/ Harvest \/ DeleteNamespace \/ AwaitNamespace
    \/ delete_seed_binding_contents_for_ns \/ DeleteRunner \/ AwaitRunner

Next ==
    \/ Engine \/ WatchBreaks
    \/ Deploy \/ bind_seed \/ StartHelper \/ HelperExits \/ TestExits \/ ComponentDies
    \/ PullMoves \/ ContainerStarts \/ RunnerRemoved \/ NamespaceFinalized
    \/ Tick \/ CtrlC \/ Resolved

Spec == Init /\ [][Next]_vars

(* The runtime keeps polling the future and time passes.  Of the cluster,  *)
(* only that an accepted delete finishes: delete_and_await has no give-up. *)
(* Nothing is assumed of the test process or its helpers.                  *)
FairSpec ==
    /\ Spec
    /\ WF_vars(Engine) /\ WF_vars(Tick)
    /\ WF_vars(NamespaceFinalized)
    /\ WF_vars(pc = "await_pod" /\ RunnerRemoved)

----------------------------------------------------------------------------
(* Properties.                                                             *)

\* When the outcome reaches the run loop, which then frees the test's slot, the
\* attempt holds nothing on the cluster, if cleanup was asked for and no API call
\* failed: no namespace, no component pod, no live test process, no binding after a
\* test that reached its own end, and no member of a killed process group.  Until then
\* the namespace spans a local test process: the cap and the cancellation reap it first.
NothingOutlives ==
    /\ pc = "done" /\ ~opts.no_cleanup /\ ~fault =>
           /\ ns \in {None, "gone"} /\ comps = None /\ ~Alive
           /\ verdict \in {"Timeout", "Terminated"} => helper # "group"
           /\ Local \/ verdict \in {"Pass", "Fail"} => ~binding
    /\ Local /\ proc = "running" => ns = "active" /\ pc = "wait"

\* "Every log fetched before anything is deleted" (pod_runner.rs:193, test_ns.rs:5).
FetchedFirst ==
    /\ ns \in {"terminating", "gone"} => "components" \in fetched
    /\ Pod /\ proc # None /\ ns \in {"terminating", "gone"} => "runner" \in fetched

\* A transient pull error ends the wait only after a whole grace in which no read of
\* the pod saw the pull succeed: a storm that clears and returns starts the grace anew.
GraceRestarts ==
    [][Pod /\ pc = "wait" /\ verdict' = "SpawnError" =>
          image = "invalid" \/ (image = "backoff" /\ clean = Grace)]_vars

\* Every attempt resolves: by its own end, at the hard cap or on Ctrl-C, through a
\* teardown that never waits on the test, provided no helper holds the pipe for ever.
Resolves == []<>(helper = None) => <>(pc = "done")

(* Claims of the source that the model refutes.                            *)

\* test_ns.rs:1: the namespace is "harvested + deleted after it exits" on every executor.
DeletedAfterExit == proc = "running" => ns = "active"

\* cluster.rs:308: binding contents are "reaped at per-test teardown".
BindingsReaped == pc = "done" /\ ~opts.no_cleanup /\ ~fault => ~binding

\* events.rs:12: "Terminated = killed in flight"; guide-running-tests.md:97: "killed at 2x".
KilledIsDead ==
    pc = "done" /\ ~fault /\ verdict \in {"Timeout", "Terminated"} => proc # "running"

\* local_runner.rs:128: on cancel "the run loop still reports every in-flight test".
CancelReports == cancelled ~> pc = "done"
=============================================================================
