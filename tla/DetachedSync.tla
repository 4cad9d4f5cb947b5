---------------------------- MODULE DetachedSync ----------------------------
(***************************************************************************)
(* One detached sync from `ztest sync start` to its last trace:            *)
(*   - the CLI that reserves, launches the driver pod, hands its lease     *)
(*     over and may stay attached (cli/src/sync/mod.rs, watch.rs);         *)
(*   - the driver that adopts the lease, deploys, runs the engine, mirrors *)
(*     its report and tears down (sync/facade.rs, sync/detached.rs,        *)
(*     env.rs), with the ledger's two renewal tasks (qos/ledger.rs);       *)
(*   - those who delete what they did not create: a peer's admission       *)
(*     (sweep_expired, reap_orphans) and `ztest cleanup` (reclaim.rs);     *)
(*   - the kubelet, the garbage collector and the clock.                   *)
(* No two API calls are one step.                                          *)
(*                                                                         *)
(* Abstractions: one sync (ids are random); time in renewal intervals, the *)
(* lease's TTL being Ttl of them; the engine's run is one step             *)
(* (SyncEngine has it); the component pods live and die with the sync's    *)
(* namespace; the profiler and the metric series have no part in this      *)
(* protocol.  A mode bounds what goes wrong: the API calls that fail, and  *)
(* which of the CLI's death, a stop, peers and a pass of cleanup happen.   *)
(***************************************************************************)
EXTENDS Naturals

CONSTANTS
    Ttl,      \* LEASE_DURATION_SECS / RENEW_INTERVAL
    Modes     \* the invocations explored, each with the bounds of its adversary

\* The flags of `sync start` (watch, no_cleanup) and of `cleanup` (force); who else acts.
ModeType == [watch : BOOLEAN, no_cleanup : BOOLEAN, force : BOOLEAN,
             crash : BOOLEAN, fail : BOOLEAN, stop : BOOLEAN,
             peers : BOOLEAN, cleanup : BOOLEAN, faults : Nat]

ASSUME DetachedAssumption == Ttl \in Nat \ {0} /\ Modes \subseteq ModeType

VARIABLES
    mode,      \* the member of Modes explored
    cli,       \* where `ztest sync start` is
    lease,     \* [holder, age] of the sync's Lease; holder "none": no lease
    tasks,     \* the processes whose renewal task runs
    tried,     \* those that attempted this interval's renewal
    stray,     \* renewals sent by a task aborted since, not yet applied
    pod,       \* the driver pod: [phase, deleting, stop]
    drv,       \* where the driver process is
    verdict,   \* what the engine returned: "pass", or "fail" for all the rest, a cancelled run included
    ns,        \* the sync's namespace: "none", "live", "deleting", "gone"
    ttl,       \* its TTL annotation: "birth" or "finished"
    record,    \* the record ConfigMap: [exists, launch, report]
    bindings,  \* cluster-scoped seed-binding contents exist
    sweep,     \* a peer's sweep_expired found the lease expired
    reap,      \* where a peer's reap_orphans is
    op,        \* where `ztest cleanup` is, and what it has read
    cleaned,   \* the pass of cleanup has begun
    faults     \* API calls that failed

cluster == <<lease, stray, pod, ns, ttl, record, bindings>>
driver == <<drv, verdict>>
renewal == <<tasks, tried>>
peers == <<sweep, reap>>
vars == <<mode, cli, cluster, driver, renewal, peers, op, cleaned, faults>>

NoLease == [holder |-> "none", age |-> 0]
NoPod == [phase |-> "none", deleting |-> FALSE, stop |-> FALSE]
NoRecord == [exists |-> FALSE, launch |-> FALSE, report |-> "none"]
\* op.up is a history: the driver was listed pending or running, or could not be listed.
Idle == [at |-> "idle", live |-> FALSE, pod |-> "none", ns |-> "none",
         plan |-> "spare", vsc |-> FALSE, lease |-> FALSE, up |-> FALSE]

Live(l) == l.holder # "none" /\ l.age < Ttl

Settled == {"none", "Succeeded", "Failed"}
Returned == {"started", "passed", "refused", "failed", "dead"}

Fine == UNCHANGED faults
Fails == faults < mode.faults /\ faults' = faults + 1

\* An API call that is served, or fails and changes nothing.
Call(served, failed) == (Fine /\ served) \/ (Fails /\ failed)

\* Server-side apply: creates the lease or takes it over, with a fresh renewTime.
write(who) == lease' = [holder |-> who, age |-> 0]

\* The reservation is dropped: its task is aborted, perhaps after sending a renewal.
abort(who) ==
    /\ tasks' = tasks \ {who}
    /\ tried' = tried \ {who}
    /\ stray' \in {stray, stray \cup (tasks \cap {who})}

\* A pod delete is accepted: a pod with no process yet goes at once.
deleted(p) == IF p.phase = "none" THEN p ELSE [p EXCEPT !.deleting = TRUE]

Init ==
    /\ mode \in Modes
    /\ cli = "acquired" /\ lease = [holder |-> "cli", age |-> 0]
    /\ tasks = {"cli"} /\ tried = {} /\ stray = {}
    /\ pod = NoPod /\ drv = "off" /\ verdict = "none"
    /\ ns = "none" /\ ttl = "birth" /\ record = NoRecord /\ bindings = FALSE
    /\ sweep = FALSE /\ reap = "idle" /\ op = Idle /\ cleaned = FALSE /\ faults = 0

-----------------------------------------------------------------------------
(* `ztest sync start`, from the reservation on. *)

ensure_sync_namespace ==
    /\ cli = "acquired"
    /\ \/ Fine /\ ns' = "live" /\ cli' = "namespaced"
       \/ Fails /\ UNCHANGED ns /\ cli' = "abandon"
    /\ UNCHANGED <<mode, lease, stray, pod, ttl, record, bindings, driver, renewal, peers, op, cleaned>>

create_driver ==
    /\ cli = "namespaced"
    /\ \/ Fine /\ pod' = [NoPod EXCEPT !.phase = "Pending"] /\ cli' = "created"
       \/ Fails /\ UNCHANGED pod /\ cli' = "abandon"
    /\ UNCHANGED <<mode, lease, stray, ns, ttl, record, bindings, driver, renewal, peers, op, cleaned>>

\* write_launch: an apply, so it creates the record; an unrecorded launch is abandoned.
record_launch ==
    /\ cli = "created"
    /\ \/ Fine /\ record' = [record EXCEPT !.exists = TRUE, !.launch = TRUE] /\ cli' = "await"
       \/ Fails /\ UNCHANGED record /\ cli' = "abandon"
    /\ UNCHANGED <<mode, lease, stray, pod, ns, ttl, bindings, driver, renewal, peers, op, cleaned>>

\* A pod that is gone, or that succeeded before a poll saw it run, is polled for ever.
await_driver_running ==
    /\ cli = "await"
    /\ \/ pod.phase = "Running" /\ cli' = "handoff"
       \/ pod.phase = "Failed" /\ cli' = "abandon"
    /\ Fine
    /\ UNCHANGED <<mode, cluster, driver, renewal, peers, op, cleaned>>

\* PENDING_TIMEOUT without a node, or a pull error past its grace.
DriverNeverRuns ==
    /\ cli = "await" /\ pod.phase = "Pending"
    /\ cli' = "abandon" /\ Fine
    /\ UNCHANGED <<mode, cluster, driver, renewal, peers, op, cleaned>>

\* Mutant: handed off as soon as the driver runs.
hand_off_unadopted ==
    /\ cli = "handoff"
    /\ \/ Fine /\ pod.phase = "Running" /\ abort("cli")
          /\ cli' = IF mode.watch THEN "watching" ELSE "started"
       \/ Fine /\ pod.phase \in Settled /\ cli' = "abandon" /\ UNCHANGED <<renewal, stray>>
       \/ Fails /\ cli' = "abandon" /\ UNCHANGED <<renewal, stray>>
    /\ UNCHANGED <<mode, lease, pod, ns, ttl, record, bindings, driver, peers, op, cleaned>>

\* The two watches of hand_off race: adoption, and driver_died; either may break.
hand_off ==
    /\ cli = "handoff"
    /\ \/ Fine /\ lease.holder = "driver" /\ abort("cli")
          /\ cli' = IF mode.watch THEN "watching" ELSE "started"
       \/ Fine /\ pod.phase \in Settled /\ cli' = "abandon" /\ UNCHANGED <<renewal, stray>>
       \/ Fails /\ cli' = "abandon" /\ UNCHANGED <<renewal, stray>>
    /\ UNCHANGED <<mode, lease, pod, ns, ttl, record, bindings, driver, peers, op, cleaned>>

\* Pod, namespace, record; every delete best effort.
abandon_launch ==
    /\ \/ cli = "abandon" /\ cli' = "abandon_ns" /\ Call(pod' = deleted(pod), UNCHANGED pod)
          /\ UNCHANGED <<ns, record>>
       \/ cli = "abandon_ns" /\ cli' = "abandon_record"
          /\ Call(ns' = (IF ns = "live" THEN "deleting" ELSE ns), UNCHANGED ns)
          /\ UNCHANGED <<pod, record>>
       \/ cli = "abandon_record" /\ cli' = "release"
          /\ Call(record' = NoRecord, UNCHANGED record)
          /\ UNCHANGED <<pod, ns>>
    /\ UNCHANGED <<mode, lease, stray, ttl, bindings, driver, renewal, peers, op, cleaned>>

\* Mutant: released without stopping the renewal task.
release_renewing ==
    /\ cli = "release" /\ cli' = "failed"
    /\ UNCHANGED <<renewal, stray>>
    /\ Call(lease' = NoLease, UNCHANGED lease)
    /\ UNCHANGED <<mode, pod, ns, ttl, record, bindings, driver, peers, op, cleaned>>

release ==
    /\ cli = "release" /\ cli' = "failed"
    /\ abort("cli")
    /\ Call(lease' = NoLease, UNCHANGED lease)
    /\ UNCHANGED <<mode, pod, ns, ttl, record, bindings, driver, peers, op, cleaned>>

\* `--watch`: the tail ends once the driver container runs no more (reattach_driver);
\* settled reads the record, then the pod.  An attach that errs is no failure of start.
attach ==
    /\ cli = "watching" /\ pod.phase # "Pending" /\ drv \in {"off", "gone"}
    /\ \/ Fine /\ cli' = CASE record.report = "pass" -> "passed"
                           [] record.report \notin {"pass", "none"} -> "refused"
                           [] record.report = "none" /\ pod.phase # "none" -> "refused"
                           [] OTHER -> "started"
       \/ Fails /\ cli' = "started"
    /\ UNCHANGED <<mode, cluster, driver, renewal, peers, op, cleaned>>

\* Ctrl-C leaves the sync running.
Detach ==
    /\ cli = "watching" /\ cli' = "started" /\ Fine
    /\ UNCHANGED <<mode, cluster, driver, renewal, peers, op, cleaned>>

\* The CLI is killed anywhere.
CliDies ==
    /\ mode.crash /\ cli \notin Returned
    /\ cli' = "dead" /\ abort("cli") /\ Fine
    /\ UNCHANGED <<mode, lease, pod, ns, ttl, record, bindings, driver, peers, op, cleaned>>

\* `ztest sync stop`: find_driver, then the annotation.
stop ==
    /\ mode.stop /\ pod.phase # "none" /\ ~ pod.stop
    /\ pod' = [pod EXCEPT !.stop = TRUE] /\ Fine
    /\ UNCHANGED <<mode, cli, lease, stray, ns, ttl, record, bindings, driver, renewal, peers, op, cleaned>>

-----------------------------------------------------------------------------
(* The ledger's renewals and the clock.  Bound: a pass of cleanup is quicker than an interval. *)

renew(t) ==
    /\ t \in tasks \ tried
    /\ tried' = tried \cup {t} /\ UNCHANGED tasks
    /\ Call(write(t), UNCHANGED lease)
    /\ UNCHANGED <<mode, cli, stray, pod, ns, ttl, record, bindings, driver, peers, op, cleaned>>

StrayLands(t) ==
    /\ t \in stray
    /\ stray' = stray \ {t} /\ write(t) /\ Fine
    /\ UNCHANGED <<mode, cli, pod, ns, ttl, record, bindings, driver, renewal, peers, op, cleaned>>

\* One renewal interval passes: every task attempts its renewal in it.
Elapse ==
    /\ tried = tasks /\ op.at = "idle"
    /\ tried' = {} /\ UNCHANGED tasks
    /\ lease' = IF lease.holder # "none" /\ lease.age < Ttl
                THEN [lease EXCEPT !.age = @ + 1] ELSE lease
    /\ Fine
    /\ UNCHANGED <<mode, cli, stray, pod, ns, ttl, record, bindings, driver, peers, op, cleaned>>

-----------------------------------------------------------------------------
(* The driver. *)

\* The lease is read, then written back under the driver's name.
adopt_get ==
    /\ drv = "off" /\ pod.phase = "Running"
    /\ \/ Fine /\ drv' = IF lease.holder = "none" THEN "unwind" ELSE "adopting"
       \/ Fails /\ drv' = "unwind"
    /\ UNCHANGED <<mode, cli, cluster, verdict, renewal, peers, op, cleaned>>

adopt ==
    /\ drv = "adopting"
    /\ \/ Fine /\ write("driver") /\ tasks' = tasks \cup {"driver"} /\ tried' = tried \cup {"driver"}
          /\ drv' = "building"
       \/ Fails /\ drv' = "unwind" /\ UNCHANGED <<lease, renewal>>
    /\ UNCHANGED <<mode, cli, stray, pod, ns, ttl, record, bindings, verdict, peers, op, cleaned>>

\* TestEnv::build binds the seeds and deploys; any failure unwinds without a report.
build ==
    /\ drv = "building"
    /\ \/ bindings' = TRUE /\ drv' \in {"engine", "unwind"}
       \/ drv' = "unwind" /\ UNCHANGED bindings
    /\ Fine
    /\ UNCHANGED <<mode, cli, lease, stray, pod, ns, ttl, record, verdict, renewal, peers, op, cleaned>>

\* Mutant: only SIGTERM is watched.
stop_requested_term_only == pod.deleting

\* watch_stop, armed with the engine: the annotation, or SIGTERM.
stop_requested == pod.stop \/ pod.deleting

EngineStops ==
    /\ drv = "engine" /\ stop_requested
    /\ drv' = "report" /\ verdict' = "fail" /\ Fine
    /\ UNCHANGED <<mode, cli, cluster, renewal, peers, op, cleaned>>

EngineEnds ==
    /\ drv = "engine"
    /\ drv' = "report" /\ verdict' \in {"pass", "fail"} /\ Fine
    /\ UNCHANGED <<mode, cli, cluster, renewal, peers, op, cleaned>>

\* Mutant: applied, so a reclaimed record comes back without its labels.
write_report_applied ==
    /\ drv = "report" /\ drv' = "teardown"
    /\ \/ Fine /\ record' = [record EXCEPT !.exists = TRUE, !.report = verdict]
       \/ Fails /\ UNCHANGED record
    /\ UNCHANGED <<mode, cli, lease, stray, pod, ns, ttl, bindings, verdict, renewal, peers, op, cleaned>>

\* A merge patch: it updates the record and never creates one.
write_report ==
    /\ drv = "report" /\ drv' = "teardown"
    /\ \/ Fine /\ record' = IF record.exists THEN [record EXCEPT !.report = verdict] ELSE record
       \/ Fails /\ UNCHANGED record
    /\ UNCHANGED <<mode, cli, lease, stray, pod, ns, ttl, bindings, verdict, renewal, peers, op, cleaned>>

\* drop(env): the bindings unless they are held, a failed delete being logged and passed over,
\* then the reservation's task; a driver that never finished its build has only that to do.
teardown ==
    /\ drv \in {"teardown", "unwind"}
    /\ drv' = IF drv = "teardown" THEN "mark" ELSE "exit"
    /\ IF bindings /\ ~ mode.no_cleanup
       THEN Call(bindings' = FALSE, UNCHANGED bindings)
       ELSE Fine /\ UNCHANGED bindings
    /\ abort("driver")
    /\ UNCHANGED <<mode, cli, lease, pod, ns, ttl, record, verdict, peers, op, cleaned>>

mark_finished ==
    /\ drv = "mark" /\ drv' = "exit"
    /\ \/ Fine /\ ttl' = IF mode.no_cleanup THEN ttl ELSE "finished"
       \/ Fails /\ UNCHANGED ttl
    /\ UNCHANGED <<mode, cli, lease, stray, pod, ns, record, bindings, verdict, renewal, peers, op, cleaned>>

Exit ==
    /\ drv = "exit" /\ drv' = "gone"
    /\ pod' = [pod EXCEPT !.phase = IF verdict = "pass" THEN "Succeeded" ELSE "Failed"] /\ Fine
    /\ UNCHANGED <<mode, cli, lease, stray, ns, ttl, record, bindings, verdict, renewal, peers, op, cleaned>>

-----------------------------------------------------------------------------
(* Kubelet, garbage collector. *)

PodRuns ==
    /\ pod.phase = "Pending" /\ ~ pod.deleting
    /\ pod' = [pod EXCEPT !.phase = "Running"] /\ Fine
    /\ UNCHANGED <<mode, cli, lease, stray, ns, ttl, record, bindings, driver, renewal, peers, op, cleaned>>

\* OOM kill, eviction, a container that cannot start.
PodFails ==
    /\ mode.fail
    /\ pod.phase \in {"Pending", "Running"}
    /\ pod' = [pod EXCEPT !.phase = "Failed"] /\ drv' = "gone" /\ abort("driver") /\ Fine
    /\ UNCHANGED <<mode, cli, lease, ns, ttl, record, bindings, verdict, peers, op, cleaned>>

\* A deleted pod goes when its process has exited, or is killed past STOP_GRACE_SECS.
PodGoes ==
    /\ pod.deleting
    /\ pod' = NoPod /\ drv' = "gone" /\ abort("driver") /\ Fine
    /\ UNCHANGED <<mode, cli, lease, ns, ttl, record, bindings, verdict, peers, op, cleaned>>

\* The namespace drains; the driver, which it owns, is collected with it.
NamespaceGoes ==
    /\ ns = "deleting" /\ ns' = "gone" /\ Fine
    /\ UNCHANGED <<mode, cli, lease, stray, pod, ttl, record, bindings, driver, renewal, peers, op, cleaned>>

Collect ==
    /\ ns = "gone" /\ pod.phase # "none" /\ ~ pod.deleting
    /\ pod' = [pod EXCEPT !.deleting = TRUE] /\ Fine
    /\ UNCHANGED <<mode, cli, lease, stray, ns, ttl, record, bindings, driver, renewal, peers, op, cleaned>>

\* A TTL sweep of namespaces: ztest ships none, clusters may run one; the birth TTL is
\* longer than any behaviour here.
Janitor ==
    /\ mode.peers /\ ns = "live" /\ ttl = "finished"
    /\ ns' = "deleting" /\ Fine
    /\ UNCHANGED <<mode, cli, lease, stray, pod, ttl, record, bindings, driver, renewal, peers, op, cleaned>>

-----------------------------------------------------------------------------
(* A peer's admission. *)

sweep_expired ==
    /\ mode.peers
    /\ \/ ~ sweep /\ lease.holder # "none" /\ ~ Live(lease) /\ sweep' = TRUE /\ UNCHANGED lease
       \/ sweep /\ sweep' = FALSE /\ lease' = NoLease
    /\ Fine
    /\ UNCHANGED <<mode, cli, stray, pod, ns, ttl, record, bindings, driver, renewal, reap, op, cleaned>>

\* Objects before leases.  A sync's namespace and pod carry `kind` and are not run-scoped;
\* its seed bindings do not, and are.  reap_run deletes by run id alone: the driver, awaited,
\* then the bindings, then, when nothing failed, the lease.
reap_orphans ==
    /\ mode.peers
    /\ \/ reap = "idle" /\ bindings /\ reap' = "leases" /\ UNCHANGED <<pod, bindings, lease>>
       \/ reap = "leases" /\ reap' = (IF Live(lease) THEN "idle" ELSE "driver")
          /\ UNCHANGED <<pod, bindings, lease>>
       \/ reap = "driver" /\ pod' = deleted(pod) /\ reap' = "await" /\ UNCHANGED <<bindings, lease>>
       \/ reap = "await" /\ pod.phase = "none" /\ reap' = "bindings" /\ UNCHANGED <<pod, bindings, lease>>
       \/ reap = "bindings" /\ bindings' = FALSE /\ reap' \in {"lease", "idle"} /\ UNCHANGED <<pod, lease>>
       \/ reap = "lease" /\ lease' = NoLease /\ reap' = "idle" /\ UNCHANGED <<pod, bindings>>
    /\ Fine
    /\ UNCHANGED <<mode, cli, stray, ns, ttl, record, driver, renewal, sweep, op, cleaned>>

-----------------------------------------------------------------------------
(* `ztest cleanup`: discover, one list after another, then reclaim. *)

live_run_ids ==
    /\ op.at = "idle" /\ mode.cleanup /\ ~ cleaned /\ cleaned' = TRUE
    /\ op' = [Idle EXCEPT !.at = "pods", !.live = Live(lease)] /\ Fine
    /\ UNCHANGED <<mode, cli, cluster, driver, renewal, peers>>

\* The driver as a list of pods shows it; an unreadable list is not an empty one.
\* (Lists of the one pass fail freely.)
driver_state(p) == CASE p.deleting -> "dying"
                     [] p.phase \in {"Pending", "Running"} -> "live"
                     [] OTHER -> p.phase

discover_pods ==
    /\ op.at = "pods" /\ Fine
    /\ \E seen \in {driver_state(pod), "unknown"} : op' = [op EXCEPT !.at = "namespaces", !.pod = seen]
    /\ UNCHANGED <<mode, cli, cluster, driver, renewal, peers, cleaned>>

discover_namespaces ==
    /\ op.at = "namespaces" /\ Fine
    /\ \/ op' = [op EXCEPT !.at = "records", !.ns = IF ns = "gone" THEN "none" ELSE ns]
       \/ op' = [op EXCEPT !.at = "bindings", !.pod = "none"]
    /\ UNCHANGED <<mode, cli, cluster, driver, renewal, peers, cleaned>>

\* Mutant: an unreadable list of pods reads as no pod.
classify_sync_blind(o) ==
    CASE o.ns = "deleting" \/ o.pod = "dying" -> "terminating"
      [] o.pod = "live" -> "live"
      [] OTHER -> "finished"

classify_sync(o) ==
    CASE o.ns = "deleting" \/ o.pod = "dying" -> "terminating"
      [] o.pod \in {"unknown", "live"} -> "live"
      [] OTHER -> "finished"

\* sync_targets: one target when any part is there; triage spares a live one unless forced.
discover_records ==
    /\ op.at = "records" /\ Fine
    /\ LET found == op.ns # "none" \/ op.pod \notin {"none", "unknown"} \/ record.exists
           c == classify_sync(op)
       IN  op' = [op EXCEPT !.at = "bindings", !.ns = "none", !.pod = "none",
                            !.up = op.pod \in {"unknown", "live"},
                            !.plan = CASE ~ found \/ (c = "live" /\ ~ mode.force) -> "spare"
                                       [] c = "terminating" -> "report_only"
                                       [] OTHER -> "delete"]
    /\ UNCHANGED <<mode, cli, cluster, driver, renewal, peers, cleaned>>

\* discover_seed_bindings, discover_reservations: a binding goes when its run held no live lease
\* as the pass began, a reservation when expired.
discover_rest ==
    /\ op.at = "bindings" /\ Fine
    /\ op' = [op EXCEPT !.live = FALSE,
                        !.vsc = bindings /\ (mode.force \/ ~ op.live),
                        !.lease = lease.holder # "none" /\ (mode.force \/ ~ Live(lease)),
                        !.up = op.up /\ op.plan # "spare",
                        !.at = IF op.plan = "spare" THEN "delete_bindings" ELSE "report"]
    /\ UNCHANGED <<mode, cli, cluster, driver, renewal, peers, cleaned>>

\* The sync's target is dealt with; bindings and reservation are left.
Rest(o) == [o EXCEPT !.at = "delete_bindings", !.plan = "spare", !.up = FALSE]

\* The record of a terminating target is reclaimed too.
delete_reports ==
    /\ op.at = "report"
    /\ op' = IF op.plan = "delete" THEN [op EXCEPT !.at = "delete_ns"] ELSE Rest(op)
    /\ Call(record' = NoRecord, UNCHANGED record)
    /\ UNCHANGED <<mode, cli, lease, stray, pod, ns, ttl, bindings, driver, renewal, peers, cleaned>>

\* The namespace first, then the driver; both always attempted.
delete_sync ==
    /\ \/ op.at = "delete_ns" /\ op' = [op EXCEPT !.at = "delete_pod"]
          /\ Call(ns' = (IF ns = "live" THEN "deleting" ELSE ns), UNCHANGED ns)
          /\ UNCHANGED pod
       \/ op.at = "delete_pod" /\ op' = Rest(op)
          /\ Call(pod' = deleted(pod), UNCHANGED pod)
          /\ UNCHANGED ns
    /\ UNCHANGED <<mode, cli, lease, stray, ttl, record, bindings, driver, renewal, peers, cleaned>>

\* Kind order: the reservation after everything that consumes it.
delete_rest ==
    /\ \/ op.at = "delete_bindings" /\ op' = [op EXCEPT !.at = "delete_lease", !.vsc = FALSE]
          /\ bindings' = (bindings /\ ~ op.vsc) /\ UNCHANGED lease
       \/ op.at = "delete_lease" /\ op' = Idle
          /\ lease' = (IF op.lease THEN NoLease ELSE lease) /\ UNCHANGED bindings
    /\ Fine
    /\ UNCHANGED <<mode, cli, stray, pod, ns, ttl, record, driver, renewal, peers, cleaned>>

-----------------------------------------------------------------------------

Cli == ensure_sync_namespace \/ create_driver \/ record_launch \/ await_driver_running
       \/ hand_off \/ abandon_launch \/ release \/ attach

Driver == adopt_get \/ adopt \/ build \/ EngineStops \/ write_report \/ teardown \/ mark_finished \/ Exit

Processes == {"cli", "driver"}

Renewals == Elapse \/ \E t \in Processes : renew(t)

Cleanup == \/ discover_pods \/ discover_namespaces \/ discover_records
           \/ discover_rest \/ delete_reports \/ delete_sync \/ delete_rest

Kubelet == PodGoes \/ NamespaceGoes \/ Collect

Next ==
    \/ Cli \/ DriverNeverRuns \/ Detach \/ CliDies \/ stop
    \/ Driver \/ EngineEnds
    \/ Renewals \/ \E t \in Processes : StrayLands(t)
    \/ Kubelet \/ PodRuns \/ PodFails \/ Janitor
    \/ sweep_expired \/ reap_orphans
    \/ live_run_ids \/ Cleanup

Spec == Init /\ [][Next]_vars

\* Processes run on, the clock advances, requests sent are served, a deleted object goes.
FairSpec ==
    /\ Spec
    /\ WF_vars(Cli) /\ WF_vars(Driver) /\ WF_vars(Kubelet) /\ WF_vars(Cleanup)
    /\ WF_vars(Renewals) /\ \A t \in Processes : WF_vars(StrayLands(t))

-----------------------------------------------------------------------------
(* Properties. *)

\* The sync's capacity is reserved without a gap: while start has not given the launch up and
\* was not killed, and then until the driver has reported, some live lease covers the sync;
\* the hand-off (two tasks renewing one lease, the elder aborted on the younger's write) leaves
\* no interval in which a peer's admission would count the capacity free.  A forced cleanup
\* deletes the lease by intent.
HandOffWithoutGap ==
    ~ mode.force =>
        /\ cli \in {"acquired", "namespaced", "created", "await", "handoff"} => Live(lease)
        /\ cli \in {"started", "watching", "passed", "refused"} /\ pod.phase = "Running"
           /\ drv \in {"off", "adopting", "building", "engine", "report"} => Live(lease)

\* No end strands anything.  A record that exists has its launch half: the driver's verdict is
\* patched onto the record start applied, and never brings back one that cleanup or an
\* abandoned launch reclaimed, which no label would select.  A start that gave up, with no call
\* failing, leaves no record to watch and no pod and no namespace that is not going.  And the
\* namespace is offered to a TTL sweep only after the engine returned and the driver had its
\* try at the report and at the bindings, so no sweep cuts either short; with no call failing,
\* no binding is left that the sweep of the namespace would not reach.
NothingStranded ==
    /\ record.exists => record.launch
    /\ cli = "failed" /\ faults = 0 =>
          ~ record.exists /\ ns # "live" /\ (pod.phase # "none" => pod.deleting)
    /\ ttl = "finished" =>
          verdict # "none" /\ drv \in {"exit", "gone"} /\ (faults = 0 => ~ bindings)

\* A held sync keeps its seed bindings: with a start that returned, a `--no-cleanup` run that
\* reached its verdict and no cleanup asked for, they are there as long as the namespace is held.
HeldBindingsKept == mode.no_cleanup /\ cli = "started" /\ verdict # "none" => bindings

\* No sweep takes a running sync.  A pass of cleanup without --force never deletes the driver,
\* the namespace or the record of one whose driver was pending or running when it listed the
\* pods, or could not be listed, and still is; of one it saw terminating already, it reclaims
\* the record only (report_only).  And an orphan sweep deletes no driver of a sync
\* whose start returned of itself: with at most one renewal lost, its lease is live.
RunningSyncSpared ==
    [][/\ op.up /\ ~ mode.force /\ op.at \in {"report", "delete_ns", "delete_pod"} /\ op' # op
             => op.plan = "report_only" \/ pod.phase \in Settled
       /\ reap = "driver" /\ reap' = "await" /\ cli \in {"started", "passed", "refused"}
                /\ ~ mode.force
             => drv \notin {"building", "engine", "report"}]_vars

\* `ztest sync stop` is honoured: a driver whose engine runs with the annotation set ends.
StopHonoured == (drv = "engine" /\ pod.stop) ~> drv \notin {"engine", "report"}

\* The capacity of a sync that is over comes back, whichever of its holders failed to release it
\* and although a renewal sent before an abort may land after the delete: once start returned
\* and the driver is gone, the ledger for good counts no live lease of it.
LeaseFreed == (cli \in Returned /\ drv = "gone") ~> [](~ Live(lease))

=============================================================================
