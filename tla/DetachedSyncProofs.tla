------------------------- MODULE DetachedSyncProofs -------------------------
(***************************************************************************)
(* Proofs about DetachedSync, for every lease TTL and every set of modes.  *)
(***************************************************************************)
EXTENDS DetachedSync, TLAPS

Launching == {"acquired", "namespaced", "created", "await", "handoff"}
GivingUp == {"abandon", "abandon_ns", "abandon_record", "release", "failed"}
HandedOff == {"started", "watching", "passed", "refused"}
Unadopted == {"off", "adopting"}
Working == {"building", "engine", "report"}

(* Fewer API calls fail than renewals fit in the lease's TTL.              *)
Tolerated == \A m \in Modes : m.faults + 1 < Ttl

LeaseType == [holder : Processes \cup {"none"}, age : Nat]
PodType == [phase : Settled \cup {"Pending", "Running"}, deleting : BOOLEAN, stop : BOOLEAN]
Verdicts == {"none", "pass", "fail"}
RecordType == [exists : BOOLEAN, launch : BOOLEAN, report : Verdicts]
Stages == {"idle", "pods", "namespaces", "records", "bindings", "report", "delete_ns",
           "delete_pod", "delete_bindings", "delete_lease"}
Plans == {"spare", "report_only", "delete"}
OpType == [at : Stages, live : BOOLEAN, pod : Settled \cup {"dying", "live", "unknown"},
           ns : {"none", "live", "deleting"}, plan : Plans,
           vsc : BOOLEAN, lease : BOOLEAN, up : BOOLEAN]

TypeInv ==
    /\ cli \in Launching \cup GivingUp \cup HandedOff \cup {"dead"}
    /\ lease \in LeaseType /\ pod \in PodType /\ record \in RecordType /\ op \in OpType
    /\ ns \in {"none", "live", "deleting", "gone"} /\ verdict \in Verdicts /\ bindings \in BOOLEAN

CountInv == mode \in Modes /\ faults \in Nat /\ faults <= mode.faults

(* Who renews.  A task runs as long as its process needs the lease, and    *)
(* nothing is written in the driver's name before it adopted; start hands  *)
(* off to a driver that has.                                               *)
TaskInv ==
    /\ tasks \subseteq Processes /\ tried \subseteq tasks /\ stray \subseteq Processes
    /\ cli \in Launching => "cli" \in tasks
    /\ drv \in Working \cup {"teardown"} => "driver" \in tasks
    /\ drv \in Unadopted => /\ lease.holder # "driver" /\ "driver" \notin stray \cup tasks
                            /\ cli \notin HandedOff

Covered == cli \in Launching \/ (cli \in HandedOff /\ drv \in Working)

(* The lease is as old as renewals failed, and one interval more between   *)
(* the tick and the next attempt.                                          *)
Renewed ==
    /\ lease.holder # "none"
    /\ lease.age <= faults + 1
    /\ tried # {} => lease.age <= faults

(* Nobody who deletes leases has found it expired.                         *)
Unswept == ~ sweep /\ ~ op.lease /\ reap \in {"idle", "leases"}

CoverInv == Covered /\ ~ mode.force => Renewed /\ Unswept

(* The driver and its pod; what an abandoned launch has deleted.           *)
PodInv ==
    /\ cli \in {"acquired", "namespaced"} => pod = NoPod /\ drv = "off"
    /\ drv \notin {"off", "gone"} => pod.phase = "Running"
    /\ cli \in {"abandon_ns", "abandon_record", "release", "failed"} /\ faults = 0
          => pod.phase = "none" \/ pod.deleting
    /\ cli \in {"abandon_record", "release", "failed"} /\ faults = 0 => ns # "live"

RecordInv ==
    /\ record.exists => record.launch
    /\ cli \in {"release", "failed"} /\ faults = 0 => ~ record.exists

(* The verdict and the bindings when the namespace is offered to a sweep.  *)
FinishInv ==
    /\ drv \in {"report", "teardown", "mark"} => verdict # "none"
    /\ drv = "mark" /\ ~ mode.no_cleanup /\ faults = 0 => ~ bindings
    /\ ttl = "finished" =>
          verdict # "none" /\ drv \in {"exit", "gone"} /\ (faults = 0 => ~ bindings)

Deleting == {"report", "delete_ns", "delete_pod"}

(* What a pass of cleanup without --force plans for a running sync.        *)
OpInv ==
    /\ op.up /\ ~ mode.force => op.plan \in {"spare", "report_only"}
    /\ op.at \in Deleting => op.plan # "spare"

Inv == TypeInv /\ CountInv /\ TaskInv /\ CoverInv /\ PodInv /\ RecordInv /\ FinishInv /\ OpInv

(* What a step of cleanup makes of what the pass has read and planned: a   *)
(* lease is condemned only when it is dead, or by force; a driver that is  *)
(* up is planned for deletion only by force; and no plan changes once the  *)
(* deletes have begun.                                                     *)
OpGood ==
    /\ op' \in OpType
    /\ op'.lease => op.lease \/ mode.force \/ ~ Live(lease)
    /\ op'.up /\ ~ mode.force => (op.up /\ op'.plan = op.plan) \/ op'.plan \in {"spare", "report_only"}
    /\ op'.at \in Deleting => op'.plan = op.plan /\ (op.at \in Deleting \/ op.plan # "spare")

USE DEF Launching, GivingUp, HandedOff, Unadopted, Working, Settled, Processes,
        Fine, Fails, Call, write, cluster, driver, renewal, peers

\* What one field of a record becomes, and that the others stay.
LEMMA PodPhase ==
    ASSUME NEW p \in PodType, NEW x \in Settled \cup {"Pending", "Running"}
    PROVE  LET q == [p EXCEPT !.phase = x]
           IN  q \in PodType /\ q.phase = x /\ q.deleting = p.deleting
  BY Zenon DEF PodType

LEMMA PodMarked ==
    ASSUME NEW p \in PodType
    PROVE  LET q == [p EXCEPT !.deleting = TRUE] IN q \in PodType /\ q.phase = p.phase /\ q.deleting
  BY Zenon DEF PodType

LEMMA PodStopped ==
    ASSUME NEW p \in PodType
    PROVE  LET q == [p EXCEPT !.stop = TRUE]
           IN  q \in PodType /\ q.phase = p.phase /\ q.deleting = p.deleting
  BY Zenon DEF PodType

LEMMA PodDeleted ==
    ASSUME NEW p \in PodType
    PROVE  /\ deleted(p) \in PodType /\ deleted(p).phase = p.phase
           /\ p.phase = "none" \/ deleted(p).deleting
           /\ p.deleting => deleted(p).deleting
  BY PodMarked, Zenon DEF deleted

LEMMA RecordReport ==
    ASSUME NEW r \in RecordType, NEW x \in Verdicts
    PROVE  LET q == [r EXCEPT !.report = x]
           IN  q \in RecordType /\ q.exists = r.exists /\ q.launch = r.launch
  BY Zenon DEF RecordType

LEMMA RecordLaunch ==
    ASSUME NEW r \in RecordType
    PROVE  LET q == [r EXCEPT !.exists = TRUE, !.launch = TRUE] IN q \in RecordType /\ q.launch
  BY Zenon DEF RecordType

\* The records that the actions write out.
LEMMA Literals ==
    /\ NoPod \in PodType /\ NoPod.phase = "none" /\ NoPod.deleting = FALSE
    /\ [NoPod EXCEPT !.phase = "Pending"] \in PodType
    /\ NoRecord \in RecordType /\ NoRecord.exists = FALSE
    /\ Idle \in OpType /\ Idle.lease = FALSE /\ Idle.up = FALSE /\ Idle.at = "idle"
    /\ NoLease \in LeaseType
  BY Zenon DEF NoPod, PodType, NoRecord, RecordType, Verdicts, Idle, OpType, Stages, Plans,
    Settled,
     NoLease, LeaseType

(* The bound on failing calls.                                             *)
LEMMA ModeFaults == ASSUME NEW m \in Modes PROVE m.faults \in Nat
  BY DetachedAssumption DEF ModeType

(* The reservation is held and nothing has begun.                          *)
LEMMA InitInv == Init => Inv
<1> SUFFICES ASSUME Init PROVE Inv
  OBVIOUS
<1>1. TypeInv
  BY Literals, Zenon DEF Init, TypeInv, LeaseType, Verdicts
<1>2. CountInv
  BY ModeFaults DEF Init, CountInv
<1>3. TaskInv
  BY Zenon DEF Init, TaskInv
<1>4. CoverInv
  <2>1. lease.age = 0 /\ faults = 0 /\ lease.holder = "cli"
    BY Zenon DEF Init
  <2>2. Unswept
    BY Literals, Zenon DEF Init, Unswept
  <2>3. Renewed
    BY <2>1 DEF Renewed
  <2> QED
    BY <2>2, <2>3 DEF CoverInv
<1>5. PodInv
  BY Literals, Zenon DEF Init, PodInv
<1>6. RecordInv
  BY Literals, Zenon DEF Init, RecordInv
<1>7. FinishInv /\ OpInv
  BY Literals, Zenon DEF Init, FinishInv, OpInv, Deleting
<1> QED
  BY <1>1, <1>2, <1>3, <1>4, <1>5, <1>6, <1>7 DEF Inv

(* No step changes the mode, and each counts the call it lets fail.         *)
LEMMA CountStep ==
    ASSUME CountInv, [Next]_vars
    PROVE  /\ mode' = mode /\ CountInv'
           /\ faults' = faults \/ (faults' = faults + 1 /\ faults' # 0)
<1>1. mode' = mode /\ (faults' = faults \/ (faults < mode.faults /\ faults' = faults + 1))
  <2>1. CASE ensure_sync_namespace \/ create_driver \/ record_launch \/ await_driver_running \/
              hand_off \/ abandon_launch \/ release \/ attach
    BY <2>1, Zenon DEF ensure_sync_namespace, create_driver, record_launch, await_driver_running,
      hand_off, abandon_launch, release, attach
  <2>2. CASE DriverNeverRuns \/ Detach \/ CliDies \/ stop \/ adopt_get \/ adopt \/ build \/
              EngineStops
    BY <2>2, Zenon DEF DriverNeverRuns, Detach, CliDies, stop, adopt_get, adopt, build,
      EngineStops
  <2>3. CASE EngineEnds \/ write_report \/ teardown \/ mark_finished \/ Exit \/ Elapse \/ (\E t
              \in Processes : renew(t)) \/ (\E t \in Processes : StrayLands(t))
    BY <2>3, Zenon DEF EngineEnds, write_report, teardown, mark_finished, Exit, Elapse, renew,
      StrayLands
  <2>4. CASE PodGoes \/ NamespaceGoes \/ Collect \/ PodRuns \/ PodFails \/ Janitor \/
              sweep_expired \/ reap_orphans
    BY <2>4, Zenon DEF PodGoes, NamespaceGoes, Collect, PodRuns, PodFails, Janitor,
      sweep_expired, reap_orphans
  <2>5. CASE live_run_ids \/ discover_pods \/ discover_namespaces \/ discover_records \/
              discover_rest \/ delete_reports \/ delete_sync \/ delete_rest
    BY <2>5, Zenon DEF live_run_ids, discover_pods, discover_namespaces, discover_records,
      discover_rest, delete_reports, delete_sync, delete_rest
  <2>6. CASE UNCHANGED vars
    BY <2>6 DEF vars
  <2> QED
    BY <2>1, <2>2, <2>3, <2>4, <2>5, <2>6 DEF Next, Cli, Driver, Renewals, Cleanup, Kubelet
<1> QED
  BY <1>1, ModeFaults DEF CountInv

\* A step that moves the pass and keeps what it has read and planned.
LEMMA OpKept ==
    ASSUME op' \in OpType, op'.plan = op.plan, op'.lease = op.lease, op'.up = op.up,
           op'.at \in Deleting => op.at \in Deleting
    PROVE  OpGood
  BY Zenon DEF OpGood

\* A step that leaves the sync's target behind.
LEMMA OpRest ==
    ASSUME op \in OpType, op' = Rest(op) PROVE OpGood
<1>1. /\ op' \in OpType /\ op'.at = "delete_bindings" /\ op'.lease = op.lease /\ op'.up = FALSE
  BY Zenon DEF Rest, OpType, Stages, Plans
<1> QED
  BY <1>1, Zenon DEF OpGood, Deleting

(* A pass of `ztest cleanup`, step by step.                                *)
LEMMA OpMoves ==
    ASSUME TypeInv, Cleanup \/ live_run_ids PROVE OpGood
<1>0. op \in OpType
  BY Zenon DEF TypeInv
<1>1. CASE live_run_ids
  <2>1. op' = [Idle EXCEPT !.at = "pods", !.live = Live(lease)] /\ Live(lease) \in BOOLEAN
    BY <1>1, Zenon DEF live_run_ids, Live
  <2>2. op' \in OpType
    BY <2>1, Zenon DEF OpType, Stages, Plans, Idle
  <2>3. op'.lease = FALSE /\ op'.up = FALSE /\ op'.at = "pods"
    BY <2>1, Zenon DEF Idle
  <2> QED
    BY <2>2, <2>3, Zenon DEF OpGood, Deleting
<1>2. CASE discover_pods
  <2>1. PICK seen \in {driver_state(pod), "unknown"} :
            op' = [op EXCEPT !.at = "namespaces", !.pod = seen]
    BY <1>2, Zenon DEF discover_pods
  <2>2. seen \in Settled \cup {"dying", "live", "unknown"}
    BY Zenon DEF driver_state, PodType, TypeInv
  <2>3. /\ op' \in OpType /\ op'.at = "namespaces" /\ op'.plan = op.plan
        /\ op'.lease = op.lease /\ op'.up = op.up
    BY <2>1, <2>2, <1>0, Zenon DEF OpType, Stages
  <2> QED
    BY <2>3, OpKept, Zenon DEF Deleting
<1>3. CASE discover_namespaces
  <2>1. CASE op' = [op EXCEPT !.at = "records", !.ns = IF ns = "gone" THEN "none" ELSE ns]
    <3>1. (IF ns = "gone" THEN "none" ELSE ns) \in {"none", "live", "deleting"}
      BY Zenon DEF TypeInv
    <3>2. /\ op' \in OpType /\ op'.at = "records" /\ op'.plan = op.plan
          /\ op'.lease = op.lease /\ op'.up = op.up
      BY <3>1, <2>1, <1>0, Zenon DEF OpType, Stages
    <3> QED
      BY <3>2, OpKept, Zenon DEF Deleting
  <2>2. CASE op' = [op EXCEPT !.at = "bindings", !.pod = "none"]
    <3>1. /\ op' \in OpType /\ op'.at = "bindings" /\ op'.plan = op.plan
          /\ op'.lease = op.lease /\ op'.up = op.up
      BY <2>2, <1>0, Zenon DEF OpType, Stages
    <3> QED
      BY <3>1, OpKept, Zenon DEF Deleting
  <2> QED
    BY <1>3, <2>1, <2>2, Zenon DEF discover_namespaces
<1>4. CASE discover_records
  <2> DEFINE found == op.ns # "none" \/ op.pod \notin {"none", "unknown"} \/ record.exists
             up == op.pod \in {"unknown", "live"}
             plan == CASE ~ found \/ (classify_sync(op) = "live" /\ ~ mode.force) -> "spare"
                       [] classify_sync(op) = "terminating" -> "report_only"
                       [] OTHER -> "delete"
  <2>1. plan \in Plans /\ up \in BOOLEAN
    BY DEF Plans
  <2>2. up /\ ~ mode.force => plan \in {"spare", "report_only"}
    BY DEF classify_sync
  <2>3. op' = [op EXCEPT !.at = "bindings", !.ns = "none", !.pod = "none", !.up = up, !.plan = plan]
    BY <1>4, Zenon DEF discover_records
  <2> HIDE DEF plan, up
  <2>4. op' \in OpType /\ op'.at = "bindings" /\ op'.plan = plan /\ op'.lease = op.lease /\ op'.up = up
    BY <2>1, <2>3, <1>0, Zenon DEF OpType, Stages
  <2> QED
    BY <2>2, <2>4, Zenon DEF OpGood, Deleting
<1>5. CASE discover_rest
  <2> DEFINE dead == lease.holder # "none" /\ (mode.force \/ ~ Live(lease))
             unbound == bindings /\ (mode.force \/ ~ op.live)
             up == op.up /\ op.plan # "spare"
             at == IF op.plan = "spare" THEN "delete_bindings" ELSE "report"
  <2>1. op' = [op EXCEPT !.live = FALSE, !.vsc = unbound, !.lease = dead, !.up = up, !.at = at]
    BY <1>5, Zenon DEF discover_rest
  <2>2. /\ dead \in BOOLEAN /\ unbound \in BOOLEAN /\ up \in BOOLEAN
        /\ at \in {"delete_bindings", "report"}
    BY Zenon
  <2>3. (dead => mode.force \/ ~ Live(lease)) /\ (up => op.up) /\ (at \in Deleting => op.plan # "spare")
    BY Zenon DEF Deleting
  <2> HIDE DEF dead, at, unbound, up
  <2>4. op' \in OpType /\ op'.at = at /\ op'.plan = op.plan /\ op'.lease = dead /\ op'.up = up
    BY <2>1, <2>2, <1>0, ZenonT(60) DEF OpType, Stages
  <2> QED
    BY <2>3, <2>4, Zenon DEF OpGood
<1>6. CASE delete_reports
  <2>1. CASE op' = [op EXCEPT !.at = "delete_ns"]
    <3>1. /\ op' \in OpType /\ op'.at = "delete_ns" /\ op'.plan = op.plan
          /\ op'.lease = op.lease /\ op'.up = op.up
      BY <2>1, <1>0, Zenon DEF OpType, Stages
    <3> QED
      BY <1>6, <3>1, OpKept, Zenon DEF delete_reports, Deleting
  <2>2. CASE op' = Rest(op)
    BY <1>0, <2>2, OpRest, Zenon
  <2> QED
    BY <1>6, <2>1, <2>2, Zenon DEF delete_reports
<1>7. CASE delete_sync
  <2>1. CASE op.at = "delete_ns" /\ op' = [op EXCEPT !.at = "delete_pod"]
    <3>1. /\ op' \in OpType /\ op'.at = "delete_pod" /\ op'.plan = op.plan
          /\ op'.lease = op.lease /\ op'.up = op.up
      BY <2>1, <1>0, Zenon DEF OpType, Stages
    <3> QED
      BY <2>1, <3>1, OpKept, Zenon DEF Deleting
  <2>2. CASE op' = Rest(op)
    BY <1>0, <2>2, OpRest, Zenon
  <2> QED
    BY <1>7, <2>1, <2>2, Zenon DEF delete_sync
<1>8. CASE delete_rest
  <2>1. CASE op' = [op EXCEPT !.at = "delete_lease", !.vsc = FALSE]
    <3>1. /\ op' \in OpType /\ op'.at = "delete_lease" /\ op'.plan = op.plan
          /\ op'.lease = op.lease /\ op'.up = op.up
      BY <2>1, <1>0, Zenon DEF OpType, Stages
    <3> QED
      BY <3>1, OpKept, Zenon DEF Deleting
  <2>2. CASE op' = Idle
    <3>1. Idle \in OpType
      BY Zenon DEF Idle, OpType, Stages, Plans
    <3>2. Idle.lease = FALSE /\ Idle.up = FALSE /\ Idle.at = "idle"
      BY Zenon DEF Idle
    <3> QED
      BY <2>2, <3>1, <3>2, Zenon DEF OpGood, Deleting
  <2> QED
    BY <1>8, <2>1, <2>2, Zenon DEF delete_rest
<1> QED
  BY <1>1, <1>2, <1>3, <1>4, <1>5, <1>6, <1>7, <1>8, Zenon DEF Cleanup
(* Where `sync start` can be.                                              *)
LEMMA CliTyped ==
    ASSUME cli \in Launching \cup GivingUp \cup HandedOff \cup {"dead"}, [Next]_vars
    PROVE  cli' \in Launching \cup GivingUp \cup HandedOff \cup {"dead"}
<1>0. CASE UNCHANGED vars
  BY <1>0 DEF vars
<1>1. CASE stop \/ adopt_get \/ adopt \/ build \/ EngineStops \/ EngineEnds \/ write_report \/
            teardown \/ mark_finished \/ Exit \/ Elapse \/ (\E t \in Processes : renew(t)) \/ (\E
            t \in Processes : StrayLands(t)) \/ PodGoes \/ NamespaceGoes \/ Collect \/ PodRuns \/
            PodFails \/ Janitor \/ sweep_expired \/ reap_orphans \/ live_run_ids \/ discover_pods
            \/ discover_namespaces \/ discover_records \/ discover_rest \/ delete_reports \/
            delete_sync \/ delete_rest
  BY <1>1, Zenon DEF stop, adopt_get, adopt, build, EngineStops, EngineEnds, write_report,
    teardown, mark_finished, Exit, Elapse, renew, StrayLands, PodGoes, NamespaceGoes, Collect,
    PodRuns, PodFails, Janitor, sweep_expired, reap_orphans, live_run_ids, discover_pods,
    discover_namespaces, discover_records, discover_rest, delete_reports, delete_sync,
    delete_rest
<1>2. CASE ensure_sync_namespace
  BY <1>2 DEF ensure_sync_namespace
<1>3. CASE create_driver
  BY <1>3 DEF create_driver, NoPod
<1>4. CASE record_launch
  BY <1>4 DEF record_launch
<1>5. CASE await_driver_running
  BY <1>5 DEF await_driver_running
<1>6. CASE hand_off
  BY <1>6 DEF hand_off, abort
<1>7. CASE abandon_launch
  BY <1>7 DEF abandon_launch, deleted, NoRecord
<1>8. CASE release
  BY <1>8 DEF release, abort, NoLease
<1>9. CASE attach
  BY <1>9 DEF attach
<1>10. CASE DriverNeverRuns
  BY <1>10 DEF DriverNeverRuns
<1>11. CASE Detach
  BY <1>11 DEF Detach
<1>12. CASE CliDies
  BY <1>12 DEF CliDies, abort
<1> QED
  BY <1>0, <1>1, <1>2, <1>3, <1>4, <1>5, <1>6, <1>7, <1>8, <1>9, <1>10, <1>11, <1>12, Zenon DEF
    Next, Cli, Driver, Renewals, Cleanup, Kubelet

(* Who may hold the lease; its age counts intervals.                       *)
LEMMA LeaseTyped ==
    ASSUME lease \in LeaseType, [Next]_vars PROVE lease' \in LeaseType
<1>0. CASE UNCHANGED vars
  BY <1>0 DEF LeaseType, vars
<1>1. CASE ensure_sync_namespace \/ create_driver \/ record_launch \/ await_driver_running \/
            hand_off \/ abandon_launch \/ attach \/ DriverNeverRuns \/ Detach \/ CliDies \/ stop
            \/ adopt_get \/ build \/ EngineStops \/ EngineEnds \/ write_report \/ teardown \/
            mark_finished \/ Exit \/ PodGoes \/ NamespaceGoes \/ Collect \/ PodRuns \/ PodFails
            \/ Janitor \/ live_run_ids \/ discover_pods \/ discover_namespaces \/
            discover_records \/ discover_rest \/ delete_reports \/ delete_sync
  BY <1>1, Zenon DEF ensure_sync_namespace, create_driver, record_launch, await_driver_running,
    hand_off, abandon_launch, attach, DriverNeverRuns, Detach, CliDies, stop, adopt_get, build,
    EngineStops, EngineEnds, write_report, teardown, mark_finished, Exit, PodGoes, NamespaceGoes,
    Collect, PodRuns, PodFails, Janitor, live_run_ids, discover_pods, discover_namespaces,
    discover_records, discover_rest, delete_reports, delete_sync
<1>2. CASE release
  BY <1>2 DEF LeaseType, release, abort, NoLease
<1>3. CASE adopt
  BY <1>3 DEF LeaseType, adopt
<1>4. CASE Elapse
  BY <1>4 DEF LeaseType, Elapse
<1>5. ASSUME NEW t \in Processes, renew(t) PROVE lease' \in LeaseType
  BY <1>5 DEF LeaseType, renew
<1>6. ASSUME NEW t \in Processes, StrayLands(t) PROVE lease' \in LeaseType
  BY <1>6 DEF LeaseType, StrayLands
<1>7. CASE sweep_expired
  BY <1>7 DEF LeaseType, sweep_expired, Live, NoLease
<1>8. CASE reap_orphans
  BY <1>8 DEF LeaseType, reap_orphans, deleted, Live, NoLease
<1>9. CASE delete_rest
  BY <1>9 DEF LeaseType, delete_rest, Idle, NoLease
<1> QED
  BY <1>0, <1>1, <1>2, <1>3, <1>4, <1>5, <1>6, <1>7, <1>8, <1>9, Zenon DEF Next, Cli, Driver,
    Renewals, Cleanup, Kubelet

(* The driver pod.                                                         *)
LEMMA PodTyped ==
    ASSUME pod \in PodType, [Next]_vars PROVE pod' \in PodType
<1>0. CASE UNCHANGED vars
  BY <1>0 DEF PodType, vars
<1>1. CASE ensure_sync_namespace \/ record_launch \/ await_driver_running \/ hand_off \/ release
            \/ attach \/ DriverNeverRuns \/ Detach \/ CliDies \/ adopt_get \/ adopt \/ build \/
            EngineStops \/ EngineEnds \/ write_report \/ teardown \/ mark_finished \/ Elapse \/
            (\E t \in Processes : renew(t)) \/ (\E t \in Processes : StrayLands(t)) \/
            NamespaceGoes \/ Janitor \/ sweep_expired \/ live_run_ids \/ discover_pods \/
            discover_namespaces \/ discover_records \/ discover_rest \/ delete_reports \/
            delete_rest
  BY <1>1, Zenon DEF ensure_sync_namespace, record_launch, await_driver_running, hand_off,
    release, attach, DriverNeverRuns, Detach, CliDies, adopt_get, adopt, build, EngineStops,
    EngineEnds, write_report, teardown, mark_finished, Elapse, renew, StrayLands, NamespaceGoes,
    Janitor, sweep_expired, live_run_ids, discover_pods, discover_namespaces, discover_records,
    discover_rest, delete_reports, delete_rest
<1>2. CASE create_driver
  BY <1>2, Literals, PodDeleted, Zenon DEF create_driver
<1>3. CASE abandon_launch
  BY <1>3, Literals, PodDeleted, Zenon DEF abandon_launch
<1>4. CASE stop
  BY <1>4, PodStopped, Zenon DEF stop
<1>5. CASE Exit
  BY <1>5, PodPhase, Zenon DEF Exit
<1>6. CASE PodGoes
  BY <1>6, Literals, Zenon DEF PodGoes
<1>7. CASE Collect
  BY <1>7, PodMarked, Zenon DEF Collect
<1>8. CASE PodRuns
  BY <1>8, PodPhase, Zenon DEF PodRuns
<1>9. CASE PodFails
  BY <1>9, PodPhase, Zenon DEF PodFails
<1>10. CASE reap_orphans
  BY <1>10, Literals, PodDeleted, Zenon DEF reap_orphans
<1>11. CASE delete_sync
  BY <1>11, Literals, PodDeleted, Zenon DEF delete_sync
<1> QED
  BY <1>0, <1>1, <1>2, <1>3, <1>4, <1>5, <1>6, <1>7, <1>8, <1>9, <1>10, <1>11, Zenon DEF Next,
    Cli, Driver, Renewals, Cleanup, Kubelet

(* The record ConfigMap.                                                   *)
LEMMA RecordTyped ==
    ASSUME record \in RecordType, verdict \in Verdicts, [Next]_vars PROVE record' \in RecordType
<1>0. CASE UNCHANGED vars
  BY <1>0 DEF RecordType, Verdicts, vars
<1>1. CASE ensure_sync_namespace \/ create_driver \/ await_driver_running \/ hand_off \/ release
            \/ attach \/ DriverNeverRuns \/ Detach \/ CliDies \/ stop \/ adopt_get \/ adopt \/
            build \/ EngineStops \/ EngineEnds \/ teardown \/ mark_finished \/ Exit \/ Elapse \/
            (\E t \in Processes : renew(t)) \/ (\E t \in Processes : StrayLands(t)) \/ PodGoes \/
            NamespaceGoes \/ Collect \/ PodRuns \/ PodFails \/ Janitor \/ sweep_expired \/
            reap_orphans \/ live_run_ids \/ discover_pods \/ discover_namespaces \/
            discover_records \/ discover_rest \/ delete_sync \/ delete_rest
  BY <1>1, Zenon DEF ensure_sync_namespace, create_driver, await_driver_running, hand_off,
    release, attach, DriverNeverRuns, Detach, CliDies, stop, adopt_get, adopt, build,
    EngineStops, EngineEnds, teardown, mark_finished, Exit, Elapse, renew, StrayLands, PodGoes,
    NamespaceGoes, Collect, PodRuns, PodFails, Janitor, sweep_expired, reap_orphans,
    live_run_ids, discover_pods, discover_namespaces, discover_records, discover_rest,
    delete_sync, delete_rest
<1>2. CASE record_launch
  BY <1>2, RecordLaunch, Zenon DEF record_launch
<1>3. CASE abandon_launch
  BY <1>3, Literals, Zenon DEF abandon_launch
<1>4. CASE write_report
  BY <1>4, RecordReport, Zenon DEF write_report
<1>5. CASE delete_reports
  BY <1>5, Literals, Zenon DEF delete_reports
<1> QED
  BY <1>0, <1>1, <1>2, <1>3, <1>4, <1>5, Zenon DEF Next, Cli, Driver, Renewals, Cleanup, Kubelet

(* What the engine returns.                                                *)
LEMMA VerdictTyped ==
    ASSUME verdict \in Verdicts, [Next]_vars PROVE verdict' \in Verdicts
<1>0. CASE UNCHANGED vars
  BY <1>0 DEF Verdicts, vars
<1>1. CASE ensure_sync_namespace \/ create_driver \/ record_launch \/ await_driver_running \/
            hand_off \/ abandon_launch \/ release \/ attach \/ DriverNeverRuns \/ Detach \/
            CliDies \/ stop \/ adopt_get \/ adopt \/ build \/ write_report \/ teardown \/
            mark_finished \/ Exit \/ Elapse \/ (\E t \in Processes : renew(t)) \/ (\E t \in
            Processes : StrayLands(t)) \/ PodGoes \/ NamespaceGoes \/ Collect \/ PodRuns \/
            PodFails \/ Janitor \/ sweep_expired \/ reap_orphans \/ live_run_ids \/ discover_pods
            \/ discover_namespaces \/ discover_records \/ discover_rest \/ delete_reports \/
            delete_sync \/ delete_rest
  BY <1>1, Zenon DEF ensure_sync_namespace, create_driver, record_launch, await_driver_running,
    hand_off, abandon_launch, release, attach, DriverNeverRuns, Detach, CliDies, stop, adopt_get,
    adopt, build, write_report, teardown, mark_finished, Exit, Elapse, renew, StrayLands,
    PodGoes, NamespaceGoes, Collect, PodRuns, PodFails, Janitor, sweep_expired, reap_orphans,
    live_run_ids, discover_pods, discover_namespaces, discover_records, discover_rest,
    delete_reports, delete_sync, delete_rest
<1>2. CASE EngineStops
  BY <1>2 DEF Verdicts, EngineStops, stop_requested
<1>3. CASE EngineEnds
  BY <1>3 DEF Verdicts, EngineEnds
<1> QED
  BY <1>0, <1>1, <1>2, <1>3, Zenon DEF Next, Cli, Driver, Renewals, Cleanup, Kubelet

(* The sync's namespace.                                                   *)
LEMMA NsTyped ==
    ASSUME ns \in {"none", "live", "deleting", "gone"}, [Next]_vars
    PROVE  ns' \in {"none", "live", "deleting", "gone"}
<1>0. CASE UNCHANGED vars
  BY <1>0 DEF vars
<1>1. CASE create_driver \/ record_launch \/ await_driver_running \/ hand_off \/ release \/ attach
            \/ DriverNeverRuns \/ Detach \/ CliDies \/ stop \/ adopt_get \/ adopt \/ build \/
            EngineStops \/ EngineEnds \/ write_report \/ teardown \/ mark_finished \/ Exit \/
            Elapse \/ (\E t \in Processes : renew(t)) \/ (\E t \in Processes : StrayLands(t)) \/
            PodGoes \/ Collect \/ PodRuns \/ PodFails \/ sweep_expired \/ reap_orphans \/
            live_run_ids \/ discover_pods \/ discover_namespaces \/ discover_records \/
            discover_rest \/ delete_reports \/ delete_rest
  BY <1>1, Zenon DEF create_driver, record_launch, await_driver_running, hand_off, release,
    attach, DriverNeverRuns, Detach, CliDies, stop, adopt_get, adopt, build, EngineStops,
    EngineEnds, write_report, teardown, mark_finished, Exit, Elapse, renew, StrayLands, PodGoes,
    Collect, PodRuns, PodFails, sweep_expired, reap_orphans, live_run_ids, discover_pods,
    discover_namespaces, discover_records, discover_rest, delete_reports, delete_rest
<1>2. CASE ensure_sync_namespace
  BY <1>2 DEF ensure_sync_namespace
<1>3. CASE abandon_launch
  BY <1>3 DEF abandon_launch, deleted, NoRecord
<1>4. CASE NamespaceGoes
  BY <1>4 DEF NamespaceGoes
<1>5. CASE Janitor
  BY <1>5 DEF Janitor
<1>6. CASE delete_sync
  BY <1>6 DEF delete_sync, deleted
<1> QED
  BY <1>0, <1>1, <1>2, <1>3, <1>4, <1>5, <1>6, Zenon DEF Next, Cli, Driver, Renewals, Cleanup,
    Kubelet

(* Whether bindings exist.                                                 *)
LEMMA BindingsTyped ==
    ASSUME bindings \in BOOLEAN, [Next]_vars PROVE bindings' \in BOOLEAN
<1>0. CASE UNCHANGED vars
  BY <1>0 DEF vars
<1>1. CASE ensure_sync_namespace \/ create_driver \/ record_launch \/ await_driver_running \/
            hand_off \/ abandon_launch \/ release \/ attach \/ DriverNeverRuns \/ Detach \/
            CliDies \/ stop \/ adopt_get \/ adopt \/ EngineStops \/ EngineEnds \/ write_report \/
            mark_finished \/ Exit \/ Elapse \/ (\E t \in Processes : renew(t)) \/ (\E t \in
            Processes : StrayLands(t)) \/ PodGoes \/ NamespaceGoes \/ Collect \/ PodRuns \/
            PodFails \/ Janitor \/ sweep_expired \/ live_run_ids \/ discover_pods \/
            discover_namespaces \/ discover_records \/ discover_rest \/ delete_reports \/
            delete_sync
  BY <1>1, Zenon DEF ensure_sync_namespace, create_driver, record_launch, await_driver_running,
    hand_off, abandon_launch, release, attach, DriverNeverRuns, Detach, CliDies, stop, adopt_get,
    adopt, EngineStops, EngineEnds, write_report, mark_finished, Exit, Elapse, renew, StrayLands,
    PodGoes, NamespaceGoes, Collect, PodRuns, PodFails, Janitor, sweep_expired, live_run_ids,
    discover_pods, discover_namespaces, discover_records, discover_rest, delete_reports,
    delete_sync
<1>2. CASE build
  BY <1>2, Zenon DEF build
<1>3. CASE teardown
  BY <1>3, Zenon DEF teardown, abort
<1>4. CASE reap_orphans
  BY <1>4, Zenon DEF reap_orphans, deleted, Live, NoLease
<1>5. CASE delete_rest
  BY <1>5, Zenon DEF delete_rest, Idle, NoLease
<1> QED
  BY <1>0, <1>1, <1>2, <1>3, <1>4, <1>5, Zenon DEF Next, Cli, Driver, Renewals, Cleanup, Kubelet

(* The pass of cleanup.                                                    *)
LEMMA OpTyped ==
    ASSUME TypeInv, [Next]_vars PROVE op' \in OpType
<1>1. CASE Cleanup \/ live_run_ids
  BY <1>1, OpMoves, Zenon DEF OpGood
<1>2. ASSUME ~ (Cleanup \/ live_run_ids) PROVE op' = op
  BY <1>2, Zenon DEF Next, Cli, Driver, Renewals, Kubelet, vars, ensure_sync_namespace,
    create_driver, record_launch, await_driver_running, hand_off, abandon_launch, release,
    attach, DriverNeverRuns, Detach, CliDies, stop, adopt_get, adopt, build, EngineStops,
    EngineEnds, write_report, teardown, mark_finished, Exit, Elapse, renew, StrayLands, PodGoes,
    NamespaceGoes, Collect, PodRuns, PodFails, Janitor, sweep_expired, reap_orphans
<1> QED
  BY <1>1, <1>2, Zenon DEF TypeInv

(* The renewal tasks run as long as they are needed; the name on the lease *)
(* is the driver's only once it adopted.                                   *)
LEMMA TaskStep ==
    ASSUME TypeInv, TaskInv, [Next]_vars PROVE TaskInv'
<1>0. CASE UNCHANGED vars
  BY <1>0 DEF TaskInv, TypeInv, vars
<1>1. CASE stop \/ NamespaceGoes \/ Collect \/ PodRuns \/ Janitor \/ live_run_ids \/ discover_pods
            \/ discover_namespaces \/ discover_records \/ discover_rest \/ delete_reports \/
            delete_sync
  BY <1>1, Zenon DEF TaskInv, stop, NamespaceGoes, Collect, PodRuns, Janitor, live_run_ids,
    discover_pods, discover_namespaces, discover_records, discover_rest, delete_reports,
    delete_sync
<1>2. CASE ensure_sync_namespace
  BY <1>2 DEF TaskInv, TypeInv, ensure_sync_namespace
<1>3. CASE create_driver
  BY <1>3 DEF TaskInv, TypeInv, create_driver, NoPod
<1>4. CASE record_launch
  BY <1>4 DEF TaskInv, TypeInv, record_launch
<1>5. CASE await_driver_running
  BY <1>5 DEF TaskInv, TypeInv, await_driver_running
<1>6. CASE hand_off
  BY <1>6, Zenon DEF TaskInv, TypeInv, hand_off, abort
<1>7. CASE abandon_launch
  BY <1>7 DEF TaskInv, TypeInv, abandon_launch, deleted, NoRecord
<1>8. CASE release
  BY <1>8 DEF TaskInv, TypeInv, release, abort, NoLease
<1>9. CASE attach
  BY <1>9 DEF TaskInv, TypeInv, attach
<1>10. CASE DriverNeverRuns
  BY <1>10 DEF TaskInv, TypeInv, DriverNeverRuns
<1>11. CASE Detach
  BY <1>11 DEF TaskInv, TypeInv, Detach
<1>12. CASE CliDies
  BY <1>12 DEF TaskInv, TypeInv, CliDies, abort
<1>13. CASE adopt_get
  BY <1>13 DEF TaskInv, TypeInv, adopt_get
<1>14. CASE adopt
  BY <1>14, Zenon DEF TaskInv, TypeInv, adopt
<1>15. CASE build
  BY <1>15 DEF TaskInv, TypeInv, build
<1>16. CASE EngineStops
  BY <1>16 DEF TaskInv, TypeInv, EngineStops, stop_requested
<1>17. CASE EngineEnds
  BY <1>17 DEF TaskInv, TypeInv, EngineEnds
<1>18. CASE write_report
  BY <1>18 DEF TaskInv, TypeInv, write_report
<1>19. CASE teardown
  BY <1>19 DEF TaskInv, TypeInv, teardown, abort
<1>20. CASE mark_finished
  BY <1>20 DEF TaskInv, TypeInv, mark_finished
<1>21. CASE Exit
  BY <1>21 DEF TaskInv, TypeInv, Exit
<1>22. CASE Elapse
  BY <1>22 DEF TaskInv, TypeInv, Elapse
<1>23. ASSUME NEW t \in Processes, renew(t) PROVE TaskInv'
  BY <1>23 DEF TaskInv, TypeInv, renew
<1>24. ASSUME NEW t \in Processes, StrayLands(t) PROVE TaskInv'
  BY <1>24 DEF TaskInv, TypeInv, StrayLands
<1>25. CASE PodGoes
  BY <1>25 DEF TaskInv, TypeInv, PodGoes, abort, NoPod
<1>26. CASE PodFails
  BY <1>26 DEF TaskInv, TypeInv, PodFails, abort
<1>27. CASE sweep_expired
  BY <1>27 DEF TaskInv, TypeInv, sweep_expired, Live, NoLease
<1>28. CASE reap_orphans
  BY <1>28 DEF TaskInv, TypeInv, reap_orphans, deleted, Live, NoLease
<1>29. CASE delete_rest
  BY <1>29 DEF TaskInv, TypeInv, delete_rest, Idle, NoLease
<1> QED
  BY <1>0, <1>1, <1>2, <1>3, <1>4, <1>5, <1>6, <1>7, <1>8, <1>9, <1>10, <1>11, <1>12, <1>13,
    <1>14, <1>15, <1>16, <1>17, <1>18, <1>19, <1>20, <1>21, <1>22, <1>23, <1>24, <1>25, <1>26,
    <1>27, <1>28, <1>29, Zenon DEF Next, Cli, Driver, Renewals, Cleanup, Kubelet

(* The cover only shrinks: start hands off to a driver that has adopted,   *)
(* so no step begins one.                                                  *)
LEMMA CoveredBack ==
    ASSUME TypeInv, TaskInv, Covered', [Next]_vars PROVE Covered
<1>0. CASE UNCHANGED vars
  BY <1>0 DEF Covered, TaskInv, vars
<1>1. CASE stop \/ Elapse \/ (\E t \in Processes : renew(t)) \/ (\E t \in Processes :
            StrayLands(t)) \/ NamespaceGoes \/ Collect \/ PodRuns \/ Janitor \/ sweep_expired \/
            reap_orphans \/ live_run_ids \/ discover_pods \/ discover_namespaces \/
            discover_records \/ discover_rest \/ delete_reports \/ delete_sync \/ delete_rest
  BY <1>1, Zenon DEF Covered, stop, Elapse, renew, StrayLands, NamespaceGoes, Collect, PodRuns,
    Janitor, sweep_expired, reap_orphans, live_run_ids, discover_pods, discover_namespaces,
    discover_records, discover_rest, delete_reports, delete_sync, delete_rest
<1>2. CASE ensure_sync_namespace
  BY <1>2 DEF Covered, TaskInv, ensure_sync_namespace
<1>3. CASE create_driver
  BY <1>3 DEF Covered, TaskInv, create_driver, NoPod
<1>4. CASE record_launch
  BY <1>4 DEF Covered, TaskInv, record_launch
<1>5. CASE await_driver_running
  BY <1>5 DEF Covered, TaskInv, await_driver_running
<1>6. CASE hand_off
  BY <1>6 DEF Covered, TaskInv, hand_off, abort
<1>7. CASE abandon_launch
  BY <1>7 DEF Covered, TaskInv, abandon_launch, deleted, NoRecord
<1>8. CASE release
  BY <1>8 DEF Covered, TaskInv, release, abort, NoLease
<1>9. CASE attach
  BY <1>9 DEF Covered, TaskInv, attach
<1>10. CASE DriverNeverRuns
  BY <1>10 DEF Covered, TaskInv, DriverNeverRuns
<1>11. CASE Detach
  BY <1>11 DEF Covered, TaskInv, Detach
<1>12. CASE CliDies
  BY <1>12 DEF Covered, TaskInv, CliDies, abort
<1>13. CASE adopt_get
  BY <1>13 DEF Covered, TaskInv, adopt_get
<1>14. CASE adopt
  BY <1>14 DEF Covered, TaskInv, adopt
<1>15. CASE build
  BY <1>15 DEF Covered, TaskInv, build
<1>16. CASE EngineStops
  BY <1>16 DEF Covered, TaskInv, EngineStops, stop_requested
<1>17. CASE EngineEnds
  BY <1>17 DEF Covered, TaskInv, EngineEnds
<1>18. CASE write_report
  BY <1>18 DEF Covered, TaskInv, write_report
<1>19. CASE teardown
  BY <1>19 DEF Covered, TaskInv, teardown, abort
<1>20. CASE mark_finished
  BY <1>20 DEF Covered, TaskInv, mark_finished
<1>21. CASE Exit
  BY <1>21 DEF Covered, TaskInv, Exit
<1>22. CASE PodGoes
  BY <1>22 DEF Covered, TaskInv, PodGoes, abort, NoPod
<1>23. CASE PodFails
  BY <1>23 DEF Covered, TaskInv, PodFails, abort
<1> QED
  BY <1>0, <1>1, <1>2, <1>3, <1>4, <1>5, <1>6, <1>7, <1>8, <1>9, <1>10, <1>11, <1>12, <1>13,
    <1>14, <1>15, <1>16, <1>17, <1>18, <1>19, <1>20, <1>21, <1>22, <1>23, Zenon DEF Next, Cli,
    Driver, Renewals, Cleanup, Kubelet

(* No step ages a covered lease beyond its failed renewals, and none       *)
(* deletes it.                                                             *)
LEMMA RenewedStep ==
    ASSUME TypeInv, CountInv, TaskInv, Covered, Renewed, Unswept, [Next]_vars PROVE Renewed'
<1>0. CASE UNCHANGED vars
  BY <1>0 DEF Renewed, TypeInv, CountInv, LeaseType, TaskInv, Covered, Unswept, vars
<1>1. CASE await_driver_running \/ DriverNeverRuns \/ Detach \/ stop \/ build \/ EngineStops \/
            EngineEnds \/ Exit \/ NamespaceGoes \/ Collect \/ PodRuns \/ Janitor \/ live_run_ids
            \/ discover_pods \/ discover_namespaces \/ discover_records \/ discover_rest
  BY <1>1, Zenon DEF Renewed, await_driver_running, DriverNeverRuns, Detach, stop, build,
    EngineStops, EngineEnds, Exit, NamespaceGoes, Collect, PodRuns, Janitor, live_run_ids,
    discover_pods, discover_namespaces, discover_records, discover_rest
<1>2. CASE ensure_sync_namespace
  BY <1>2 DEF Renewed, TypeInv, CountInv, LeaseType, TaskInv, Covered, Unswept,
    ensure_sync_namespace
<1>3. CASE create_driver
  BY <1>3 DEF Renewed, TypeInv, CountInv, LeaseType, TaskInv, Covered, Unswept, create_driver,
    NoPod
<1>4. CASE record_launch
  BY <1>4 DEF Renewed, TypeInv, CountInv, LeaseType, TaskInv, Covered, Unswept, record_launch
<1>5. CASE hand_off
  BY <1>5 DEF Renewed, TypeInv, CountInv, LeaseType, TaskInv, Covered, Unswept, hand_off, abort
<1>6. CASE abandon_launch
  BY <1>6 DEF Renewed, TypeInv, CountInv, LeaseType, TaskInv, Covered, Unswept, abandon_launch,
    deleted, NoRecord
<1>7. CASE release
  BY <1>7 DEF Renewed, TypeInv, CountInv, LeaseType, TaskInv, Covered, Unswept, release, abort,
    NoLease
<1>8. CASE attach
  BY <1>8 DEF Renewed, TypeInv, CountInv, LeaseType, TaskInv, Covered, Unswept, attach
<1>9. CASE CliDies
  BY <1>9 DEF Renewed, TypeInv, CountInv, LeaseType, TaskInv, Covered, Unswept, CliDies, abort
<1>10. CASE adopt_get
  BY <1>10 DEF Renewed, TypeInv, CountInv, LeaseType, TaskInv, Covered, Unswept, adopt_get
<1>11. CASE adopt
  BY <1>11 DEF Renewed, TypeInv, CountInv, LeaseType, TaskInv, Covered, Unswept, adopt
<1>12. CASE write_report
  BY <1>12 DEF Renewed, TypeInv, CountInv, LeaseType, TaskInv, Covered, Unswept, write_report
<1>13. CASE teardown
  BY <1>13 DEF Renewed, TypeInv, CountInv, LeaseType, TaskInv, Covered, Unswept, teardown, abort
<1>14. CASE mark_finished
  BY <1>14 DEF Renewed, TypeInv, CountInv, LeaseType, TaskInv, Covered, Unswept, mark_finished
<1>15. CASE Elapse
  BY <1>15 DEF Renewed, TypeInv, CountInv, LeaseType, TaskInv, Covered, Unswept, Elapse
<1>16. ASSUME NEW t \in Processes, renew(t) PROVE Renewed'
  BY <1>16 DEF Renewed, TypeInv, CountInv, LeaseType, TaskInv, Covered, Unswept, renew
<1>17. ASSUME NEW t \in Processes, StrayLands(t) PROVE Renewed'
  BY <1>17 DEF Renewed, TypeInv, CountInv, LeaseType, TaskInv, Covered, Unswept, StrayLands
<1>18. CASE PodGoes
  BY <1>18 DEF Renewed, TypeInv, CountInv, LeaseType, TaskInv, Covered, Unswept, PodGoes, abort,
    NoPod
<1>19. CASE PodFails
  BY <1>19 DEF Renewed, TypeInv, CountInv, LeaseType, TaskInv, Covered, Unswept, PodFails, abort
<1>20. CASE sweep_expired
  BY <1>20 DEF Renewed, TypeInv, CountInv, LeaseType, TaskInv, Covered, Unswept, sweep_expired,
    Live, NoLease
<1>21. CASE reap_orphans
  BY <1>21 DEF Renewed, TypeInv, CountInv, LeaseType, TaskInv, Covered, Unswept, reap_orphans,
    deleted, Live, NoLease
<1>22. CASE delete_reports
  BY <1>22 DEF Renewed, TypeInv, CountInv, LeaseType, TaskInv, Covered, Unswept, delete_reports,
    NoRecord
<1>23. CASE delete_sync
  BY <1>23 DEF Renewed, TypeInv, CountInv, LeaseType, TaskInv, Covered, Unswept, delete_sync,
    deleted
<1>24. CASE delete_rest
  BY <1>24 DEF Renewed, TypeInv, CountInv, LeaseType, TaskInv, Covered, Unswept, delete_rest,
    Idle, NoLease
<1> QED
  BY <1>0, <1>1, <1>2, <1>3, <1>4, <1>5, <1>6, <1>7, <1>8, <1>9, <1>10, <1>11, <1>12, <1>13,
    <1>14, <1>15, <1>16, <1>17, <1>18, <1>19, <1>20, <1>21, <1>22, <1>23, <1>24, Zenon DEF Next,
    Cli, Driver, Renewals, Cleanup, Kubelet

(* Nobody finds a live lease expired.                                      *)
LEMMA UnsweptStep ==
    ASSUME TypeInv, Live(lease), ~ mode.force, Unswept, [Next]_vars PROVE Unswept'
<1>0. CASE UNCHANGED vars
  BY <1>0 DEF Unswept, Live, vars
<1>1. CASE ensure_sync_namespace \/ create_driver \/ record_launch \/ await_driver_running \/
            hand_off \/ abandon_launch \/ release \/ attach \/ DriverNeverRuns \/ Detach \/
            CliDies \/ stop \/ adopt_get \/ adopt \/ build \/ EngineStops \/ EngineEnds \/
            write_report \/ teardown \/ mark_finished \/ Exit \/ Elapse \/ (\E t \in Processes :
            renew(t)) \/ (\E t \in Processes : StrayLands(t)) \/ PodGoes \/ NamespaceGoes \/
            Collect \/ PodRuns \/ PodFails \/ Janitor
  BY <1>1 DEF Unswept, ensure_sync_namespace, create_driver, record_launch, await_driver_running,
    hand_off, abandon_launch, release, attach, DriverNeverRuns, Detach, CliDies, stop, adopt_get,
    adopt, build, EngineStops, EngineEnds, write_report, teardown, mark_finished, Exit, Elapse,
    renew, StrayLands, PodGoes, NamespaceGoes, Collect, PodRuns, PodFails, Janitor
<1>2. CASE sweep_expired
  BY <1>2 DEF Unswept, Live, sweep_expired, Live, NoLease
<1>3. CASE reap_orphans
  BY <1>3 DEF Unswept, Live, reap_orphans, deleted, Live, NoLease
<1>4. CASE live_run_ids
  BY <1>4, OpMoves, Zenon DEF Unswept, OpGood, Cleanup, live_run_ids
<1>5. CASE discover_pods
  BY <1>5, OpMoves, Zenon DEF Unswept, OpGood, Cleanup, discover_pods
<1>6. CASE discover_namespaces
  BY <1>6, OpMoves, Zenon DEF Unswept, OpGood, Cleanup, discover_namespaces
<1>7. CASE discover_records
  BY <1>7, OpMoves, Zenon DEF Unswept, OpGood, Cleanup, discover_records
<1>8. CASE discover_rest
  BY <1>8, OpMoves, Zenon DEF Unswept, OpGood, Cleanup, discover_rest
<1>9. CASE delete_reports
  BY <1>9, OpMoves, Zenon DEF Unswept, OpGood, Cleanup, delete_reports
<1>10. CASE delete_sync
  BY <1>10, OpMoves, Zenon DEF Unswept, OpGood, Cleanup, delete_sync
<1>11. CASE delete_rest
  BY <1>11, OpMoves, Zenon DEF Unswept, OpGood, Cleanup, delete_rest
<1> QED
  BY <1>0, <1>1, <1>2, <1>3, <1>4, <1>5, <1>6, <1>7, <1>8, <1>9, <1>10, <1>11, Zenon DEF Next,
    Cli, Driver, Renewals, Cleanup, Kubelet

(* What happens to the driver and to its pod.                              *)
LEMMA PodStep ==
    ASSUME TypeInv, CountInv, PodInv, [Next]_vars PROVE PodInv'
<1>0. CASE UNCHANGED vars
  BY <1>0 DEF PodInv, TypeInv, CountInv, vars
<1>1. CASE Elapse \/ (\E t \in Processes : StrayLands(t)) \/ sweep_expired \/ live_run_ids \/
            discover_pods \/ discover_namespaces \/ discover_records \/ discover_rest \/
            delete_rest
  BY <1>1, Zenon DEF PodInv, Elapse, StrayLands, sweep_expired, live_run_ids, discover_pods,
    discover_namespaces, discover_records, discover_rest, delete_rest
<1>2. CASE ensure_sync_namespace
  BY <1>2 DEF PodInv, TypeInv, CountInv, ensure_sync_namespace
<1>3. CASE create_driver
  BY <1>3 DEF PodInv, TypeInv, CountInv, create_driver, NoPod
<1>4. CASE record_launch
  BY <1>4 DEF PodInv, TypeInv, CountInv, record_launch
<1>5. CASE await_driver_running
  BY <1>5 DEF PodInv, TypeInv, CountInv, await_driver_running
<1>6. CASE hand_off
  BY <1>6 DEF PodInv, TypeInv, CountInv, hand_off, abort
<1>7. CASE abandon_launch
  <2>0. faults' = 0 => faults = 0
    BY CountStep, Zenon
  <2>1. CASE cli = "abandon"
    <3>1. pod' = deleted(pod) \/ (pod' = pod /\ faults' # 0)
      BY <1>7, <2>1, CountStep DEF abandon_launch
    <3>2. pod'.phase = pod.phase /\ (faults' = 0 => pod.phase = "none" \/ pod'.deleting)
      BY <3>1, PodDeleted, Zenon DEF TypeInv
    <3> QED
      BY <1>7, <2>1, <3>2, Zenon DEF PodInv, abandon_launch
  <2>2. CASE cli = "abandon_ns"
    <3>1. ns' # "live" \/ faults' # 0
      BY <1>7, <2>2, CountStep DEF abandon_launch
    <3> QED
      BY <1>7, <2>0, <2>2, <3>1, Zenon DEF PodInv, abandon_launch
  <2>3. CASE cli = "abandon_record"
    BY <1>7, <2>0, <2>3, Zenon DEF PodInv, abandon_launch
  <2> QED
    BY <1>7, <2>1, <2>2, <2>3, Zenon DEF abandon_launch
<1>8. CASE release
  BY <1>8 DEF PodInv, TypeInv, CountInv, release, abort, NoLease
<1>9. CASE attach
  BY <1>9 DEF PodInv, TypeInv, CountInv, attach
<1>10. CASE DriverNeverRuns
  BY <1>10 DEF PodInv, TypeInv, CountInv, DriverNeverRuns
<1>11. CASE Detach
  BY <1>11 DEF PodInv, TypeInv, CountInv, Detach
<1>12. CASE CliDies
  BY <1>12 DEF PodInv, TypeInv, CountInv, CliDies, abort
<1>13. CASE stop
  BY <1>13, PodStopped, Literals, Zenon DEF PodInv, TypeInv, stop
<1>14. CASE adopt_get
  <2>0. faults' = 0 => faults = 0
    BY CountStep, Zenon
  <2>1. cli \notin {"acquired", "namespaced"}
    BY <1>14, Literals, Zenon DEF PodInv, adopt_get
  <2> QED
    BY <1>14, <2>0, <2>1, Zenon DEF PodInv, adopt_get
<1>15. CASE adopt
  BY <1>15 DEF PodInv, TypeInv, CountInv, adopt
<1>16. CASE build
  BY <1>16 DEF PodInv, TypeInv, CountInv, build
<1>17. CASE EngineStops
  BY <1>17 DEF PodInv, TypeInv, CountInv, EngineStops, stop_requested
<1>18. CASE EngineEnds
  BY <1>18 DEF PodInv, TypeInv, CountInv, EngineEnds
<1>19. CASE write_report
  BY <1>19 DEF PodInv, TypeInv, CountInv, write_report
<1>20. CASE teardown
  BY <1>20 DEF PodInv, TypeInv, CountInv, teardown, abort
<1>21. CASE mark_finished
  BY <1>21 DEF PodInv, TypeInv, CountInv, mark_finished
<1>22. CASE Exit
  <2>1. PICK x \in Settled : pod' = [pod EXCEPT !.phase = x]
    BY <1>22, Zenon DEF Exit
  <2>2. pod'.phase = x /\ pod'.deleting = pod.deleting
    BY <2>1, Zenon DEF TypeInv, PodType
  <2>3. cli \notin {"acquired", "namespaced"}
    BY <1>22, Literals, Zenon DEF PodInv, Exit
  <2> QED
    BY <1>22, <2>2, <2>3, Zenon DEF PodInv, Exit
<1>23. ASSUME NEW t \in Processes, renew(t) PROVE PodInv'
  BY <1>23 DEF PodInv, TypeInv, CountInv, renew
<1>24. CASE PodGoes
  BY <1>24 DEF PodInv, TypeInv, CountInv, PodGoes, abort, NoPod
<1>25. CASE NamespaceGoes
  BY <1>25 DEF PodInv, TypeInv, CountInv, NamespaceGoes
<1>26. CASE Collect
  BY <1>26, PodMarked, Literals, Zenon DEF PodInv, TypeInv, Collect
<1>27. CASE PodRuns
  BY <1>27, PodPhase, Literals, Zenon DEF PodInv, TypeInv, PodRuns
<1>28. CASE PodFails
  BY <1>28, PodPhase, Literals, Zenon DEF PodInv, TypeInv, PodFails
<1>29. CASE Janitor
  BY <1>29 DEF PodInv, TypeInv, CountInv, Janitor
<1>30. CASE reap_orphans
  BY <1>30, PodDeleted, Zenon DEF PodInv, TypeInv, reap_orphans, deleted, NoPod
<1>31. CASE delete_reports
  BY <1>31 DEF PodInv, TypeInv, CountInv, delete_reports, NoRecord
<1>32. CASE delete_sync
  <2>0. faults' = 0 => faults = 0
    BY CountStep, Zenon
  <2>1. /\ pod'.phase = pod.phase /\ (pod.deleting => pod'.deleting)
        /\ pod = NoPod => pod' = NoPod
    BY <1>32, PodDeleted, Literals, Zenon DEF delete_sync, deleted, TypeInv
  <2>2. ns' # "live" \/ ns' = ns
    BY <1>32, Zenon DEF delete_sync
  <2> QED
    BY <1>32, <2>0, <2>1, <2>2, Zenon DEF PodInv, delete_sync
<1> QED
  BY <1>0, <1>1, <1>2, <1>3, <1>4, <1>5, <1>6, <1>7, <1>8, <1>9, <1>10, <1>11, <1>12, <1>13,
    <1>14, <1>15, <1>16, <1>17, <1>18, <1>19, <1>20, <1>21, <1>22, <1>23, <1>24, <1>25, <1>26,
    <1>27, <1>28, <1>29, <1>30, <1>31, <1>32, Zenon DEF Next, Cli, Driver, Renewals, Cleanup,
    Kubelet

(* The record is made by the launch, and only patched by the report.       *)
LEMMA RecordStep ==
    ASSUME TypeInv, CountInv, RecordInv, [Next]_vars PROVE RecordInv'
<1>0. CASE UNCHANGED vars
  BY <1>0 DEF RecordInv, TypeInv, CountInv, vars
<1>1. CASE stop \/ build \/ EngineStops \/ EngineEnds \/ Exit \/ Elapse \/ (\E t \in
            Processes : StrayLands(t)) \/ PodGoes \/ NamespaceGoes \/ Collect \/ PodRuns \/
            PodFails \/ Janitor \/ sweep_expired \/ reap_orphans \/ live_run_ids \/ discover_pods
            \/ discover_namespaces \/ discover_records \/ discover_rest \/ delete_rest
  BY <1>1, Zenon DEF RecordInv, stop, build, EngineStops, EngineEnds, Exit, Elapse,
    StrayLands, PodGoes, NamespaceGoes, Collect, PodRuns, PodFails, Janitor, sweep_expired,
    reap_orphans, live_run_ids, discover_pods, discover_namespaces, discover_records,
    discover_rest, delete_rest
<1>2. CASE ensure_sync_namespace
  BY <1>2 DEF RecordInv, TypeInv, CountInv, ensure_sync_namespace
<1>3. CASE create_driver
  BY <1>3 DEF RecordInv, TypeInv, CountInv, create_driver, NoPod
<1>4. CASE record_launch
  BY <1>4, RecordLaunch, Zenon DEF RecordInv, TypeInv, record_launch
<1>5. CASE await_driver_running
  BY <1>5 DEF RecordInv, TypeInv, CountInv, await_driver_running
<1>6. CASE hand_off
  BY <1>6 DEF RecordInv, TypeInv, CountInv, hand_off, abort
<1>7. CASE abandon_launch
  BY <1>7 DEF RecordInv, TypeInv, CountInv, abandon_launch, deleted, NoRecord
<1>8. CASE release
  BY <1>8 DEF RecordInv, TypeInv, CountInv, release, abort, NoLease
<1>9. CASE attach
  BY <1>9 DEF RecordInv, TypeInv, CountInv, attach
<1>10. CASE DriverNeverRuns
  BY <1>10 DEF RecordInv, TypeInv, CountInv, DriverNeverRuns
<1>11. CASE Detach
  BY <1>11 DEF RecordInv, TypeInv, CountInv, Detach
<1>12. CASE CliDies
  BY <1>12 DEF RecordInv, TypeInv, CountInv, CliDies, abort
<1>13. CASE adopt_get
  BY <1>13 DEF RecordInv, TypeInv, CountInv, adopt_get
<1>14. CASE adopt
  BY <1>14 DEF RecordInv, TypeInv, CountInv, adopt
<1>15. CASE write_report
  <2>0. faults' = 0 => faults = 0
    BY CountStep, Zenon
  <2>1. record'.exists = record.exists /\ record'.launch = record.launch
    BY <1>15, RecordReport, Zenon DEF write_report, TypeInv
  <2> QED
    BY <1>15, <2>0, <2>1, Zenon DEF RecordInv, write_report
<1>16. CASE mark_finished
  BY <1>16 DEF RecordInv, TypeInv, CountInv, mark_finished
<1>17. ASSUME NEW t \in Processes, renew(t) PROVE RecordInv'
  BY <1>17 DEF RecordInv, TypeInv, CountInv, renew
<1>18. CASE delete_reports
  BY <1>18 DEF RecordInv, TypeInv, CountInv, delete_reports, NoRecord
<1>19. CASE delete_sync
  BY <1>19 DEF RecordInv, TypeInv, CountInv, delete_sync, deleted
<1>20. CASE teardown
  BY <1>20, CountStep, Zenon DEF RecordInv, teardown
<1> QED
  BY <1>0, <1>1, <1>2, <1>3, <1>4, <1>5, <1>6, <1>7, <1>8, <1>9, <1>10, <1>11, <1>12, <1>13,
    <1>14, <1>15, <1>16, <1>17, <1>18, <1>19, <1>20, Zenon DEF Next, Cli, Driver, Renewals, Cleanup,
    Kubelet

(* The verdict comes before the teardown, and the teardown before the      *)
(* mark.                                                                   *)
LEMMA FinishStep ==
    ASSUME TypeInv, CountInv, FinishInv, [Next]_vars PROVE FinishInv'
<1>a. faults' = 0 => faults = 0
  BY CountStep, Zenon
<1>0. CASE UNCHANGED vars
  BY <1>0 DEF FinishInv, TypeInv, vars
<1>1. CASE ensure_sync_namespace \/ create_driver \/ record_launch \/ await_driver_running \/
            hand_off \/ abandon_launch \/ release \/ attach \/ DriverNeverRuns \/ Detach \/
            CliDies \/ stop \/ Elapse \/ (\E t \in Processes : renew(t)) \/ (\E t \in Processes :
            StrayLands(t)) \/ NamespaceGoes \/ Collect \/ PodRuns \/ Janitor \/ sweep_expired \/
            live_run_ids \/ discover_pods \/ discover_namespaces \/ discover_records \/
            discover_rest \/ delete_reports \/ delete_sync
  <2>1. UNCHANGED <<drv, verdict, mode, bindings, ttl>>
    BY <1>1, Zenon DEF ensure_sync_namespace, create_driver, record_launch,
      await_driver_running, hand_off, abandon_launch, release, attach, DriverNeverRuns, Detach,
      CliDies, stop, Elapse, renew, StrayLands, NamespaceGoes, Collect, PodRuns, Janitor,
      sweep_expired, live_run_ids, discover_pods, discover_namespaces, discover_records,
      discover_rest, delete_reports, delete_sync
  <2> QED
    BY <2>1, <1>a, Zenon DEF FinishInv
<1>2. CASE adopt_get
  BY <1>2 DEF FinishInv, TypeInv, adopt_get
<1>3. CASE adopt
  BY <1>3 DEF FinishInv, TypeInv, adopt
<1>4. CASE build
  BY <1>4 DEF FinishInv, TypeInv, build
<1>5. CASE EngineStops
  BY <1>5 DEF FinishInv, TypeInv, EngineStops, stop_requested
<1>6. CASE EngineEnds
  BY <1>6 DEF FinishInv, TypeInv, EngineEnds
<1>7. CASE write_report
  BY <1>7 DEF FinishInv, TypeInv, write_report
<1>8. CASE teardown
  <2>1. /\ UNCHANGED <<mode, verdict, ttl>> /\ drv' \in {"mark", "exit"}
        /\ drv \in {"teardown", "unwind"} /\ (drv' = "mark" => drv = "teardown")
    BY <1>8 DEF teardown
  <2>2. bindings' = FALSE \/ (UNCHANGED bindings /\ mode.no_cleanup) \/ faults' # 0
        \/ (UNCHANGED bindings /\ ~ bindings)
    BY <1>8 DEF teardown, CountInv
  <2> QED
    BY <2>1, <2>2, <1>a DEF FinishInv
<1>9. CASE mark_finished
  BY <1>9 DEF FinishInv, TypeInv, mark_finished
<1>10. CASE Exit
  BY <1>10 DEF FinishInv, TypeInv, Exit
<1>11. CASE PodGoes
  BY <1>11 DEF FinishInv, TypeInv, PodGoes, abort, NoPod
<1>12. CASE PodFails
  BY <1>12 DEF FinishInv, TypeInv, PodFails, abort
<1>13. CASE reap_orphans
  BY <1>13 DEF FinishInv, TypeInv, reap_orphans, deleted, Live, NoLease
<1>14. CASE delete_rest
  BY <1>14 DEF FinishInv, TypeInv, delete_rest, Idle, NoLease
<1> QED
  BY <1>0, <1>1, <1>2, <1>3, <1>4, <1>5, <1>6, <1>7, <1>8, <1>9, <1>10, <1>11, <1>12, <1>13,
    <1>14, Zenon DEF Next, Cli, Driver, Renewals, Cleanup, Kubelet

(* A pass of cleanup sticks to what it planned.                            *)
LEMMA OpStep ==
    ASSUME TypeInv, OpInv, [Next]_vars PROVE OpInv'
<1>0. CASE UNCHANGED vars
  BY <1>0 DEF OpInv, TypeInv, vars
<1>1. CASE ensure_sync_namespace \/ create_driver \/ record_launch \/ await_driver_running \/
            hand_off \/ abandon_launch \/ release \/ attach \/ DriverNeverRuns \/ Detach \/
            CliDies \/ stop \/ adopt_get \/ adopt \/ build \/ EngineStops \/ EngineEnds \/
            write_report \/ teardown \/ mark_finished \/ Exit \/ Elapse \/ (\E t \in Processes :
            renew(t)) \/ (\E t \in Processes : StrayLands(t)) \/ PodGoes \/ NamespaceGoes \/
            Collect \/ PodRuns \/ PodFails \/ Janitor \/ sweep_expired \/ reap_orphans
  BY <1>1, Zenon DEF OpInv, ensure_sync_namespace, create_driver, record_launch,
    await_driver_running, hand_off, abandon_launch, release, attach, DriverNeverRuns, Detach,
    CliDies, stop, adopt_get, adopt, build, EngineStops, EngineEnds, write_report, teardown,
    mark_finished, Exit, Elapse, renew, StrayLands, PodGoes, NamespaceGoes, Collect, PodRuns,
    PodFails, Janitor, sweep_expired, reap_orphans
<1>2. CASE live_run_ids
  BY <1>2, OpMoves, Zenon DEF OpInv, OpGood, Cleanup, live_run_ids
<1>3. CASE discover_pods
  BY <1>3, OpMoves, Zenon DEF OpInv, OpGood, Cleanup, discover_pods
<1>4. CASE discover_namespaces
  BY <1>4, OpMoves, Zenon DEF OpInv, OpGood, Cleanup, discover_namespaces
<1>5. CASE discover_records
  BY <1>5, OpMoves, Zenon DEF OpInv, OpGood, Cleanup, discover_records
<1>6. CASE discover_rest
  BY <1>6, OpMoves, Zenon DEF OpInv, OpGood, Cleanup, discover_rest
<1>7. CASE delete_reports
  BY <1>7, OpMoves, Zenon DEF OpInv, OpGood, Cleanup, delete_reports
<1>8. CASE delete_sync
  BY <1>8, OpMoves, Zenon DEF OpInv, OpGood, Cleanup, delete_sync
<1>9. CASE delete_rest
  BY <1>9, OpMoves, Zenon DEF OpInv, OpGood, Cleanup, delete_rest
<1> QED
  BY <1>0, <1>1, <1>2, <1>3, <1>4, <1>5, <1>6, <1>7, <1>8, <1>9, Zenon DEF Next, Cli, Driver,
    Renewals, Cleanup, Kubelet

(* While the capacity is covered, the lease is live.                       *)
LEMMA CoveredLive ==
    ASSUME Tolerated, TypeInv, CountInv, Renewed PROVE Live(lease)
<1>1. lease.age \in Nat /\ mode.faults \in Nat /\ faults \in Nat /\ faults <= mode.faults
  BY ModeFaults, Zenon DEF TypeInv, LeaseType, CountInv
<1>2. mode.faults + 1 < Ttl
  BY Zenon DEF Tolerated, CountInv
<1>3. lease.age <= faults + 1 /\ lease.holder # "none"
  BY Zenon DEF Renewed
<1>4. lease.age < Ttl
  BY <1>1, <1>2, <1>3, DetachedAssumption
<1> QED
  BY <1>3, <1>4 DEF Live

(* Once covered by a live lease, covered by it until the cover is given    *)
(* up.                                                                     *)
LEMMA CoverStep ==
    ASSUME Tolerated, TypeInv, CountInv, TaskInv, CoverInv, [Next]_vars PROVE CoverInv'
<1>1. SUFFICES ASSUME Covered', ~ mode'.force PROVE Renewed' /\ Unswept'
  BY Zenon DEF CoverInv
<1>2. Covered /\ ~ mode.force
  BY <1>1, CoveredBack, CountStep, Zenon
<1>3. Renewed /\ Unswept /\ Live(lease)
  BY <1>2, CoveredLive, Zenon DEF CoverInv
<1> QED
  BY <1>2, <1>3, RenewedStep, UnsweptStep, Zenon

(* Every variable keeps its type.                                          *)
LEMMA TypeStep ==
    ASSUME TypeInv, [Next]_vars PROVE TypeInv'
<1>1. cli' \in Launching \cup GivingUp \cup HandedOff \cup {"dead"} /\ lease' \in LeaseType
  BY CliTyped, LeaseTyped, Zenon DEF TypeInv
<1>2. pod' \in PodType /\ record' \in RecordType /\ op' \in OpType
  BY PodTyped, RecordTyped, OpTyped, Zenon DEF TypeInv
<1>3. ns' \in {"none", "live", "deleting", "gone"} /\ verdict' \in Verdicts /\ bindings' \in BOOLEAN
  BY NsTyped, VerdictTyped, BindingsTyped, Zenon DEF TypeInv
<1> QED
  BY <1>1, <1>2, <1>3, Zenon DEF TypeInv

(* The part that holds however many calls fail.                            *)
EndInv == TypeInv /\ CountInv /\ PodInv /\ RecordInv /\ FinishInv

(* A step keeps it.                                                        *)
LEMMA EndStep ==
    ASSUME EndInv, [Next]_vars PROVE EndInv'
  BY TypeStep, CountStep, PodStep, RecordStep, FinishStep, Zenon DEF EndInv

(* A step keeps the whole invariant.                                       *)
LEMMA InvStep ==
    ASSUME Tolerated, Inv, [Next]_vars PROVE Inv'
<1>1. TypeInv' /\ CountInv' /\ PodInv' /\ RecordInv' /\ FinishInv'
  BY TypeStep, CountStep, PodStep, RecordStep, FinishStep, Zenon DEF Inv
<1>2. TaskInv' /\ CoverInv' /\ OpInv'
  BY TaskStep, CoverStep, OpStep, Zenon DEF Inv
<1> QED
  BY <1>1, <1>2 DEF Inv

(***************************************************************************)
(* The sync's capacity is reserved without a gap, for every TTL that more  *)
(* renewals fit in than calls fail (qos/ledger.rs renews a 60-second lease *)
(* every 20 seconds): the launch and, once the driver adopted, its run are *)
(* covered by a live lease through every interleaving of the two renewal   *)
(* tasks, the hand-off, strays, peers' sweeps and an unforced cleanup.     *)
(***************************************************************************)
THEOREM HandOffCovered == Tolerated => (Spec => []HandOffWithoutGap)
<1> SUFFICES ASSUME Tolerated PROVE Spec => []HandOffWithoutGap
  OBVIOUS
<1>1. Init => Inv
  BY InitInv
<1>2. Inv /\ [Next]_vars => Inv'
  BY InvStep
<1>3. Inv => HandOffWithoutGap
  <2> SUFFICES ASSUME Inv, ~ mode.force PROVE
        /\ cli \in Launching => Live(lease)
        /\ cli \in HandedOff /\ drv \in Unadopted \cup Working => Live(lease)
    BY Zenon DEF HandOffWithoutGap
  <2>1. Covered => Live(lease)
    BY CoveredLive, Zenon DEF Inv, CoverInv
  <2> QED
    BY <2>1, Zenon DEF Covered, Inv, TaskInv
<1> QED
  BY <1>1, <1>2, <1>3, PTL DEF Spec

(***************************************************************************)
(* No end strands anything, for every TTL and any number of failing calls: *)
(* a record has its launch half, a start that gave up with no call failing *)
(* leaves nothing that is not going, and the namespace is offered to a TTL *)
(* sweep only after the engine returned, the report was tried and the      *)
(* bindings were, which are gone if no call failed (abandon_launch,        *)
(* write_report, teardown, mark_finished).                                 *)
(***************************************************************************)
THEOREM NothingIsStranded == Spec => []NothingStranded
<1>1. Init => EndInv
  BY InitInv DEF Inv, EndInv
<1>2. EndInv /\ [Next]_vars => EndInv'
  BY EndStep
<1>3. EndInv => NothingStranded
  BY Zenon DEF EndInv, PodInv, RecordInv, FinishInv, NothingStranded
<1> QED
  BY <1>1, <1>2, <1>3, PTL DEF Spec

(***************************************************************************)
(* No sweep takes a running sync: an unforced cleanup deletes nothing of a *)
(* sync whose driver it saw up, and reap_orphans never reaches the driver  *)
(* of a sync that runs under an adopted lease.                             *)
(***************************************************************************)
THEOREM RunningSpared == Tolerated => (Spec => RunningSyncSpared)
<1> SUFFICES ASSUME Tolerated PROVE Spec => RunningSyncSpared
  OBVIOUS
<1> DEFINE Spares ==
       /\ op.up /\ ~ mode.force /\ op.at \in Deleting /\ op' # op
             => op.plan = "report_only" \/ pod.phase \in Settled
       /\ reap = "driver" /\ reap' = "await" /\ cli \in {"started", "passed", "refused"}
                /\ ~ mode.force
             => drv \notin Working
<1>1. Init => Inv
  BY InitInv
<1>2. Inv /\ [Next]_vars => Inv'
  BY InvStep
<1>3. Inv /\ [Next]_vars => [Spares]_vars
  BY Zenon DEF Inv, OpInv, CoverInv, Unswept, Covered
<1> QED
  BY <1>1, <1>2, <1>3, PTL DEF Spec, RunningSyncSpared, Deleting
====
