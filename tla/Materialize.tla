----------------------------- MODULE Materialize -----------------------------
(***************************************************************************)
(* How one seed is published (materialize/mod.rs): every run that needs it *)
(* gets or creates its volume, fills it through a puller Job whose name is *)
(* the lock, labels the volume ready, snapshots it and reads the snapshot's*)
(* handle; its tests then resolve the seed by waiting alone.  The runs     *)
(* share nothing but the objects, all of them addressed by name.           *)
(*   - the runs: provision_seed, then await_seed, one action per API call; *)
(*   - `ztest snapshot prune` (cli/src/snapshot.rs), and the operator who  *)
(*     follows the remedy of an orphaned pull;                             *)
(*   - the Job and snapshot controllers, the kubelet and the CSI driver.   *)
(*                                                                         *)
(* Abstractions: one seed; a volume is whole or not; a Job's pod attempts  *)
(* are one pull, which ends, fails or falls silent (SeedWatch has the      *)
(* clocks that call silence a stall); a budgeted wait may end at any poll. *)
(* A mode names the runs and bounds everything that may go wrong.          *)
(***************************************************************************)
EXTENDS Naturals, FiniteSets

CONSTANTS
    Runs,               \* the runs that may need the seed
    PUBLISH_ATTEMPTS,   \* turns one run may take at it
    Modes               \* the bounds explored

\* runs: those that take part.  Counts of: a run's death, a pull that fails or falls
\* silent, an API call that fails, a pass of `snapshot prune`.
ModeType == [runs : SUBSET Runs, crashes : Nat, fails : Nat, quiets : Nat,
             faults : Nat, prunes : Nat, small : BOOLEAN]

ASSUME MaterializeAssumption ==
    /\ IsFiniteSet(Runs)
    /\ PUBLISH_ATTEMPTS \in Nat \ {0}
    /\ Modes \subseteq ModeType

VARIABLES
    mode,     \* the member of Modes explored
    left,     \* what may still go wrong
    pc,       \* where each run is
    turn,     \* the turn of its publish
    target,   \* the Job whose deletion it awaits
    pvc,      \* the seed volume: [is, ready, deleting, whole]
    job,      \* the puller Job: [id, state, quiet, deleting]; id 0: none
    snap,     \* the VolumeSnapshot: [is, cut, whole, deleting]
    prune     \* where `snapshot prune` is

run == <<pc, turn, target>>
cluster == <<pvc, job, snap>>
vars == <<mode, left, run, cluster, prune>>

NoVolume == [is |-> FALSE, ready |-> FALSE, deleting |-> FALSE, whole |-> FALSE]
NoJob == [id |-> 0, state |-> "none", quiet |-> FALSE, deleting |-> FALSE]
NoSnapshot == [is |-> FALSE, cut |-> FALSE, whole |-> FALSE, deleting |-> FALSE]

Uids == 1 .. Cardinality(Runs) + 1
FreshUid == CHOOSE i \in Uids : i # job.id /\ \A r \in Runs : target[r] # i

Goto(r, l) == pc' = [pc EXCEPT ![r] = l]
\* A run that ended keeps nothing of its publish.
End(r, l) == /\ Goto(r, l)
             /\ turn' = [turn EXCEPT ![r] = 0]
             /\ target' = [target EXCEPT ![r] = 0]
Spend(what) == left[what] > 0 /\ left' = [left EXCEPT ![what] = @ - 1]

Bounds == [crashes |-> mode.crashes, fails |-> mode.fails, quiets |-> mode.quiets,
           faults |-> mode.faults, prunes |-> mode.prunes]

Init ==
    /\ mode \in Modes
    /\ left = Bounds
    /\ pc = [r \in Runs |-> "idle"]
    /\ turn = [r \in Runs |-> 0]
    /\ target = [r \in Runs |-> 0]
    /\ pvc = NoVolume /\ job = NoJob /\ snap = NoSnapshot
    /\ prune = "idle"

-----------------------------------------------------------------------------
(* The seed volume *)

\* check_seed_support, selected_driver and ensure_seeds_namespace hold on a cluster that
\* was set up.  A run that failed or was killed is run again.
provision_seed(r) ==
    /\ r \in mode.runs
    /\ pc[r] \in {"idle", "failed", "orphaned", "held", "killed"}
    /\ Goto(r, "volume")
    /\ UNCHANGED <<mode, left, turn, target, cluster, prune>>

\* get_opt: adopt the volume that fits, wait out one that is being deleted.
create_seed_pvc(r) ==
    /\ pc[r] = "volume"
    /\ CASE ~pvc.is -> Goto(r, "create") /\ UNCHANGED <<turn, target>>
         [] pvc.is /\ pvc.deleting -> Goto(r, "clearing") /\ UNCHANGED <<turn, target>>
         [] OTHER -> \/ Goto(r, "label") /\ UNCHANGED <<turn, target>>
                     \/ mode.small /\ End(r, "failed")          \* adopted_volume_fits
    /\ UNCHANGED <<mode, left, cluster, prune>>

\* Polls for absence alone: a volume recreated meanwhile is waited on too.  At the end of
\* the budget pvc_holders names the pods that still mount it.
await_pvc_gone(r) ==
    /\ pc[r] = "clearing"
    /\ IF pvc.is
       THEN End(r, IF job.state = "running" THEN "held" ELSE "failed")
       ELSE Goto(r, "create") /\ UNCHANGED <<turn, target>>
    /\ UNCHANGED <<mode, left, cluster, prune>>

\* The create: a 409 adopts whatever holds the name.
CreateVolume(r) ==
    /\ pc[r] = "create"
    /\ IF pvc.is
       THEN Goto(r, "label") /\ UNCHANGED <<pvc, turn>>
       ELSE /\ pvc' = [NoVolume EXCEPT !.is = TRUE]
            /\ Goto(r, "lock") /\ turn' = [turn EXCEPT ![r] = 1]
    /\ UNCHANGED <<mode, left, target, job, snap, prune>>

pvc_is_ready(r) ==
    /\ pc[r] = "label"
    /\ CASE ~pvc.is -> End(r, "failed")
         [] pvc.is /\ pvc.ready -> Goto(r, "snapshot") /\ UNCHANGED <<turn, target>>
         [] OTHER -> /\ Goto(r, "lock")
                     /\ turn' = [turn EXCEPT ![r] = 1]
                     /\ UNCHANGED target
    /\ UNCHANGED <<mode, left, cluster, prune>>

-----------------------------------------------------------------------------
(* The puller Job: its owner *)

finished == job.state \in {"complete", "failed"}
NewJob == [id |-> FreshUid, state |-> "pending", quiet |-> FALSE, deleting |-> FALSE]

\* sums_present has found the tree.
materialize(r) ==
    /\ pc[r] = "lock"
    /\ IF job.id = 0
       THEN job' = NewJob /\ Goto(r, "pull")
       ELSE Goto(r, "reap") /\ UNCHANGED job
    /\ UNCHANGED <<mode, left, turn, target, pvc, snap, prune>>

reap_finished_job_never(r) ==
    /\ pc[r] = "reap"
    /\ Goto(r, IF job.id = 0 THEN "relock" ELSE "wait")
    /\ UNCHANGED <<mode, left, turn, target, cluster, prune>>

\* After the 409: a Job that vanished frees its name, a live one is another run's pull.
reap_finished_job(r) ==
    /\ pc[r] = "reap"
    /\ CASE job.id = 0 -> Goto(r, "relock")
         [] finished -> Goto(r, "reapdel")
         [] OTHER -> Goto(r, "wait")
    /\ UNCHANGED <<mode, left, turn, target, cluster, prune>>

\* delete_and_await: by name, foreground, until the object it hit is gone.
delete_and_await(r, gone, awaiting) ==
    IF job.id = 0
    THEN Goto(r, gone) /\ UNCHANGED <<target, job>>
    ELSE /\ job' = [job EXCEPT !.deleting = TRUE]
         /\ target' = [target EXCEPT ![r] = job.id]
         /\ Goto(r, awaiting)

ReapDelete(r) ==
    /\ pc[r] = "reapdel"
    /\ delete_and_await(r, "relock", "reaping")
    /\ UNCHANGED <<mode, left, turn, pvc, snap, prune>>

Deleted(r) ==
    /\ pc[r] \in {"reaping", "unlocking", "stopping"}
    /\ job.id # target[r]
    /\ CASE pc[r] = "reaping" -> Goto(r, "relock") /\ target' = [target EXCEPT ![r] = 0]
                                  /\ UNCHANGED turn
         [] pc[r] = "unlocking" -> Goto(r, "mark") /\ target' = [target EXCEPT ![r] = 0]
                                    /\ UNCHANGED turn
         [] OTHER -> End(r, "failed")
    /\ UNCHANGED <<mode, left, cluster, prune>>

\* The one retry of the create: a second 409 is fatal.
CreateAgain(r) ==
    /\ pc[r] = "relock"
    /\ IF job.id = 0
       THEN job' = NewJob /\ Goto(r, "pull") /\ UNCHANGED <<turn, target>>
       ELSE End(r, "failed") /\ UNCHANGED job
    /\ UNCHANGED <<mode, left, pvc, snap, prune>>

\* await_condition(is_job_finished) of the name, against watch_puller: nothing ends the
\* wait of an owner whose Job is gone.
AwaitJob(r) ==
    /\ pc[r] = "pull"
    /\ \/ finished /\ Goto(r, "verdict")
       \/ job.quiet /\ Goto(r, "stuck")
    /\ UNCHANGED <<mode, left, turn, target, cluster, prune>>

\* A second GET of the name.
job_succeeded(r) ==
    /\ pc[r] = "verdict"
    /\ IF job.state = "complete"
       THEN Goto(r, "unlock") /\ UNCHANGED <<turn, target>>
       ELSE End(r, "failed")
    /\ UNCHANGED <<mode, left, cluster, prune>>

delete_job(r) ==
    /\ \/ pc[r] = "unlock" /\ delete_and_await(r, "mark", "unlocking")
       \/ pc[r] = "stuck" /\ delete_and_await(r, "failed", "stopping")
    /\ UNCHANGED <<mode, left, turn, pvc, snap, prune>>

-----------------------------------------------------------------------------
(* The puller Job: those who wait on another run's *)

await_inflight_finished(r) ==
    /\ pc[r] = "wait"
    /\ \/ job.state = "complete" /\ Goto(r, "mark") /\ UNCHANGED <<turn, target>>
       \/ job.state = "failed" /\ End(r, "failed")
       \/ job.quiet /\ End(r, "orphaned")
    /\ UNCHANGED <<mode, left, cluster, prune>>

\* inflight_settled and watch_puller: a stall is reported, never reaped.
await_inflight(r) ==
    /\ pc[r] = "wait"
    /\ \/ job.id = 0 /\ Goto(r, "gone") /\ UNCHANGED <<turn, target>>
       \/ job.state = "complete" /\ Goto(r, "mark") /\ UNCHANGED <<turn, target>>
       \/ job.state = "failed" /\ End(r, "failed")
       \/ job.quiet /\ End(r, "orphaned")
    /\ UNCHANGED <<mode, left, cluster, prune>>

TakeOver_published(r) ==
    /\ pc[r] = "gone"
    /\ IF pvc.is THEN Goto(r, "snapshot") /\ UNCHANGED <<turn, target>> ELSE End(r, "failed")
    /\ UNCHANGED <<mode, left, cluster, prune>>

\* The label tells a published seed from a lock that is free: the next turn of publish.
TakeOver(r) ==
    /\ pc[r] = "gone"
    /\ CASE ~pvc.is -> End(r, "failed")
         [] pvc.is /\ pvc.ready -> Goto(r, "snapshot") /\ UNCHANGED <<turn, target>>
         [] OTHER -> IF turn[r] < PUBLISH_ATTEMPTS
                     THEN /\ Goto(r, "lock")
                          /\ turn' = [turn EXCEPT ![r] = @ + 1]
                          /\ UNCHANGED target
                     ELSE End(r, "failed")
    /\ UNCHANGED <<mode, left, cluster, prune>>

\* A patch by name: of whatever volume holds it.
mark_ready(r) ==
    /\ pc[r] = "mark"
    /\ IF pvc.is
       THEN /\ pvc' = [pvc EXCEPT !.ready = TRUE]
            /\ Goto(r, "snapshot") /\ UNCHANGED <<turn, target>>
       ELSE End(r, "failed") /\ UNCHANGED pvc
    /\ UNCHANGED <<mode, left, job, snap, prune>>

-----------------------------------------------------------------------------
(* The snapshot, and the tests that restore it *)

create_volume_snapshot(r) ==
    /\ pc[r] = "snapshot"
    /\ snap' = IF snap.is THEN snap ELSE [NoSnapshot EXCEPT !.is = TRUE]
    /\ Goto(r, "ready")
    /\ UNCHANGED <<mode, left, turn, target, pvc, job, prune>>

\* No snapshot, or none that its source will let finish: what snapshot::watch ends.
Stuck == ~snap.cut /\ ~(snap.is /\ pvc.is)
\* Readiness against snapshot::watch.
wait_snapshot_ready(r) ==
    /\ pc[r] \in {"ready", "test_ready"}
    /\ \/ /\ snap.cut
          /\ Goto(r, IF pc[r] = "ready" THEN "handle" ELSE "test_handle")
          /\ UNCHANGED <<turn, target>>
       \/ Stuck /\ End(r, IF pc[r] = "ready" THEN "failed" ELSE "unresolved")
    /\ UNCHANGED <<mode, left, cluster, prune>>

read_seed_handle(r) ==
    /\ pc[r] \in {"handle", "test_handle"}
    /\ CASE pc[r] = "handle" -> End(r, IF snap.cut THEN "done" ELSE "failed")
         [] OTHER -> End(r, IF snap.cut THEN "resolved" ELSE "unresolved")
    /\ UNCHANGED <<mode, left, cluster, prune>>

\* Preflight is over: a test of the run asks for the seed.
await_seed(r) ==
    /\ pc[r] = "done"
    /\ IF pvc.is THEN Goto(r, "test_label") /\ UNCHANGED <<turn, target>>
                 ELSE End(r, "unresolved")
    /\ UNCHANGED <<mode, left, cluster, prune>>

\* Polls the label under WAIT_BUDGET; a volume that is gone is an error.
wait_pvc_ready(r) ==
    /\ pc[r] = "test_label"
    /\ IF pvc.ready THEN Goto(r, "test_ready") /\ UNCHANGED <<turn, target>>
                    ELSE End(r, "unresolved")
    /\ UNCHANGED <<mode, left, cluster, prune>>

-----------------------------------------------------------------------------
(* What goes wrong *)

Ended == {"idle", "failed", "orphaned", "held", "killed", "done", "resolved", "unresolved"}

\* An API call fails: `?`, but for the Job calls whose failure is only logged.
ApiFails(r) ==
    /\ pc[r] \notin Ended
    /\ Spend("faults")
    /\ CASE pc[r] \in {"reap", "reapdel", "reaping"} ->
                Goto(r, "wait") /\ target' = [target EXCEPT ![r] = 0] /\ UNCHANGED turn
         [] pc[r] \in {"unlock", "unlocking"} ->
                Goto(r, "mark") /\ target' = [target EXCEPT ![r] = 0] /\ UNCHANGED turn
         [] pc[r] \in {"test_label", "test_ready", "test_handle"} -> End(r, "unresolved")
         [] OTHER -> End(r, "failed")
    /\ UNCHANGED <<mode, cluster, prune>>

\* The run dies: its Job lives on.
Crash(r) ==
    /\ pc[r] \notin Ended
    /\ Spend("crashes")
    /\ End(r, "killed")
    /\ UNCHANGED <<mode, cluster, prune>>

\* `kubectl delete job`, the remedy orphaned_puller names.
Retake ==
    /\ job.id # 0 /\ ~job.deleting
    /\ \E r \in Runs : pc[r] = "orphaned"
    /\ job' = [job EXCEPT !.deleting = TRUE]
    /\ UNCHANGED <<mode, left, run, pvc, snap, prune>>

\* `kubectl delete pod`, the remedy await_pvc_gone names: the Job's next pod cannot mount
\* the volume that is going.
Release ==
    /\ job.state = "running" /\ pvc.deleting
    /\ \E r \in Runs : pc[r] = "held"
    /\ job' = [job EXCEPT !.state = "pending"]
    /\ UNCHANGED <<mode, left, run, pvc, snap, prune>>

\* `snapshot prune`: the snapshot, then the volume, neither awaited.
PruneSnapshot ==
    /\ prune = "idle" /\ pvc.is
    /\ Spend("prunes")
    /\ snap' = IF snap.is THEN [snap EXCEPT !.deleting = TRUE] ELSE snap
    /\ prune' = "volume"
    /\ UNCHANGED <<mode, run, pvc, job>>

PruneVolume ==
    /\ prune = "volume"
    /\ pvc' = IF pvc.is THEN [pvc EXCEPT !.deleting = TRUE] ELSE pvc
    /\ prune' = "idle"
    /\ UNCHANGED <<mode, left, run, job, snap>>

-----------------------------------------------------------------------------
(* The cluster *)

active == job.state \in {"pending", "running"} /\ ~job.deleting

PullStarts ==
    /\ active /\ job.state = "pending" /\ ~job.quiet
    /\ pvc.is /\ ~pvc.deleting
    /\ job' = [job EXCEPT !.state = "running"]
    /\ UNCHANGED <<mode, left, run, pvc, snap, prune>>

\* puller_cmd: the tree is fetched and verified; a rerun finds the files already whole.
PullDone ==
    /\ active /\ job.state = "running" /\ ~job.quiet
    /\ job' = [job EXCEPT !.state = "complete"]
    /\ pvc' = [pvc EXCEPT !.whole = TRUE]
    /\ UNCHANGED <<mode, left, run, snap, prune>>

PullFails ==
    /\ active /\ job.state = "running"
    /\ Spend("fails")
    /\ job' = [job EXCEPT !.state = "failed", !.quiet = FALSE]
    /\ UNCHANGED <<mode, run, pvc, snap, prune>>

\* No byte, or no placement, for as long as the watch allows; a pod whose volume is gone
\* or going is never placed.
PullQuiet ==
    /\ active /\ ~job.quiet
    /\ \/ job.state = "pending" /\ ~(pvc.is /\ ~pvc.deleting) /\ UNCHANGED left
       \/ Spend("quiets")
    /\ job' = [job EXCEPT !.quiet = TRUE]
    /\ UNCHANGED <<mode, run, pvc, snap, prune>>

PullResumes ==
    /\ active /\ job.quiet
    /\ pvc.is /\ (job.state = "running" \/ ~pvc.deleting)
    /\ job' = [job EXCEPT !.quiet = FALSE]
    /\ UNCHANGED <<mode, left, run, pvc, snap, prune>>

JobGoes ==
    /\ job.deleting
    /\ job' = NoJob
    /\ UNCHANGED <<mode, left, run, pvc, snap, prune>>

\* ttlSecondsAfterFinished: an hour after every run that watched it has read it.
JobExpires ==
    /\ finished /\ ~job.deleting
    /\ \A r \in Runs : pc[r] \in Ended
    /\ job' = NoJob
    /\ UNCHANGED <<mode, left, run, pvc, snap, prune>>

\* pvc-protection: not while a puller has it mounted, nor while it is the source of a
\* snapshot being cut.
VolumeGoes ==
    /\ pvc.deleting
    /\ job.state # "running"
    /\ ~(snap.is /\ ~snap.cut)
    /\ pvc' = NoVolume
    /\ UNCHANGED <<mode, left, run, job, snap, prune>>

SnapshotCut ==
    /\ snap.is /\ ~snap.cut /\ pvc.is
    /\ snap' = [snap EXCEPT !.cut = TRUE, !.whole = pvc.whole]
    /\ UNCHANGED <<mode, left, run, pvc, job, prune>>

SnapshotGoes ==
    /\ snap.deleting
    /\ snap' = NoSnapshot
    /\ UNCHANGED <<mode, left, run, pvc, job, prune>>

Step(r) ==
    \/ provision_seed(r) \/ create_seed_pvc(r) \/ await_pvc_gone(r) \/ CreateVolume(r)
    \/ pvc_is_ready(r) \/ materialize(r) \/ reap_finished_job(r) \/ ReapDelete(r)
    \/ Deleted(r) \/ CreateAgain(r) \/ AwaitJob(r) \/ job_succeeded(r) \/ delete_job(r)
    \/ await_inflight(r) \/ TakeOver(r) \/ mark_ready(r) \/ create_volume_snapshot(r)
    \/ wait_snapshot_ready(r) \/ read_seed_handle(r) \/ await_seed(r) \/ wait_pvc_ready(r)

Cluster ==
    \/ PullStarts \/ PullDone \/ PullQuiet \/ JobGoes
    \/ VolumeGoes \/ SnapshotCut \/ SnapshotGoes

Next ==
    \/ \E r \in Runs : Step(r) \/ ApiFails(r) \/ Crash(r)
    \/ Retake \/ Release \/ PruneSnapshot \/ PruneVolume
    \/ Cluster \/ PullFails \/ PullResumes \/ JobExpires

Spec == Init /\ [][Next]_vars

\* Every run is scheduled, and retried by its user until it succeeds; the controllers, the
\* kubelet and the CSI driver act; the operator follows the remedy.  A pull need not ever
\* break its silence.
Fairness ==
    /\ \A r \in Runs : WF_vars(Step(r))
    /\ WF_vars(PullStarts) /\ WF_vars(PullDone) /\ WF_vars(JobGoes)
    /\ WF_vars(VolumeGoes) /\ WF_vars(SnapshotCut) /\ WF_vars(SnapshotGoes)
    /\ WF_vars(job.state = "pending" /\ ~pvc.is /\ PullQuiet)
    /\ SF_vars(Retake) /\ SF_vars(Release) /\ WF_vars(PruneVolume)

FairSpec == Spec /\ Fairness

-----------------------------------------------------------------------------
(* What publishing promises *)

\* While nobody prunes the seed, no snapshot of it is cut from a volume the puller has not
\* filled, and no label says otherwise: whichever run's pull did the work, and however the
\* lock changed hands (publish returns only once `ready=true`, provision_seed snapshots
\* after it).
SnapshotIsWhole ==
    mode.prunes = 0 => (pvc.ready => pvc.whole) /\ (snap.cut => snap.whole)

\* A wait on another run's pull ends, though it has no budget: its Job finishes, goes, or
\* falls silent (await_inflight).
WaiterReturns == \A r \in Runs : pc[r] = "wait" ~> pc[r] # "wait"

\* Whatever a lone run left behind - its Job in any state, a volume without its label, a
\* label without its snapshot - running it again until it works works: reap_finished_job,
\* await_inflight and the unconditional create_volume_snapshot leave no corpse that blocks
\* the name, and the remedy of an orphaned pull is one.
RerunPublishes ==
    \A r \in Runs : mode.runs = {r} => <>(pc[r] = "done")

\* provision_seed is "race-safe": two runs that meet over one seed, with nothing else going
\* wrong, both publish it.
RaceSafe ==
    (~mode.small /\ \A what \in DOMAIN Bounds : Bounds[what] = 0) => \A r \in Runs : pc[r] # "failed"
=============================================================================
