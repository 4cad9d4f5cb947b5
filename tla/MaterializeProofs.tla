------------------------ MODULE MaterializeProofs -------------------------
(***************************************************************************)
(* Proofs about Materialize, for every set of runs, every number of turns  *)
(* and every bound on what goes wrong: a seed nobody prunes is never       *)
(* snapshotted half-filled.  Then about SeedWatch, for every window, payload*)
(* and number of attempts: a watch calls a wait dead on silence, and only  *)
(* on silence.                                                             *)
(***************************************************************************)
EXTENDS Materialize, SeedWatch, FunctionTheorems, FiniteSetTheorems, TLAPS

Labels ==
    Ended \cup {"volume", "clearing", "create", "label", "lock", "reap", "reapdel", "reaping",
                "relock", "pull", "verdict", "stuck", "stopping", "wait", "gone", "unlock",
                "unlocking", "mark", "snapshot", "ready", "handle", "test_label", "test_ready",
                "test_handle"}

JobStates == {"none", "pending", "running", "complete", "failed"}

VolumeType == [is : BOOLEAN, ready : BOOLEAN, deleting : BOOLEAN, whole : BOOLEAN]
LeftType == [crashes : Nat, fails : Nat, quiets : Nat, faults : Nat, prunes : Nat]
JobType == [id : Nat, state : JobStates, quiet : BOOLEAN, deleting : BOOLEAN]
SnapshotType == [is : BOOLEAN, cut : BOOLEAN, whole : BOOLEAN, deleting : BOOLEAN]

TypeOK ==
    /\ mode \in Modes
    /\ left \in LeftType
    /\ pc \in [Runs -> Labels]
    /\ turn \in [Runs -> Nat]
    /\ target \in [Runs -> Nat]
    /\ pvc \in VolumeType
    /\ job \in JobType
    /\ snap \in SnapshotType
    /\ prune \in {"idle", "volume"}

(* Without a prune nothing is ever deleted but Jobs, so what a run has     *)
(* seen of the volume stays true: whoever is about to label it has seen a  *)
(* complete Job, and whoever is about to snapshot it has seen the label.   *)
Unpruned == left.prunes = 0 /\ prune = "idle" /\ ~pvc.deleting /\ ~snap.deleting

Marking == {"unlock", "unlocking", "mark"}

WholeInv ==
    mode.prunes = 0 =>
        /\ Unpruned
        /\ job.state = "running" => pvc.is
        /\ job.state = "complete" => pvc.whole
        /\ pvc.whole => pvc.is
        /\ pvc.ready => pvc.whole
        /\ \A r \in Runs : pc[r] \in Marking => pvc.whole
        /\ \A r \in Runs : pc[r] = "snapshot" => pvc.ready
        /\ snap.is => pvc.ready
        /\ snap.cut => snap.whole

Inv == TypeOK /\ WholeInv

----------------------------------------------------------------------------
USE DEF LeftType, VolumeType, JobType, SnapshotType

(* While no Job exists some identity is unused: one more than the runs     *)
(* that may still await the deletion of an older Job.                      *)
LEMMA FreshUidExists ==
    ASSUME target \in [Runs -> Nat], job.id = 0
    PROVE  FreshUid \in Nat
<1> DEFINE Used == {target[r] : r \in Runs}
<1>1. target \in Surjection(Runs, Used)
  BY DEF Surjection
<1>2. /\ IsFiniteSet(Used)
      /\ Cardinality(Used) <= Cardinality(Runs)
  BY <1>1, MaterializeAssumption, FS_Surjection
<1>3. Cardinality(Runs) \in Nat /\ Cardinality(Used) \in Nat
  BY <1>2, MaterializeAssumption, FS_CardinalityType
<1>4. Cardinality(Uids) = Cardinality(Runs) + 1
  <2>1. 1 \in Int /\ Cardinality(Runs) + 1 \in Int /\ ~ (1 > Cardinality(Runs) + 1)
    BY <1>3
  <2>2. Cardinality(1 .. Cardinality(Runs) + 1) = (Cardinality(Runs) + 1) - 1 + 1
    BY <2>1, FS_Interval, Zenon
  <2> QED
    BY <1>3, <2>2 DEF Uids
<1>5. ~ (Uids \subseteq Used)
  <2> SUFFICES ASSUME Uids \in SUBSET Used PROVE FALSE
    OBVIOUS
  <2>1. Cardinality(Uids) <= Cardinality(Used)
    BY <1>2, FS_Subset
  <2> QED
    BY <2>1, <1>2, <1>3, <1>4
<1>6. PICK i \in Uids : i \notin Used
  BY <1>5
<1>7. i # job.id /\ \A r \in Runs : target[r] # i
  BY <1>3, <1>6 DEF Uids
<1>8. FreshUid \in Uids
  BY <1>6, <1>7 DEF FreshUid
<1> QED
  BY <1>3, <1>8 DEF Uids

(* Nothing exists at first.                                                *)
LEMMA InitInv == Init => Inv
<1> SUFFICES ASSUME Init PROVE Inv
  OBVIOUS
<1>1. mode \in ModeType
  BY MaterializeAssumption DEF Init
<1>2. left \in LeftType
      /\ left.prunes = mode.prunes
  BY <1>1 DEF Init, Bounds, ModeType
<1>3. TypeOK
  <2>1. pc \in [Runs -> Labels] /\ turn \in [Runs -> Nat] /\ target \in [Runs -> Nat]
    BY DEF Init, Labels, Ended
  <2>2. pvc \in VolumeType
    BY DEF Init, NoVolume
  <2>3. snap \in SnapshotType
    BY DEF Init, NoSnapshot
  <2>4. job \in JobType
    BY DEF Init, NoJob, JobStates
  <2> QED
    BY <1>2, <2>1, <2>2, <2>3, <2>4 DEF Init, TypeOK
<1>4. WholeInv
  BY <1>2 DEF Init, WholeInv, Unpruned, Marking, NoVolume, NoJob, NoSnapshot
<1> QED
  BY <1>3, <1>4 DEF Inv

(* What a step of run r may do to the labels of the runs: r does not claim *)
(* to have seen what is not there.                                         *)
RunMoves(r) ==
    /\ pc' \in [Runs -> Labels]
    /\ turn' \in [Runs -> Nat] /\ target' \in [Runs -> Nat]
    /\ \A q \in Runs \ {r} : pc'[q] = pc[q]
    /\ mode.prunes = 0 /\ pc'[r] \in Marking => pvc.whole
    /\ mode.prunes = 0 /\ pc'[r] = "snapshot" => pvc.ready

(* A step that leaves the volume and the snapshot alone.                   *)
LEMMA JobStep ==
    ASSUME Inv, NEW r, RunMoves(r),
           left' \in LeftType, left'.prunes = left.prunes,
           job' \in JobType,
           mode.prunes = 0 /\ job'.state = "running" => pvc.is,
           mode.prunes = 0 /\ job'.state = "complete" => pvc.whole,
           UNCHANGED <<mode, pvc, snap, prune>>
    PROVE  Inv'
<1>1. TypeOK'
  BY DEF Inv, TypeOK, RunMoves
<1>2. WholeInv'
  BY DEF Inv, TypeOK, WholeInv, Unpruned, RunMoves
<1> QED
  BY <1>1, <1>2 DEF Inv

(* A step of a run that changes nothing but where the run is.              *)
LEMMA LocalStep ==
    ASSUME Inv, NEW r, RunMoves(r),
           left' \in LeftType, left'.prunes = left.prunes,
           UNCHANGED <<mode, cluster, prune>>
    PROVE  Inv'
<1>1. /\ job' \in JobType
      /\ mode.prunes = 0 /\ job'.state = "running" => pvc.is
      /\ mode.prunes = 0 /\ job'.state = "complete" => pvc.whole
  BY DEF Inv, TypeOK, WholeInv, cluster
<1> QED
  BY <1>1, JobStep DEF cluster

(* What goes wrong besides a prune is not paid for with one.               *)
LEMMA SpendPrunes ==
    ASSUME TypeOK, NEW what \in {"crashes", "fails", "quiets", "faults"}, Spend(what)
    PROVE  /\ left' \in LeftType
           /\ left'.prunes = left.prunes
  BY DEF TypeOK, Spend

(* The steps of a run that only read the cluster.                          *)
LEMMA ReadStep ==
    ASSUME Inv, NEW r \in Runs,
           \/ provision_seed(r) \/ create_seed_pvc(r) \/ await_pvc_gone(r) \/ pvc_is_ready(r)
           \/ reap_finished_job(r) \/ Deleted(r) \/ AwaitJob(r) \/ job_succeeded(r)
           \/ await_inflight(r) \/ TakeOver(r) \/ wait_snapshot_ready(r)
           \/ read_seed_handle(r) \/ await_seed(r) \/ wait_pvc_ready(r)
    PROVE  Inv'
<1> USE DEF Labels, Ended, Marking, Goto, End
<1>0. TypeOK /\ WholeInv /\ left \in LeftType
  BY DEF Inv, TypeOK
<1>1. CASE provision_seed(r)
  <2>1. RunMoves(r)
    BY <1>0, <1>1 DEF provision_seed, TypeOK, RunMoves
  <2> QED
    BY <1>0, <1>1, <2>1, LocalStep DEF provision_seed
<1>2. CASE create_seed_pvc(r)
  <2>1. RunMoves(r)
    BY <1>0, <1>2 DEF create_seed_pvc, TypeOK, RunMoves, WholeInv
  <2> QED
    BY <1>0, <1>2, <2>1, LocalStep DEF create_seed_pvc
<1>3. CASE await_pvc_gone(r)
  <2>1. RunMoves(r)
    BY <1>0, <1>3 DEF await_pvc_gone, TypeOK, RunMoves
  <2> QED
    BY <1>0, <1>3, <2>1, LocalStep DEF await_pvc_gone
<1>4. CASE pvc_is_ready(r)
  <2>1. RunMoves(r)
    BY <1>0, <1>4 DEF pvc_is_ready, TypeOK, RunMoves, WholeInv
  <2> QED
    BY <1>0, <1>4, <2>1, LocalStep DEF pvc_is_ready
<1>5. CASE reap_finished_job(r)
  <2>1. RunMoves(r)
    BY <1>0, <1>5 DEF reap_finished_job, TypeOK, RunMoves, finished
  <2> QED
    BY <1>0, <1>5, <2>1, LocalStep DEF reap_finished_job
<1>6. CASE Deleted(r)
  <2>1. RunMoves(r)
    BY <1>0, <1>6 DEF Deleted, TypeOK, RunMoves, WholeInv
  <2> QED
    BY <1>0, <1>6, <2>1, LocalStep DEF Deleted
<1>7. CASE AwaitJob(r)
  <2>1. RunMoves(r)
    BY <1>0, <1>7 DEF AwaitJob, TypeOK, RunMoves, finished
  <2> QED
    BY <1>0, <1>7, <2>1, LocalStep DEF AwaitJob
<1>8. CASE job_succeeded(r)
  <2>1. RunMoves(r)
    BY <1>0, <1>8 DEF job_succeeded, TypeOK, RunMoves, WholeInv
  <2> QED
    BY <1>0, <1>8, <2>1, LocalStep DEF job_succeeded
<1>9. CASE await_inflight(r)
  <2>1. RunMoves(r)
    BY <1>0, <1>9 DEF await_inflight, TypeOK, RunMoves, WholeInv
  <2> QED
    BY <1>0, <1>9, <2>1, LocalStep DEF await_inflight
<1>10. CASE TakeOver(r)
  <2>1. RunMoves(r)
    BY <1>0, <1>10 DEF TakeOver, TypeOK, RunMoves, WholeInv
  <2> QED
    BY <1>0, <1>10, <2>1, LocalStep DEF TakeOver
<1>11. CASE wait_snapshot_ready(r)
  <2>1. RunMoves(r)
    BY <1>0, <1>11 DEF wait_snapshot_ready, TypeOK, RunMoves, Stuck
  <2> QED
    BY <1>0, <1>11, <2>1, LocalStep DEF wait_snapshot_ready
<1>12. CASE read_seed_handle(r)
  <2>1. RunMoves(r)
    BY <1>0, <1>12 DEF read_seed_handle, TypeOK, RunMoves
  <2> QED
    BY <1>0, <1>12, <2>1, LocalStep DEF read_seed_handle
<1>13. CASE await_seed(r)
  <2>1. RunMoves(r)
    BY <1>0, <1>13 DEF await_seed, TypeOK, RunMoves
  <2> QED
    BY <1>0, <1>13, <2>1, LocalStep DEF await_seed
<1>14. CASE wait_pvc_ready(r)
  <2>1. RunMoves(r)
    BY <1>0, <1>14 DEF wait_pvc_ready, TypeOK, RunMoves
  <2> QED
    BY <1>0, <1>14, <2>1, LocalStep DEF wait_pvc_ready
<1> QED
  BY <1>1, <1>2, <1>3, <1>4, <1>5, <1>6, <1>7, <1>8, <1>9, <1>10, <1>11, <1>12, <1>13, <1>14, SMTT(30)

(* The steps of a run that create or delete the Job.                       *)
LEMMA LockStep ==
    ASSUME Inv, NEW r \in Runs,
           materialize(r) \/ ReapDelete(r) \/ CreateAgain(r) \/ delete_job(r)
    PROVE  Inv'
<1> USE DEF Labels, Ended, Marking, Goto, End
<1>0. TypeOK /\ WholeInv /\ left \in LeftType /\ job \in JobType
  BY DEF Inv, TypeOK
<1>1. job.id = 0 => NewJob \in JobType /\ NewJob.state = "pending"
  BY <1>0, FreshUidExists DEF NewJob, JobStates, TypeOK
<1>2. [job EXCEPT !.deleting = TRUE] \in JobType
      /\ [job EXCEPT !.deleting = TRUE].state = job.state
  BY <1>0, Zenon
<1>3. CASE materialize(r)
  <2>1. RunMoves(r)
    BY <1>0, <1>3 DEF materialize, TypeOK, RunMoves
  <2> QED
    BY <1>0, <1>1, <1>3, <2>1, JobStep DEF materialize, WholeInv
<1>4. CASE ReapDelete(r)
  <2>1. RunMoves(r)
    BY <1>0, <1>4 DEF ReapDelete, delete_and_await, TypeOK, RunMoves
  <2> QED
    BY <1>0, <1>2, <1>4, <2>1, JobStep, Zenon DEF ReapDelete, delete_and_await, WholeInv
<1>5. CASE CreateAgain(r)
  <2>1. RunMoves(r)
    BY <1>0, <1>5 DEF CreateAgain, TypeOK, RunMoves
  <2> QED
    BY <1>0, <1>1, <1>5, <2>1, JobStep DEF CreateAgain, WholeInv
<1>6. CASE delete_job(r)
  <2>1. RunMoves(r)
    BY <1>0, <1>6 DEF delete_job, delete_and_await, TypeOK, RunMoves, WholeInv
  <2> QED
    BY <1>0, <1>2, <1>6, <2>1, JobStep, Zenon DEF delete_job, delete_and_await, WholeInv
<1> QED
  BY <1>3, <1>4, <1>5, <1>6

(* The steps of a run that write the volume or the snapshot.  A volume is  *)
(* created only where none is, and then nobody has seen one filled.        *)
LEMMA WriteStep ==
    ASSUME Inv, NEW r \in Runs,
           CreateVolume(r) \/ mark_ready(r) \/ create_volume_snapshot(r)
    PROVE  Inv'
<1> USE DEF Labels, Ended, Marking, Goto, End
<1>0. TypeOK /\ WholeInv
  BY DEF Inv
<1>1. CASE CreateVolume(r)
  <2>1. TypeOK'
    <3>1. pvc' \in VolumeType
      <4>1. pvc \in VolumeType /\ [NoVolume EXCEPT !.is = TRUE] \in VolumeType
        BY <1>0, Zenon DEF TypeOK, NoVolume
      <4> QED
        BY <1>1, <4>1, Zenon DEF CreateVolume
    <3>2. pc \in [Runs -> Labels] /\ turn \in [Runs -> Nat] /\ target \in [Runs -> Nat]
      BY <1>0 DEF TypeOK
    <3>3. pc' \in [Runs -> Labels]
      BY <1>1, <3>2 DEF CreateVolume
    <3>4. turn' \in [Runs -> Nat] /\ target' \in [Runs -> Nat]
      BY <1>1, <3>2 DEF CreateVolume
    <3> QED
      BY <1>0, <1>1, <3>1, <3>3, <3>4 DEF CreateVolume, TypeOK
  <2>2. WholeInv'
    BY <1>0, <1>1 DEF CreateVolume, NoVolume, TypeOK, WholeInv, Unpruned
  <2> QED
    BY <2>1, <2>2 DEF Inv
<1>2. CASE mark_ready(r)
  <2>1. TypeOK'
    <3>1. pvc' \in VolumeType
      <4>1. pvc \in VolumeType
        BY <1>0 DEF TypeOK
      <4>2. [pvc EXCEPT !.ready = TRUE] \in VolumeType
        BY <4>1, Zenon
      <4> QED
        BY <1>2, <4>1, <4>2, Zenon DEF mark_ready
    <3>2. pc \in [Runs -> Labels] /\ turn \in [Runs -> Nat] /\ target \in [Runs -> Nat]
      BY <1>0 DEF TypeOK
    <3>3. pc' \in [Runs -> Labels]
      BY <1>2, <3>2 DEF mark_ready
    <3>4. turn' \in [Runs -> Nat] /\ target' \in [Runs -> Nat]
      BY <1>2, <3>2 DEF mark_ready
    <3> QED
      BY <1>0, <1>2, <3>1, <3>3, <3>4 DEF mark_ready, TypeOK
  <2>2. WholeInv'
    BY <1>0, <1>2 DEF mark_ready, TypeOK, WholeInv, Unpruned
  <2> QED
    BY <2>1, <2>2 DEF Inv
<1>3. CASE create_volume_snapshot(r)
  <2>1. TypeOK'
    BY <1>0, <1>3, Zenon DEF create_volume_snapshot, NoSnapshot, TypeOK
  <2>2. WholeInv'
    BY <1>0, <1>3 DEF create_volume_snapshot, NoSnapshot, TypeOK, WholeInv, Unpruned
  <2> QED
    BY <2>1, <2>2 DEF Inv
<1> QED
  BY <1>1, <1>2, <1>3

(* A call that fails, or the run that dies: a Job call whose failure is    *)
(* only logged leads to the label just as its success does.                *)
LEMMA FaultStep ==
    ASSUME Inv, NEW r \in Runs, ApiFails(r) \/ Crash(r)
    PROVE  Inv'
<1> USE DEF Labels, Ended, Marking, Goto, End
<1>0. TypeOK /\ WholeInv
  BY DEF Inv
<1>1. CASE ApiFails(r)
  <2>1. RunMoves(r)
    BY <1>0, <1>1 DEF ApiFails, TypeOK, RunMoves, WholeInv
  <2>2. left' \in LeftType /\ left'.prunes = left.prunes
    BY <1>0, <1>1, SpendPrunes DEF ApiFails
  <2> QED
    BY <1>1, <2>1, <2>2, LocalStep DEF ApiFails
<1>2. CASE Crash(r)
  <2>1. RunMoves(r)
    BY <1>0, <1>2 DEF Crash, TypeOK, RunMoves
  <2>2. left' \in LeftType /\ left'.prunes = left.prunes
    BY <1>0, <1>2, SpendPrunes DEF Crash
  <2> QED
    BY <1>2, <2>1, <2>2, LocalStep DEF Crash
<1> QED
  BY <1>1, <1>2

(* A step on the Job alone.                                                *)
LEMMA JobAlone ==
    ASSUME Inv, UNCHANGED <<mode, run, pvc, snap, prune>>,
           left' \in LeftType, left'.prunes = left.prunes,
           job' \in JobType,
           mode.prunes = 0 /\ job'.state = "running" => pvc.is,
           mode.prunes = 0 /\ job'.state = "complete" => pvc.whole
    PROVE  Inv'
<1>1. TypeOK'
  BY DEF Inv, TypeOK, run
<1>2. WholeInv'
  BY DEF Inv, TypeOK, WholeInv, Unpruned, run
<1> QED
  BY <1>1, <1>2 DEF Inv

(* The steps of the cluster and the operator on the Job alone: it runs     *)
(* only on a volume, and ends only by failing.                             *)
LEMMA JobControllerStep ==
    ASSUME Inv,
           \/ Retake \/ Release \/ PullStarts \/ PullFails \/ PullQuiet
           \/ PullResumes \/ JobGoes \/ JobExpires
    PROVE  Inv'
<1>0. TypeOK /\ WholeInv /\ left \in LeftType /\ job \in JobType
  BY DEF Inv, TypeOK
<1>2. CASE Retake
  <2>1. /\ job' \in JobType
        /\ mode.prunes = 0 /\ job'.state = "running" => pvc.is
        /\ mode.prunes = 0 /\ job'.state = "complete" => pvc.whole
    BY <1>0, <1>2, Zenon DEF Retake, JobStates, WholeInv
  <2>2. left' \in LeftType /\ left'.prunes = left.prunes
    BY <1>0, <1>2 DEF Retake
  <2> QED
    BY <1>2, <2>1, <2>2, JobAlone DEF Retake
<1>3. CASE Release
  <2>1. /\ job' \in JobType
        /\ mode.prunes = 0 /\ job'.state = "running" => pvc.is
        /\ mode.prunes = 0 /\ job'.state = "complete" => pvc.whole
    BY <1>0, <1>3 DEF Release, JobStates, WholeInv
  <2>2. left' \in LeftType /\ left'.prunes = left.prunes
    BY <1>0, <1>3 DEF Release
  <2> QED
    BY <1>3, <2>1, <2>2, JobAlone DEF Release
<1>4. CASE PullStarts
  <2>1. /\ job' \in JobType
        /\ mode.prunes = 0 /\ job'.state = "running" => pvc.is
        /\ mode.prunes = 0 /\ job'.state = "complete" => pvc.whole
    BY <1>0, <1>4 DEF PullStarts, JobStates, WholeInv
  <2>2. left' \in LeftType /\ left'.prunes = left.prunes
    BY <1>0, <1>4 DEF PullStarts
  <2> QED
    BY <1>4, <2>1, <2>2, JobAlone DEF PullStarts
<1>5. CASE PullFails
  <2>1. /\ job' \in JobType
        /\ mode.prunes = 0 /\ job'.state = "running" => pvc.is
        /\ mode.prunes = 0 /\ job'.state = "complete" => pvc.whole
    BY <1>0, <1>5, Zenon DEF PullFails, JobStates, WholeInv
  <2>2. left' \in LeftType /\ left'.prunes = left.prunes
    BY <1>0, <1>5, SpendPrunes DEF PullFails
  <2> QED
    BY <1>5, <2>1, <2>2, JobAlone DEF PullFails
<1>6. CASE PullQuiet
  <2>1. /\ job' \in JobType
        /\ mode.prunes = 0 /\ job'.state = "running" => pvc.is
        /\ mode.prunes = 0 /\ job'.state = "complete" => pvc.whole
    BY <1>0, <1>6, Zenon DEF PullQuiet, JobStates, WholeInv
  <2>2. left' \in LeftType /\ left'.prunes = left.prunes
    BY <1>0, <1>6, SpendPrunes DEF PullQuiet
  <2> QED
    BY <1>6, <2>1, <2>2, JobAlone DEF PullQuiet
<1>7. CASE PullResumes
  <2>1. /\ job' \in JobType
        /\ mode.prunes = 0 /\ job'.state = "running" => pvc.is
        /\ mode.prunes = 0 /\ job'.state = "complete" => pvc.whole
    BY <1>0, <1>7, Zenon DEF PullResumes, JobStates, WholeInv
  <2>2. left' \in LeftType /\ left'.prunes = left.prunes
    BY <1>0, <1>7 DEF PullResumes
  <2> QED
    BY <1>7, <2>1, <2>2, JobAlone DEF PullResumes
<1>8. CASE JobGoes
  <2>1. /\ job' \in JobType
        /\ mode.prunes = 0 /\ job'.state = "running" => pvc.is
        /\ mode.prunes = 0 /\ job'.state = "complete" => pvc.whole
    BY <1>0, <1>8 DEF JobGoes, JobStates, WholeInv, NoJob
  <2>2. left' \in LeftType /\ left'.prunes = left.prunes
    BY <1>0, <1>8 DEF JobGoes
  <2> QED
    BY <1>8, <2>1, <2>2, JobAlone, SMTT(30) DEF JobGoes
<1>9. CASE JobExpires
  <2>1. /\ job' \in JobType
        /\ mode.prunes = 0 /\ job'.state = "running" => pvc.is
        /\ mode.prunes = 0 /\ job'.state = "complete" => pvc.whole
    BY <1>0, <1>9 DEF JobExpires, JobStates, WholeInv, NoJob
  <2>2. left' \in LeftType /\ left'.prunes = left.prunes
    BY <1>0, <1>9 DEF JobExpires
  <2> QED
    BY <1>9, <2>1, <2>2, JobAlone DEF JobExpires
<1> QED
  BY <1>2, <1>3, <1>4, <1>5, <1>6, <1>7, <1>8, <1>9

(* The steps on the volume and the snapshot that are no run's.  A pull     *)
(* that ends has filled the volume it ran on; deletions need a prune.      *)
LEMMA VolumeStep ==
    ASSUME Inv,
           \/ PruneSnapshot \/ PruneVolume \/ PullDone
           \/ VolumeGoes \/ SnapshotCut \/ SnapshotGoes
    PROVE  Inv'
<1>0. TypeOK /\ WholeInv
  BY DEF Inv
<1>1. CASE PruneSnapshot
  <2>1. TypeOK'
    <3>1. snap' \in SnapshotType
      BY <1>0, <1>1, Zenon DEF PruneSnapshot, TypeOK
    <3>2. left' \in LeftType
      BY <1>0, <1>1 DEF PruneSnapshot, Spend, TypeOK
    <3> QED
      BY <1>0, <1>1, <3>1, <3>2 DEF PruneSnapshot, TypeOK, run
  <2>2. WholeInv'
    BY <1>0, <1>1 DEF PruneSnapshot, TypeOK, WholeInv, Unpruned, run, Spend
  <2> QED
    BY <2>1, <2>2 DEF Inv
<1>2. CASE PruneVolume
  <2>1. TypeOK'
    BY <1>0, <1>2, Zenon DEF PruneVolume, TypeOK, run
  <2>2. WholeInv'
    BY <1>0, <1>2 DEF PruneVolume, TypeOK, WholeInv, Unpruned, run
  <2> QED
    BY <2>1, <2>2 DEF Inv
<1>3. CASE PullDone
  <2>1. TypeOK'
    BY <1>0, <1>3, Zenon DEF PullDone, TypeOK, run, active, JobStates
  <2>2. WholeInv'
    BY <1>0, <1>3, SMTT(30) DEF PullDone, TypeOK, WholeInv, Unpruned, run, active, JobStates
  <2> QED
    BY <2>1, <2>2 DEF Inv
<1>4. CASE VolumeGoes
  <2>1. TypeOK'
    BY <1>0, <1>4, SMTT(30) DEF VolumeGoes, TypeOK, run, NoVolume
  <2>2. WholeInv'
    BY <1>0, <1>4 DEF VolumeGoes, TypeOK, WholeInv, Unpruned, run, NoVolume
  <2> QED
    BY <2>1, <2>2 DEF Inv
<1>5. CASE SnapshotCut
  <2>1. TypeOK'
    BY <1>0, <1>5, Zenon DEF SnapshotCut, TypeOK, run
  <2>2. WholeInv'
    BY <1>0, <1>5 DEF SnapshotCut, TypeOK, WholeInv, Unpruned, run
  <2> QED
    BY <2>1, <2>2 DEF Inv
<1>6. CASE SnapshotGoes
  <2>1. TypeOK'
    BY <1>0, <1>6 DEF SnapshotGoes, TypeOK, run, NoSnapshot
  <2>2. WholeInv'
    BY <1>0, <1>6 DEF SnapshotGoes, TypeOK, WholeInv, Unpruned, run, NoSnapshot
  <2> QED
    BY <2>1, <2>2 DEF Inv
<1> QED
  BY <1>1, <1>2, <1>3, <1>4, <1>5, <1>6

(* Every step keeps the invariant.                                         *)
LEMMA StepInv == Inv /\ [Next]_vars => Inv'
<1> SUFFICES ASSUME Inv, [Next]_vars PROVE Inv'
  OBVIOUS
<1>1. CASE UNCHANGED vars
  BY <1>1 DEF vars, run, cluster, Inv, TypeOK, WholeInv, Unpruned
<1>2. ASSUME NEW r \in Runs, Step(r) PROVE Inv'
  BY <1>2, ReadStep, LockStep, WriteStep DEF Step
<1>3. ASSUME NEW r \in Runs, ApiFails(r) \/ Crash(r) PROVE Inv'
  BY <1>3, FaultStep
<1>4. CASE Cluster
  BY <1>4, JobControllerStep, VolumeStep DEF Cluster
<1>5. CASE Retake \/ Release \/ PruneSnapshot \/ PruneVolume \/ PullFails \/ PullResumes
           \/ JobExpires
  BY <1>5, JobControllerStep, VolumeStep
<1> QED
  BY <1>1, <1>2, <1>3, <1>4, <1>5 DEF Next

(* Whatever runs meet over a seed, whichever of them die, whatever fails:  *)
(* while nobody prunes it, only a filled volume is labelled ready, and     *)
(* only a filled volume is snapshotted (publish, then the unconditional    *)
(* create_volume_snapshot).                                                *)
THEOREM PublishedWhole == Spec => []SnapshotIsWhole
<1>1. Inv => SnapshotIsWhole
  BY DEF Inv, WholeInv, SnapshotIsWhole
<1> QED
  BY <1>1, InitInv, StepInv, PTL DEF Spec

-----------------------------------------------------------------------------
(* SeedWatch *)

PodIs == Unplaced \cup {"absent", "running", "succeeded", "failed"}
Stalled == {"no_progress", "finalizing"}

PullType ==
    /\ setting \in SettingType
    /\ phase \in {"pull", "snapshot", "over"}
    /\ pod \in [n : Nat, is : PodIs, count : Nat, verified : Nat]
    /\ att \in [pod : Nat, is : {"none", "following", "dropped", "ended"}]
    /\ clock \in [base : Nat, transferred : Nat, verified : Nat, idle : Int]
    /\ listed \in Nat /\ quiet \in Nat

(* What the watch has read of the pod there is: nothing yet, or all but    *)
(* what moved out of its sight.                                            *)
Attached == att.pod = pod.n /\ pod.n > 0
ReadInv ==
    /\ listed <= pod.n /\ att.pod <= pod.n
    /\ pod.n = 0 => pod.is = "absent"
    /\ Attached => listed = pod.n
    /\ att.is = "following" => att.pod > 0 /\ (Attached => ~ hid)
    /\ att.pod = 0 => clock.transferred = clock.base /\ clock.verified = 0
    /\ ~ Attached =>
          IF hid THEN pod.count > 0 \/ pod.verified > 0 ELSE pod.count = 0 /\ pod.verified = 0
    /\ Attached =>
          /\ clock.transferred <= clock.base + pod.count /\ clock.verified <= pod.verified
          /\ IF hid THEN clock.transferred < clock.base + pod.count \/ clock.verified < pod.verified
                    ELSE clock.transferred = clock.base + pod.count /\ clock.verified = pod.verified

(* The clock of the watch is the silence there is, up to the window.       *)
ClockInv ==
    /\ att.pod > 0 => clock.idle # None
    /\ clock.idle # None =>
          /\ listed > 0 /\ clock.idle \in 0 .. STALL_WINDOW
          /\ quiet = clock.idle \/ (clock.idle = STALL_WINDOW /\ quiet = STALL_WINDOW + 1)
    /\ verdict \in Stalled => quiet >= STALL_WINDOW
    /\ phase # "over" => verdict = "none"

PullInv == PullType /\ ReadInv /\ ClockInv

USE DEF None, Unplaced, PodIs, Stalled, NoPod, NoHold, NoClock, Unread

LEMMA Windows == STALL_WINDOW \in Nat \ {0} /\ METERED_STALL \in Nat \ {0} /\ BLIND_STALL \in Nat \ {0}
  BY SeedWatchAssumption

LEMMA Blanks ==
    /\ NoPod \in [n : Nat, is : PodIs, count : Nat, verified : Nat]
    /\ NoHold \in [pod : Nat, is : {"none", "following", "dropped", "ended"}]
    /\ NoClock \in [base : Nat, transferred : Nat, verified : Nat, idle : Int]
<1>1. NoPod \in [n : Nat, is : PodIs, count : Nat, verified : Nat]
  OBVIOUS
<1>2. NoHold \in [pod : Nat, is : {"none", "following", "dropped", "ended"}]
  OBVIOUS
<1>3. NoClock \in [base : Nat, transferred : Nat, verified : Nat, idle : Int]
  OBVIOUS
<1> QED
  BY <1>1, <1>2, <1>3

LEMMA InitPull == WatchInit => PullInv
<1> SUFFICES ASSUME WatchInit
             PROVE  PullInv
  OBVIOUS
<1>1. PullType
  <2>1. setting \in SettingType
    BY SeedWatchAssumption, SMTT(30) DEF WatchInit
  <2> HIDE DEF NoPod, NoHold, NoClock
  <2> QED
    BY <2>1, Blanks, SMTT(30) DEF WatchInit, PullType
<1>2. ReadInv /\ ClockInv
  BY Windows DEF WatchInit, ReadInv, ClockInv, Attached
<1> QED
  BY <1>1, <1>2 DEF PullInv

(* The pods of the Job come and go.                                        *)
LEMMA PodStep ==
    ASSUME PullInv, NewPod \/ Place \/ Exits \/ Settles \/ Drops
    PROVE  PullInv'
<1>0. PullType /\ ReadInv /\ ClockInv
  BY DEF PullInv
<1>1. CASE NewPod
  <2>1. PullType'
    <3>1. pod' \in [n : Nat, is : PodIs, count : Nat, verified : Nat]
      BY <1>0, <1>1 DEF NewPod, PullType
    <3>2. listed' \in Nat
      BY <1>0, <1>1 DEF NewPod, PullType
    <3>3. UNCHANGED <<setting, phase, polled, att, clock, quiet>>
      BY <1>1, SMTT(30) DEF NewPod
    <3> QED
      BY <1>0, <3>1, <3>2, <3>3, SMTT(30) DEF PullType
  <2>2. ReadInv'
    BY <1>0, <1>1 DEF NewPod, PullType, ReadInv, Attached
  <2>3. ClockInv'
    BY <1>0, <1>1 DEF NewPod, PullType, ClockInv
  <2> QED
    BY <2>1, <2>2, <2>3 DEF PullInv
<1>2. CASE Place
  <2>1. PullType'
    BY <1>0, <1>2 DEF Place, PullType
  <2>2. ReadInv'
    BY <1>0, <1>2 DEF Place, PullType, ReadInv, Attached
  <2>3. ClockInv'
    BY <1>0, <1>2 DEF Place, PullType, ClockInv
  <2> QED
    BY <2>1, <2>2, <2>3 DEF PullInv
<1>3. CASE Exits
  <2>1. PullType'
    BY <1>0, <1>3 DEF Exits, Following, PullType
  <2>2. ReadInv'
    BY <1>0, <1>3 DEF Exits, Following, PullType, ReadInv, Attached
  <2>3. ClockInv'
    BY <1>0, <1>3 DEF Exits, Following, PullType, ClockInv
  <2> QED
    BY <2>1, <2>2, <2>3 DEF PullInv
<1>4. CASE Settles
  <2>1. PullType'
    <3> HIDE DEF NoPod, NoHold, NoClock
    <3> QED
      BY <1>0, <1>4, Blanks, SMTT(30) DEF Settles, PullType
  <2>2. ReadInv'
    BY <1>0, <1>4, SMTT(30) DEF Settles, PullType, ReadInv, Attached
  <2>3. ClockInv'
    BY <1>0, <1>4 DEF Settles, PullType, ClockInv
  <2> QED
    BY <2>1, <2>2, <2>3 DEF PullInv
<1>5. CASE Drops
  <2>1. PullType'
    BY <1>0, <1>5 DEF Drops, PullType
  <2>2. ReadInv'
    BY <1>0, <1>5 DEF Drops, PullType, ReadInv, Attached
  <2>3. ClockInv'
    BY <1>0, <1>5 DEF Drops, PullType, ClockInv
  <2> QED
    BY <2>1, <2>2, <2>3 DEF PullInv
<1> QED
  BY <1>1, <1>2, <1>3, <1>4, <1>5

(* A pod that moves: in sight, the record it prints is a rise.             *)
LEMMA MoveStep ==
    ASSUME PullInv, Moves
    PROVE  PullInv'
<1>0. PullType /\ ReadInv /\ ClockInv
  BY DEF PullInv
<1>a. /\ UNCHANGED <<setting, phase, verdict, polled, listed, att>> /\ hid' = ~ Following
      /\ phase = "pull" /\ pod.is = "running"
      /\ \/ pod' = [pod EXCEPT !.count = @ + 1]
         \/ pod' = [pod EXCEPT !.verified = @ + 1]
  BY DEF Moves
<1>b. pod.n > 0
  BY <1>0, <1>a DEF PullType, ReadInv
<1>c. pod' \in [n : Nat, is : PodIs, count : Nat, verified : Nat] /\ pod'.n = pod.n /\ pod'.is = pod.is
  BY <1>0, <1>a DEF PullType
<1>1. /\ UNCHANGED <<setting, phase, verdict, polled, listed, att>>
      /\ pod.n > 0 /\ (hid' <=> ~ Following) /\ verdict = "none"
      /\ pod' \in [n : Nat, is : PodIs, count : Nat, verified : Nat] /\ pod'.n = pod.n /\ pod'.is = pod.is
      /\ \/ pod'.count = pod.count + 1 /\ pod'.verified = pod.verified
         \/ pod'.verified = pod.verified + 1 /\ pod'.count = pod.count
  BY <1>0, <1>a, <1>b, <1>c, Zenon DEF PullType, ClockInv
<1>2. CASE ~ Following
  <2>1. UNCHANGED <<clock, quiet>> /\ hid'
    BY <1>1, <1>2 DEF Moves
  <2>2. PullType'
    BY <1>0, <1>1, <2>1, SMTT(30) DEF PullType
  <2>3. ReadInv'
    BY <1>0, <1>1, <1>2, <2>1 DEF PullType, ReadInv, Attached, Following
  <2>4. ClockInv'
    BY <1>0, <1>1, <2>1 DEF PullType, ClockInv
  <2> QED
    BY <2>2, <2>3, <2>4 DEF PullInv
<1>3. CASE Following
  <2>1. Attached /\ ~ hid /\ att.is = "following" /\ clock.idle # None
    BY <1>0, <1>1, <1>3 DEF Following, Attached, ReadInv, ClockInv, PullType
  <2>2. /\ clock.transferred = clock.base + pod.count /\ clock.verified = pod.verified
        /\ listed = pod.n
    BY <1>0, <2>1 DEF ReadInv
  <2>3. quiet' = 0 /\ hid' = FALSE
    BY <1>1, <1>3 DEF Moves
  <2>4. CASE pod' = [pod EXCEPT !.count = @ + 1] /\ clock' = observe(pod.count + 1)
    <3>1. clock' = [clock EXCEPT !.transferred = clock.base + (pod.count + 1), !.idle = 0]
      BY <1>0, <2>2, <2>4 DEF observe, PullType
    <3>a. /\ clock' \in [base : Nat, transferred : Nat, verified : Nat, idle : Int]
          /\ clock'.base = clock.base /\ clock'.verified = clock.verified /\ clock'.idle = 0
          /\ clock'.transferred = clock.base + (pod.count + 1)
      <4>1. clock \in [base : Nat, transferred : Nat, verified : Nat, idle : Int] /\ pod.count \in Nat
        BY <1>0 DEF PullType
      <4>2. clock.base + (pod.count + 1) \in Nat /\ 0 \in Int
        BY <4>1
      <4> QED
        BY <3>1, <4>1, <4>2, Zenon
    <3>b. pod'.count = pod.count + 1 /\ pod'.verified = pod.verified
      BY <1>0, <2>4 DEF PullType
    <3>2. PullType'
      BY <1>0, <1>1, <2>3, <3>a, SMTT(30) DEF PullType
    <3>3. ReadInv'
      BY <1>0, <1>1, <2>1, <2>2, <2>3, <3>a, <3>b, SMTT(30) DEF PullType, ReadInv, Attached
    <3>4. ClockInv'
      BY <1>0, <1>1, <2>1, <2>2, <2>3, <3>a, Windows, SMTT(30) DEF PullType, ClockInv
    <3> QED
      BY <3>2, <3>3, <3>4 DEF PullInv
  <2>5. CASE pod' = [pod EXCEPT !.verified = @ + 1] /\ clock' = observe_verified(pod.verified + 1)
    <3>1. clock' = [clock EXCEPT !.verified = pod.verified + 1, !.idle = 0]
      BY <1>0, <2>2, <2>5 DEF observe_verified, PullType
    <3>a. /\ clock' \in [base : Nat, transferred : Nat, verified : Nat, idle : Int]
          /\ clock'.base = clock.base /\ clock'.transferred = clock.transferred /\ clock'.idle = 0
          /\ clock'.verified = pod.verified + 1
      <4>1. clock \in [base : Nat, transferred : Nat, verified : Nat, idle : Int] /\ pod.verified + 1 \in Nat /\ 0 \in Int
        BY <1>0 DEF PullType
      <4> QED
        BY <3>1, <4>1, Zenon
    <3>b. pod'.verified = pod.verified + 1 /\ pod'.count = pod.count
      BY <1>0, <2>5 DEF PullType
    <3>2. PullType'
      BY <1>0, <1>1, <2>3, <3>a, SMTT(30) DEF PullType
    <3>3. ReadInv'
      BY <1>0, <1>1, <2>1, <2>2, <2>3, <3>a, <3>b, SMTT(30) DEF PullType, ReadInv, Attached
    <3>4. ClockInv'
      BY <1>0, <1>1, <2>1, <2>2, <2>3, <3>a, Windows, SMTT(30) DEF PullType, ClockInv
    <3> QED
      BY <3>2, <3>3, <3>4 DEF PullInv
  <2> QED
    BY <1>3, <2>4, <2>5, SMTT(30) DEF Moves
<1> QED
  BY <1>2, <1>3

(* A poll of watch_puller: a fresh pod counts on from what was             *)
(* transferred, and the clock that stalls is the silence.                  *)
LEMMA PollStep ==
    ASSUME PullInv, watch_puller
    PROVE  PullInv'
<1>0. PullType /\ ReadInv /\ ClockInv
  BY DEF PullInv
<1> DEFINE fresh == att.pod \notin {0, listed}
           hold == IF fresh THEN NoHold ELSE att
           carried == IF fresh /\ clock.idle # None THEN next_attempt(clock) ELSE clock
           begun == IF carried.idle = None THEN [carried EXCEPT !.idle = 0] ELSE carried
<1>1. /\ phase = "pull" /\ polled' = TRUE /\ att' \in {att, hold}
      /\ UNCHANGED <<setting, pod, listed, hid>>
      /\ verdict = "none"
  BY <1>0, SMTT(30) DEF watch_puller, ClockInv
<1>2. /\ fresh => ~ Attached /\ clock.idle # None /\ att.pod > 0
      /\ carried.idle = clock.idle
      /\ carried \in [base : Nat, transferred : Nat, verified : Nat, idle : Int]
      /\ carried.transferred = clock.transferred
      /\ ~ fresh => carried = clock
      /\ fresh => carried.base = clock.transferred /\ carried.verified = 0
  <2>1. fresh => ~ Attached /\ clock.idle # None /\ att.pod > 0
    BY <1>0 DEF PullType, ReadInv, ClockInv, Attached
  <2>2. CASE fresh
    <3>1. carried = [clock EXCEPT !.base = clock.transferred, !.verified = 0]
      BY <2>1, <2>2 DEF next_attempt
    <3> HIDE DEF fresh, carried
    <3> QED
      BY <1>0, <2>1, <2>2, <3>1, Zenon DEF PullType
  <2>3. CASE ~ fresh
    <3>1. carried = clock
      BY <2>3
    <3> QED
      BY <1>0, <2>3, <3>1 DEF PullType
  <2> QED
    BY <2>2, <2>3
<1>3. /\ begun \in [base : Nat, transferred : Nat, verified : Nat, idle : Int]
      /\ begun.base = carried.base /\ begun.transferred = carried.transferred
      /\ begun.verified = carried.verified
      /\ clock.idle = None => begun.idle = 0
      /\ clock.idle # None => begun.idle = clock.idle
  BY <1>2, SMTT(30)
<1>4. hold \in [pod : Nat, is : {"none", "following", "dropped", "ended"}] /\ (fresh => hold.pod = 0 /\ hold.is = "none")
      /\ (~ fresh => hold = att)
  BY <1>0, Blanks DEF PullType
<1>5. \/ /\ listed = 0 /\ UNCHANGED <<att, clock, quiet, phase, verdict>>
      \/ /\ listed > 0 /\ att' = hold /\ clock' = carried /\ quiet' = quiet
         /\ UNCHANGED <<phase, verdict>> \/ (phase' = "over" /\ verdict' \in {"unschedulable", "image"})
      \/ /\ listed > 0 /\ att' = hold /\ clock' = begun
         /\ quiet' = IF clock.idle = None THEN 0 ELSE quiet
         /\ \/ UNCHANGED <<phase, verdict>>
            \/ begun.idle = STALL_WINDOW /\ phase' = "over" /\ verdict' \in Stalled
  BY <1>0 DEF watch_puller, StartWatch_observe, Return, Stay, Stall, Expired
<1> HIDE DEF fresh, hold, carried, begun
<1>6. PullType'
  BY <1>0, <1>1, <1>2, <1>3, <1>4, <1>5, Windows, SMTT(30) DEF PullType
<1>7. ReadInv'
  BY <1>0, <1>1, <1>2, <1>3, <1>4, <1>5, SMTT(30) DEF PullType, ReadInv, Attached
<1>8. ClockInv'
  BY <1>0, <1>1, <1>2, <1>3, <1>4, <1>5, Windows DEF PullType, ClockInv
<1> QED
  BY <1>6, <1>7, <1>8 DEF PullInv

(* A stream that opens replays what moved out of its sight, and nothing    *)
(* that it had read already is a rise.                                     *)
LEMMA FollowStep ==
    ASSUME PullInv, follow
    PROVE  PullInv'
<1>0. PullType /\ ReadInv /\ ClockInv
  BY DEF PullInv
<1>1. /\ phase = "pull" /\ listed > 0 /\ att.pod \in {0, listed} /\ clock.idle # None
      /\ att.is # "following"
      /\ UNCHANGED <<setting, phase, verdict, pod, listed>>
  BY DEF follow
<1>2. CASE UNCHANGED <<clock, quiet, hid>> /\ att' \in {[pod |-> listed, is |-> "dropped"], [pod |-> listed, is |-> "ended"]}
            /\ (att'.is = "dropped" \/ listed # pod.n)
  <2>1. att'.pod = listed /\ att'.is # "following" /\ att' \in [pod : Nat, is : {"none", "following", "dropped", "ended"}]
    BY <1>0, <1>2 DEF PullType
  <2>2. PullType'
    BY <1>0, <1>1, <1>2, <2>1, SMTT(30) DEF PullType
  <2>3. ReadInv'
    BY <1>0, <1>1, <1>2, <2>1, SMTT(30) DEF PullType, ReadInv, Attached
  <2>4. ClockInv'
    BY <1>0, <1>1, <1>2, SMTT(30) DEF PullType, ClockInv
  <2> QED
    BY <2>2, <2>3, <2>4 DEF PullInv
<1>3. CASE /\ listed = pod.n
           /\ att' = [pod |-> listed, is |-> IF pod.is = "running" THEN "following" ELSE "ended"]
           /\ clock' = read(pod.count, pod.verified)
           /\ quiet' = IF hid THEN 0 ELSE quiet
           /\ hid' = FALSE
  <2>1. att'.pod = listed /\ att' \in [pod : Nat, is : {"none", "following", "dropped", "ended"}]
    BY <1>0, <1>3 DEF PullType
  <2>2. /\ clock \in [base : Nat, transferred : Nat, verified : Nat, idle : Int]
        /\ pod.count \in Nat /\ pod.verified \in Nat /\ clock.base + pod.count \in Nat
    BY <1>0, SMTT(30) DEF PullType
  <2>3. /\ clock.transferred <= clock.base + pod.count /\ clock.verified <= pod.verified
        /\ hid => clock.transferred < clock.base + pod.count \/ clock.verified < pod.verified
        /\ ~ hid => clock.transferred = clock.base + pod.count /\ clock.verified = pod.verified
    BY <1>0, <1>1, <1>3, <2>2 DEF PullType, ReadInv, Attached
  <2> DEFINE at == clock.base + pod.count
             Read(i) == /\ clock' \in [base : Nat, transferred : Nat, verified : Nat, idle : Int]
                        /\ clock'.base = clock.base /\ clock'.transferred = at
                        /\ clock'.verified = pod.verified /\ clock'.idle = i
  <2>a. at \in Nat /\ 0 \in Int
    BY <2>2
  <2>b. /\ clock.transferred < at => observe(pod.count) = [clock EXCEPT !.transferred = at, !.idle = 0]
        /\ clock.transferred = at => observe(pod.count) = clock
    BY <2>2 DEF observe
  <2>c. clock' = IF pod.verified > clock.verified
                 THEN [observe(pod.count) EXCEPT !.verified = pod.verified, !.idle = 0]
                 ELSE observe(pod.count)
    BY <1>3 DEF read
  <2>d. ASSUME hid PROVE Read(0)
    <3> HIDE DEF at
    <3>1. CASE clock.transferred < at /\ clock.verified < pod.verified
      <4>1. clock' = [[clock EXCEPT !.transferred = at, !.idle = 0] EXCEPT !.verified = pod.verified, !.idle = 0]
        BY <2>2, <2>b, <2>c, <3>1, Zenon
      <4> QED
        BY <4>1, <2>2, <2>a, Zenon
    <3>2. CASE clock.transferred < at /\ clock.verified = pod.verified
      <4>1. clock' = [clock EXCEPT !.transferred = at, !.idle = 0]
        BY <2>2, <2>b, <2>c, <3>2
      <4> QED
        BY <4>1, <3>2, <2>2, <2>a, Zenon
    <3>3. CASE clock.transferred = at /\ clock.verified < pod.verified
      <4>1. clock' = [clock EXCEPT !.verified = pod.verified, !.idle = 0]
        BY <2>2, <2>b, <2>c, <3>3, Zenon
      <4> QED
        BY <4>1, <3>3, <2>2, <2>a, Zenon
    <3> QED
      BY <2>2, <2>3, <2>a, <2>d, <3>1, <3>2, <3>3 DEF at
  <2>e. ASSUME ~ hid PROVE Read(clock.idle)
    <3>1. clock' = clock
      BY <2>2, <2>3, <2>a, <2>b, <2>c, <2>e, SMTT(30)
    <3> QED
      BY <3>1, <2>2, <2>3, <2>e
  <2>4. /\ clock' \in [base : Nat, transferred : Nat, verified : Nat, idle : Int]
        /\ clock'.base = clock.base /\ clock'.transferred = clock.base + pod.count
        /\ clock'.verified = pod.verified
        /\ clock'.idle = IF hid THEN 0 ELSE clock.idle
    BY <2>d, <2>e
  <2>5. quiet' = (IF hid THEN 0 ELSE quiet) /\ ~ hid'
    BY <1>3
  <2>6. PullType'
    BY <1>0, <1>1, <2>1, <2>4, <2>5, SMTT(30) DEF PullType
  <2>7. ReadInv'
    BY <1>0, <1>1, <1>3, <2>1, <2>4, <2>5, SMTT(30) DEF PullType, ReadInv, Attached
  <2>8. ClockInv'
    BY <1>0, <1>1, <2>1, <2>4, <2>5, Windows, SMTT(30) DEF PullType, ClockInv
  <2> QED
    BY <2>6, <2>7, <2>8 DEF PullInv
<1>4. ASSUME UNCHANGED <<clock, quiet, hid>>,
             att' = [pod |-> listed, is |-> "dropped"] \/ (listed # pod.n /\ att' = [pod |-> listed, is |-> "ended"])
      PROVE  PullInv'
  BY <1>2, <1>4
<1> QED
  BY <1>3, <1>4, Zenon DEF follow

(* A unit passes: the clock and the silence age together.                  *)
LEMMA TickStep ==
    ASSUME PullInv, Tick
    PROVE  PullInv'
<1>0. PullType /\ ReadInv /\ ClockInv
  BY DEF PullInv
<1>1. /\ UNCHANGED <<setting, phase, verdict, pod, listed, att, hid>> /\ phase # "over"
      /\ clock' = [clock EXCEPT !.idle = Older(clock.idle, STALL_WINDOW)]
      /\ quiet' = Older(quiet, STALL_WINDOW + 1)
  BY DEF Tick
<1>2. Older(clock.idle, STALL_WINDOW) \in Int /\ quiet' \in Nat
  BY <1>0, <1>1, Windows DEF PullType, Older
<1>3. /\ clock' \in [base : Nat, transferred : Nat, verified : Nat, idle : Int]
      /\ clock'.base = clock.base /\ clock'.transferred = clock.transferred
      /\ clock'.verified = clock.verified /\ clock'.idle = Older(clock.idle, STALL_WINDOW)
  BY <1>0, <1>1, <1>2 DEF PullType
<1>4. PullType'
  BY <1>0, <1>1, <1>2, <1>3 DEF PullType
<1>5. ReadInv'
  BY <1>0, <1>1, <1>3 DEF PullType, ReadInv, Attached
<1>6. ClockInv'
  BY <1>0, <1>1, <1>2, <1>3, Windows DEF PullType, ClockInv, Older
<1> QED
  BY <1>4, <1>5, <1>6 DEF PullInv

-----------------------------------------------------------------------------
(* The snapshot *)

SeenType == [bound : BOOLEAN, stamp : Nat, snap : [name : Nat, bytes : Nat], idle : Nat]

SnapType ==
    /\ setting \in SettingType /\ phase \in {"pull", "snapshot", "over"}
    /\ vsnap \in [bound : BOOLEAN, stamp : Nat, ready : BOOLEAN]
    /\ file \in [name : Nat, bytes : Nat]
    /\ seen \in SeenType
    /\ still \in Nat

(* The snapshot moved since the last poll.                                 *)
Grown(s, f) == s # NoFile /\ (s.name # f.name \/ f.bytes > s.bytes)
Unseen ==
    \/ Unread
    \/ metered /\ Grown(seen.snap, file)

(* What was seen is no later than what there is.                           *)
BehindInv ==
    /\ seen.bound => vsnap.bound
    /\ seen.stamp <= vsnap.stamp
    /\ seen.snap # NoFile => file # NoFile
    /\ seen.snap.name <= file.name
    /\ seen.snap.name = file.name => seen.snap.bytes <= file.bytes
    /\ metered => setting.driver = "hostpath"

(* The clock of the watch is the silence there is, give or take the motion *)
(* that a later poll will see; where every read of the status answers, that *)
(* is the next one, and the clock lags by a unit at most.                  *)
StillInv ==
    /\ metered \/ setting.driver = "cow" => seen.idle <= still \/ Unseen
    /\ ~ setting.gets => still <= seen.idle + 1
    /\ ~ setting.gets /\ Unseen => still <= IF polled THEN 0 ELSE 1
    /\ phase = "pull" => still = 0 /\ seen.idle = 0 /\ ~ Unseen
    /\ seen.idle <= BLIND_STALL /\ still <= BLIND_STALL + 1
    /\ verdict \in {"unbound", "silent"} /\ (metered \/ setting.driver = "cow")
           => still >= BLIND_STALL \/ Unread
    /\ verdict = "no_bytes" => still >= METERED_STALL \/ Unread

SnapInv == SnapType /\ BehindInv /\ StillInv

LEMMA InitSnap == WatchInit => SnapInv
<1> SUFFICES ASSUME WatchInit
             PROVE  SnapInv
  OBVIOUS
<1>1. /\ setting \in SettingType /\ phase = "pull" /\ verdict = "none"
      /\ vsnap = [bound |-> FALSE, stamp |-> 0, ready |-> FALSE]
      /\ file = [name |-> 1, bytes |-> 1] \/ file = NoFile
      /\ seen = [bound |-> FALSE, stamp |-> 0, snap |-> NoFile, idle |-> 0]
      /\ (metered <=> setting.driver = "hostpath") /\ still = 0
  BY SeedWatchAssumption, Zenon DEF WatchInit
<1>2. NoFile \in [name : Nat, bytes : Nat] /\ file \in [name : Nat, bytes : Nat]
  BY <1>1 DEF NoFile
<1>3. SnapType
  BY <1>1, <1>2, SMTT(30) DEF SnapType, SeenType
<1>4. BehindInv
  BY <1>1, <1>2, <1>3, SMTT(30) DEF BehindInv, NoFile
<1>5. ~ Unseen
  BY <1>1 DEF Unseen, Grown
<1>6. StillInv
  <2>1. seen.idle = 0 /\ still = 0 /\ verdict = "none"
    BY <1>1
  <2>2. 0 <= BLIND_STALL /\ 0 <= BLIND_STALL + 1
    BY Windows
  <2> QED
    BY <1>5, <2>1, <2>2 DEF StillInv
<1> QED
  BY <1>3, <1>4, <1>6, SMTT(30) DEF SnapInv

(* While the seed is pulled, its snapshot is not looked at.                *)
LEMMA PullSide ==
    ASSUME SnapInv, phase = "pull", phase' \in {"pull", "snapshot", "over"}, UNCHANGED <<setting, copy>>,
           verdict' \notin {"unbound", "silent", "no_bytes"}
    PROVE  SnapInv'
<1>1. UNCHANGED <<vsnap, file, seen, metered, still, setting>>
  BY DEF copy
<1>2. Unseen' <=> Unseen
  BY <1>1 DEF Unseen, Grown
<1>3. SnapType' /\ BehindInv'
  BY <1>1 DEF SnapInv, SnapType, BehindInv
<1>4. StillInv'
  BY <1>1, <1>2, Windows DEF SnapInv, StillInv
<1> QED
  BY <1>3, <1>4 DEF SnapInv

LEMMA PullSteps ==
    ASSUME PullInv, SnapInv,
           NewPod \/ Place \/ Exits \/ Settles \/ Drops \/ Moves \/ watch_puller \/ follow
    PROVE  SnapInv'
<1>1. phase = "pull" /\ UNCHANGED <<setting, copy>>
  BY DEF NewPod, Place, Exits, Settles, Drops, Moves, watch_puller, follow, copy
<1>2. verdict = "none"
  BY <1>1 DEF PullInv, ClockInv
<1>3. phase' \in {"pull", "snapshot", "over"} /\ verdict' \notin {"unbound", "silent", "no_bytes"}
  <2>1. CASE NewPod \/ Place \/ Exits \/ Drops \/ Moves \/ follow
    BY <1>1, <1>2, <2>1, SMTT(30) DEF NewPod, Place, Exits, Drops, Moves, follow
  <2>2. CASE Settles
    BY <1>2, <2>2, SMTT(30) DEF Settles
  <2>3. CASE watch_puller
    BY <1>1, <1>2, <2>3 DEF watch_puller, StartWatch_observe, Return, Stay, Stall
  <2> QED
    BY <2>1, <2>2, <2>3, SMTT(30)
<1> QED
  BY <1>1, <1>3, PullSide, SMTT(30)

(* The snapshot moves: the next poll will see it, or it is the baseline.   *)
LEMMA CopyStep ==
    ASSUME SnapInv, PullInv, Copies
    PROVE  SnapInv'
<1>0. SnapType /\ BehindInv /\ StillInv /\ verdict = "none"
  BY DEF SnapInv, PullInv, ClockInv, Copies
<1>1. phase = "snapshot" /\ UNCHANGED <<setting, phase, verdict, polled, seen, metered>>
  BY DEF Copies
<1>2. CASE ~ vsnap.bound /\ vsnap' = [vsnap EXCEPT !.bound = TRUE] /\ still' = 0 /\ UNCHANGED file
  <2>1. vsnap' \in [bound : BOOLEAN, stamp : Nat, ready : BOOLEAN] /\ vsnap'.bound /\ vsnap'.stamp = vsnap.stamp
    BY <1>0, <1>2, Zenon DEF SnapType
  <2>2. SnapType' /\ BehindInv'
    BY <1>0, <1>1, <1>2, <2>1 DEF SnapType, BehindInv
  <2>3. Unseen'
    BY <1>0, <1>1, <1>2, <2>1, Zenon DEF Unseen, BehindInv
  <2>4. StillInv'
    BY <1>0, <1>1, <1>2, <2>3, Windows DEF StillInv, SnapType, SeenType
  <2> QED
    BY <2>2, <2>4 DEF SnapInv
<1>3. CASE vsnap' = [vsnap EXCEPT !.stamp = @ + 1] /\ still' = 0 /\ UNCHANGED file
  <2>1. vsnap' \in [bound : BOOLEAN, stamp : Nat, ready : BOOLEAN] /\ vsnap'.bound = vsnap.bound /\ vsnap'.stamp = vsnap.stamp + 1
    BY <1>0, <1>3 DEF SnapType
  <2>2. SnapType' /\ BehindInv'
    BY <1>0, <1>1, <1>3, <2>1 DEF SnapType, BehindInv, SeenType
  <2>3. Unseen'
    BY <1>0, <1>1, <1>3, <2>1 DEF Unseen, BehindInv, SnapType, SeenType
  <2>4. StillInv'
    BY <1>0, <1>1, <1>3, <2>3, Windows DEF StillInv, SnapType, SeenType
  <2> QED
    BY <2>2, <2>4 DEF SnapInv
<1>4. CASE /\ setting.driver = "hostpath" /\ vsnap.bound
           /\ IF file.name < 2 THEN file' = [name |-> 2, bytes |-> 1]
                               ELSE file.bytes < 2 /\ file' = [file EXCEPT !.bytes = @ + 1]
           /\ still' = IF seen.snap = NoFile THEN still ELSE 0
           /\ UNCHANGED vsnap
  <2>0. seen.snap \in [name : Nat, bytes : Nat] /\ file \in [name : Nat, bytes : Nat]
    BY <1>0 DEF SnapType, SeenType
  <2>1. /\ file' \in [name : Nat, bytes : Nat]
        /\ \/ file.name < 2 /\ file'.name = 2 /\ file'.bytes = 1
           \/ file.name >= 2 /\ file'.name = file.name /\ file'.bytes = file.bytes + 1
    BY <2>0, <1>4
  <2>2. SnapType'
    BY <1>0, <1>1, <1>4, <2>1 DEF SnapType
  <2>3. BehindInv'
    BY <1>0, <1>1, <1>4, <2>0, <2>1, SMTT(30) DEF BehindInv, NoFile
  <2>4. seen.snap # NoFile => Grown(seen.snap, file')
    BY <1>0, <2>0, <2>1 DEF Grown, BehindInv
  <2>5. CASE seen.snap = NoFile
    <3>1. Unseen' <=> Unseen
      BY <1>1, <1>4, <2>5, Zenon DEF Unseen, Grown
    <3>2. StillInv'
      BY <1>0, <1>1, <1>4, <2>5, <3>1, SMTT(30) DEF StillInv
    <3> QED
      BY <2>2, <2>3, <3>2 DEF SnapInv
  <2>6. CASE seen.snap # NoFile
    <3>1. metered => Unseen'
      BY <1>1, <2>4, <2>6 DEF Unseen
    <3>2. StillInv'
      BY <1>0, <1>1, <1>4, <2>6, <3>1, Windows, SMTT(30) DEF StillInv, SnapType, SeenType
    <3> QED
      BY <2>2, <2>3, <3>2 DEF SnapInv
  <2> QED
    BY <2>5, <2>6
<1> QED
  BY <1>2, <1>3, <1>4 DEF Copies

LEMMA ReadyStep ==
    ASSUME SnapInv, PullInv, Ready
    PROVE  SnapInv'
<1>0. SnapType /\ BehindInv /\ StillInv
  BY DEF SnapInv
<1>1. /\ phase' = "over" /\ verdict' = "ready" /\ vsnap' = [vsnap EXCEPT !.ready = TRUE]
      /\ UNCHANGED <<setting, polled, file, seen, metered, still>>
  BY DEF Ready
<1>2. vsnap' \in [bound : BOOLEAN, stamp : Nat, ready : BOOLEAN] /\ vsnap'.bound = vsnap.bound /\ vsnap'.stamp = vsnap.stamp
  BY <1>0, <1>1, Zenon DEF SnapType
<1>3. SnapType' /\ BehindInv'
  BY <1>0, <1>1, <1>2 DEF SnapType, BehindInv
<1>4. Unseen' <=> Unseen
  BY <1>1, <1>2 DEF Unseen
<1>5. StillInv'
  BY <1>0, <1>1, <1>4 DEF StillInv
<1> QED
  BY <1>3, <1>5 DEF SnapInv

(* A unit passes.                                                          *)
LEMMA AgeStep ==
    ASSUME SnapInv, PullInv, Tick
    PROVE  SnapInv'
<1>0. SnapType /\ BehindInv /\ StillInv /\ verdict = "none" /\ phase # "over"
  BY DEF SnapInv, PullInv, ClockInv, Tick
<1>1. /\ UNCHANGED <<setting, phase, verdict, vsnap, file, metered>> /\ ~ polled'
      /\ ~ setting.gets => polled
  BY DEF Tick, Unlisted
<1>2. CASE phase = "pull"
  <2>1. seen' = [seen EXCEPT !.idle = seen.idle] /\ still' = still
    BY <1>2 DEF Tick
  <2>2. seen' = seen
    BY <1>0, <2>1 DEF SnapType, SeenType
  <2> QED
    BY <1>1, <1>2, <2>1, <2>2, <1>0, PullSide DEF copy
<1>3. CASE phase = "snapshot"
  <2>1. seen' = [seen EXCEPT !.idle = Older(seen.idle, BLIND_STALL)] /\ still' = Older(still, BLIND_STALL + 1)
    BY <1>3 DEF Tick
  <2>2. Older(seen.idle, BLIND_STALL) \in Nat /\ still' \in Nat
    BY <1>0, <2>1, Windows DEF Older, SnapType, SeenType
  <2>3. /\ seen' \in SeenType /\ seen'.bound = seen.bound /\ seen'.stamp = seen.stamp
        /\ seen'.snap = seen.snap /\ seen'.idle = Older(seen.idle, BLIND_STALL)
    BY <1>0, <2>1, <2>2, SMTT(30) DEF SnapType, SeenType
  <2>4. SnapType' /\ BehindInv'
    BY <1>0, <1>1, <2>2, <2>3, SMTT(30) DEF SnapType, BehindInv
  <2>5. Unseen' <=> Unseen
    BY <1>1, <2>3 DEF Unseen
  <2>6. StillInv'
    BY <1>0, <1>1, <1>3, <2>1, <2>2, <2>3, <2>5, Windows, SMTT(30) DEF StillInv, Older, SnapType, SeenType
  <2> QED
    BY <2>4, <2>6 DEF SnapInv
<1> QED
  BY <1>0, <1>2, <1>3 DEF SnapType

(* What one turn of snapshot::watch does to its clock, and what it says.   *)
LEMMA Turn ==
    ASSUME SnapInv, snapshot_watch
    PROVE  /\ metered' => metered
           /\ seen' \in SeenType
           /\ \/ seen'.bound = vsnap.bound /\ seen'.stamp = vsnap.stamp
              \/ setting.gets /\ seen'.bound = seen.bound /\ seen'.stamp = seen.stamp
           /\ seen'.snap = IF metered' /\ file # NoFile THEN file ELSE seen.snap
           /\ \/ seen'.idle = 0 /\ Unseen
              \/ seen'.idle = seen.idle /\ (Unseen => (metered /\ ~ metered') \/ Unread')
           /\ \/ phase' = "over" /\ verdict' = "driver"
              \/ /\ seen'.idle >= window(seen', metered')
                 /\ phase' = "over" /\ verdict' = Fault(seen', metered')
              \/ seen'.idle < window(seen', metered') /\ UNCHANGED <<phase, verdict>>
<1>0. SnapType /\ BehindInv
  BY DEF SnapInv
<1>1. PICK got \in {TRUE} \cup (IF setting.gets THEN {FALSE} ELSE {}),
           read_fails \in {FALSE} \cup (IF setting.execs /\ metered THEN {TRUE} ELSE {}) :
          LET reads == metered /\ ~read_fails
              status == IF ~got THEN seen
                        ELSE [seen EXCEPT !.bound = vsnap.bound, !.stamp = vsnap.stamp,
                                 !.idle = IF Unread THEN 0 ELSE @]
              next == IF reads /\ file # NoFile THEN meter(status, file) ELSE status
          IN /\ metered' = reads
             /\ seen' = next
             /\ \/ got /\ vsnap.stamp > 0 /\ Return("driver")
                \/ IF next.idle >= window(next, reads) THEN Return(Fault(next, reads)) ELSE Stay
  BY Zenon DEF snapshot_watch
<1> DEFINE reads == metered /\ ~read_fails
           told == [seen EXCEPT !.bound = vsnap.bound, !.stamp = vsnap.stamp,
                        !.idle = IF Unread THEN 0 ELSE @]
           status == IF ~got THEN seen ELSE told
<1>2. metered' = reads
  BY <1>1
<1>3. seen' = IF reads /\ file # NoFile THEN meter(status, file) ELSE status
  BY <1>1
<1>4. \/ Return("driver")
      \/ seen'.idle >= window(seen', metered') /\ Return(Fault(seen', metered'))
      \/ ~ (seen'.idle >= window(seen', metered')) /\ Stay
  BY <1>1
<1>5. metered' <=> reads
  BY <1>2, Zenon
<1>a. /\ told \in SeenType /\ told.bound = vsnap.bound /\ told.stamp = vsnap.stamp
      /\ told.snap = seen.snap /\ told.idle = IF Unread THEN 0 ELSE seen.idle
  BY <1>0, Zenon DEF SnapType, SeenType
<1>b. vsnap' = vsnap /\ (got \/ setting.gets)
  BY Zenon DEF snapshot_watch
<1>6. /\ status \in SeenType /\ status.snap = seen.snap
      /\ \/ /\ status.bound = vsnap.bound /\ status.stamp = vsnap.stamp
            /\ status.idle = IF Unread THEN 0 ELSE seen.idle
         \/ setting.gets /\ status.bound = seen.bound /\ status.stamp = seen.stamp
            /\ status.idle = seen.idle
  BY <1>0, <1>a, <1>b DEF SnapType
<1> HIDE DEF told, status
<1>7. CASE reads /\ file # NoFile
  <2>1. seen' = [status EXCEPT !.snap = file,
                     !.idle = IF Grown(seen.snap, file) THEN 0 ELSE status.idle]
    BY <1>3, <1>6, <1>7 DEF meter, Grown
  <2>2. /\ seen' \in SeenType /\ seen'.bound = status.bound /\ seen'.stamp = status.stamp
        /\ seen'.snap = file
        /\ seen'.idle = IF Grown(seen.snap, file) THEN 0 ELSE status.idle
    BY <1>0, <1>6, <2>1, Zenon DEF SnapType, SeenType
  <2>3. \/ seen'.idle = 0 /\ Unseen
        \/ seen'.idle = seen.idle /\ (Unseen => Unread')
    BY <1>b, <1>6, <1>7, <2>2, Zenon DEF Unseen
  <2>4. window(seen', metered') \in Nat /\ seen'.idle \in Nat
    BY <2>2, Windows DEF window, SeenType
  <2>5. \/ phase' = "over" /\ verdict' = "driver"
        \/ /\ seen'.idle >= window(seen', metered')
           /\ phase' = "over" /\ verdict' = Fault(seen', metered')
        \/ seen'.idle < window(seen', metered') /\ UNCHANGED <<phase, verdict>>
    BY <1>4, <2>4 DEF Return, Stay
  <2>6. metered' /\ metered /\ file # NoFile
    BY <1>5, <1>7, SMTT(30)
  <2> QED
    BY <1>6, <2>2, <2>3, <2>5, <2>6, Zenon
<1>8. CASE ~ (reads /\ file # NoFile)
  <2>1. seen' = status
    BY <1>3, <1>8, SMTT(30)
  <2>2. \/ seen'.idle = 0 /\ Unseen
        \/ seen'.idle = seen.idle /\ (Unseen => (metered /\ ~ metered') \/ Unread')
    BY <1>0, <1>b, <1>5, <1>6, <1>8, <2>1, SMTT(30) DEF Unseen, BehindInv, Grown
  <2>3. window(seen', metered') \in Nat /\ seen'.idle \in Nat
    BY <1>6, <2>1, Windows DEF window, SeenType
  <2>4. \/ phase' = "over" /\ verdict' = "driver"
        \/ /\ seen'.idle >= window(seen', metered')
           /\ phase' = "over" /\ verdict' = Fault(seen', metered')
        \/ seen'.idle < window(seen', metered') /\ UNCHANGED <<phase, verdict>>
    BY <1>4, <2>3 DEF Return, Stay
  <2>5. (metered' => metered) /\ ~ (metered' /\ file # NoFile)
    BY <1>5, <1>8
  <2> QED
    BY <1>6, <2>1, <2>2, <2>4, <2>5
<1> QED
  BY <1>7, <1>8

LEMMA WatchStep ==
    ASSUME SnapInv, PullInv, snapshot_watch
    PROVE  SnapInv'
<1>0. SnapType /\ BehindInv /\ StillInv /\ verdict = "none"
  BY DEF SnapInv, PullInv, ClockInv, snapshot_watch
<1>1. phase = "snapshot" /\ ~ polled /\ polled' /\ UNCHANGED <<setting, vsnap, file, still>>
  BY DEF snapshot_watch
<1>2. SnapType'
  BY <1>0, <1>1, Turn, SMTT(30) DEF SnapType
<1>3. BehindInv'
  BY <1>0, <1>1, Turn, SMTT(30) DEF SnapType, SeenType, BehindInv
<1>4. (Unseen' <=> Unread') /\ (~ setting.gets => ~ Unread')
  BY <1>0, <1>1, Turn, SMTT(30) DEF SnapType, SeenType, BehindInv, Unseen, Grown
<1>5. metered' \/ setting'.driver = "cow" => seen'.idle <= still \/ Unread'
  BY <1>0, <1>1, Turn, SMTT(30) DEF SnapType, SeenType, BehindInv, StillInv
<1>6. (~ setting.gets => still <= seen'.idle + 1) /\ seen'.idle <= BLIND_STALL
  BY <1>0, <1>1, <1>4, Turn, Windows, SMTT(30) DEF SnapType, SeenType, StillInv
<1>7. /\ verdict' \in {"unbound", "silent"} => seen'.idle >= BLIND_STALL
      /\ verdict' = "no_bytes" => metered' /\ seen'.idle >= METERED_STALL
  BY <1>0, Turn, SMTT(30) DEF Fault, window
<1>8. StillInv'
  BY <1>0, <1>1, <1>2, <1>4, <1>5, <1>6, <1>7, Turn, Windows, SMTT(30) DEF StillInv, SnapType, SeenType
<1> QED
  BY <1>2, <1>3, <1>8 DEF SnapInv

-----------------------------------------------------------------------------
WatchInv == PullInv /\ SnapInv

(* The snapshot's steps touch nothing of the pull.                         *)
LEMMA PullKept ==
    ASSUME PullInv, SnapInv, Copies \/ Ready \/ snapshot_watch
    PROVE  PullInv'
<1>1. UNCHANGED <<setting, pull>> /\ phase = "snapshot" /\ verdict = "none"
  BY Zenon DEF Copies, Ready, snapshot_watch, pull, PullInv, ClockInv
<1>2. UNCHANGED <<setting, pod, listed, att, clock, quiet, hid>>
  BY <1>1 DEF pull
<1>3. phase' \in {"snapshot", "over"} /\ verdict' \notin Stalled /\ (phase' # "over" => verdict' = "none")
  <2>1. CASE Copies \/ Ready
    BY <1>1, <2>1, SMTT(30) DEF Copies, Ready
  <2>2. CASE snapshot_watch
    BY <1>1, <2>2, Turn DEF Fault
  <2> QED
    BY <2>1, <2>2
<1>4. PullType'
  BY <1>2, <1>3, SMTT(30) DEF PullInv, PullType
<1>5. ReadInv'
  BY <1>2 DEF PullInv, ReadInv, Attached
<1>6. ClockInv'
  BY <1>2, <1>3 DEF PullInv, ClockInv
<1> QED
  BY <1>4, <1>5, <1>6 DEF PullInv

LEMMA WatchStepInv == WatchInv /\ [WatchNext]_watch_vars => WatchInv'
<1> SUFFICES ASSUME PullInv, SnapInv, [WatchNext]_watch_vars
             PROVE  PullInv' /\ SnapInv'
  BY DEF WatchInv
<1>1. CASE NewPod \/ Place \/ Exits \/ Settles \/ Drops \/ Moves \/ watch_puller \/ follow
  BY <1>1, PodStep, MoveStep, PollStep, FollowStep, PullSteps
<1>2. CASE Copies \/ Ready \/ snapshot_watch
  BY <1>2, PullKept, CopyStep, ReadyStep, WatchStep
<1>3. CASE Tick
  BY <1>3, TickStep, AgeStep
<1>4. CASE UNCHANGED watch_vars
  <2>1. UNCHANGED <<setting, phase, verdict, polled, pod, listed, att, clock, quiet, hid, vsnap, file, seen,
                    metered, still>>
    BY <1>4, SMTT(30) DEF watch_vars, pull, copy
  <2>2. PullInv'
    BY <2>1, SMTT(30) DEF PullInv, PullType, ReadInv, ClockInv, Attached
  <2>3. Unseen' <=> Unseen
    BY <2>1, SMTT(30) DEF Unseen, Grown
  <2>4. SnapInv'
    BY <2>1, <2>3 DEF SnapInv, SnapType, BehindInv, StillInv
  <2> QED
    BY <2>2, <2>4
<1> QED
  BY <1>1, <1>2, <1>3, <1>4 DEF WatchNext

(* A stall is silence (progress::Liveness, snapshot::Liveness): whatever   *)
(* the windows, the size of the pull and the attempts of the Job, a watch  *)
(* that calls the pull or the snapshot dead saw nothing move for a window, *)
(* though its last reads may have failed to show it a change.              *)
THEOREM StallProved == WatchSpec => []StallIsSilent
<1>1. WatchInv => StallIsSilent
  BY DEF WatchInv, PullInv, ClockInv, SnapInv, StillInv, StallIsSilent
<1>2. WatchInit => WatchInv
  BY InitPull, InitSnap DEF WatchInv
<1> QED
  BY <1>1, <1>2, WatchStepInv, PTL DEF WatchSpec

(* Silence is a stall (watch_puller, snapshot::watch): for every window, no *)
(* poll that is given its pod leaves a pull that ran alive, and none, where *)
(* the status can be read, a snapshot, once nothing has moved for it.      *)
THEOREM SilenceProved == WatchSpec => SilenceEnds
<1> DEFINE Ends ==
        ~polled /\ polled' =>
          /\ phase = "pull" /\ clock.idle # None /\ pod.is \notin Unplaced
                /\ quiet >= STALL_WINDOW => phase' = "over"
          /\ phase = "snapshot" /\ ~setting.gets /\ still > window(seen', metered')
                => phase' = "over"
<1>1. WatchInv /\ [WatchNext]_watch_vars => [Ends]_watch_vars
  <2> SUFFICES ASSUME WatchInv, WatchNext, ~ polled, polled'
               PROVE  /\ phase = "pull" /\ clock.idle # None /\ pod.is \notin Unplaced
                            /\ quiet >= STALL_WINDOW => phase' = "over"
                      /\ phase = "snapshot" /\ ~setting.gets /\ still > window(seen', metered')
                            => phase' = "over"
    OBVIOUS
  <2>1. watch_puller \/ snapshot_watch
    BY Zenon DEF WatchNext, NewPod, Place, Exits, Settles, Drops, Moves, follow, Copies, Ready, Tick
  <2>2. CASE watch_puller
    <3> SUFFICES ASSUME clock.idle # None, pod.is \notin Unplaced, quiet >= STALL_WINDOW
                 PROVE  phase' = "over"
      BY <2>2 DEF watch_puller
    <3>1. clock.idle = STALL_WINDOW /\ listed > 0 /\ listed \in Nat
      BY Windows DEF WatchInv, PullInv, ClockInv, PullType
    <3>2. /\ next_attempt(clock).idle = clock.idle
          /\ clock.idle # None
      BY SMTT(30) DEF WatchInv, PullInv, PullType, next_attempt
    <3> QED
      BY <2>2, <3>1, <3>2 DEF watch_puller, Return, Expired
  <2>3. CASE snapshot_watch
    <3> SUFFICES ASSUME ~ setting.gets, still > window(seen', metered')
                 PROVE  phase' = "over"
      BY <2>3 DEF snapshot_watch
    <3>1. /\ window(seen', metered') \in Nat \ {0} /\ still \in Nat /\ seen.idle \in Nat
          /\ still <= seen.idle + 1 /\ (Unseen => still <= 1)
      BY Windows, SMTT(30) DEF WatchInv, SnapInv, SnapType, SeenType, StillInv, window
    <3>2. seen'.idle = seen.idle
      BY <2>3, <3>1, Turn DEF WatchInv
    <3> QED
      BY <2>3, <3>1, <3>2, Turn DEF WatchInv
  <2> QED
    BY <2>1, <2>2, <2>3
<1>2. WatchInit => WatchInv
  BY InitPull, InitSnap DEF WatchInv
<1> QED
  BY <1>1, <1>2, WatchStepInv, PTL DEF WatchSpec, SilenceEnds
=============================================================================
