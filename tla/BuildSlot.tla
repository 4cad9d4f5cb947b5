----------------------------- MODULE BuildSlot ------------------------------
(***************************************************************************)
(* The startup pc (resource/impls/buildkit.rs): one BuildKit pod, its *)
(* fixed name the lock on the shared build cache, and the ledger           *)
(* reservation that covers it.                                             *)
(*                                                                         *)
(* Every run that compiles on the cluster reads the pod, waits it out or   *)
(* reaps it, reserves the build footprint, creates the pod and waits until *)
(* it is ready; when the build is over it deletes the pod, awaits its      *)
(* absence and releases the reservation.  Each API call is a step.         *)
(***************************************************************************)
EXTENDS Naturals, FiniteSets

CONSTANTS
    Runs,
    Footprints,    \* build reservations the cluster's capacity admits at once
    Crashes,       \* a run's process may die
    Admissions     \* other runs keep being admitted, each reaping orphans first

ASSUME SlotAssumption ==
    /\ Footprints \in Nat \ {0}
    /\ {Crashes, Admissions} \subseteq BOOLEAN

VARIABLES
    pc,       \* where each run's Builder is
    lease,    \* its build reservation
    saw,      \* the pod it last read, or whose deletion it awaits
    pod,      \* the pods of that name there are: none or one
    uid       \* the next pod's uid

slot_vars == <<pc, lease, saw, pod, uid>>

Waiting == {"peek", "check", "wait", "reap", "reaping", "reserve"}
Over == {"done", "failed", "dead"}

\* unknown: the create took effect, but its caller was told that it failed.
Pod == [owner : Runs, uid : Nat, dying : BOOLEAN, unknown : BOOLEAN]

SlotTypeOK ==
    /\ pc \in [Runs -> Waiting \cup Over \cup
                       {"idle", "create", "ready", "build", "delete", "deleting", "release"}]
    /\ lease \in [Runs -> {"none", "live", "expired"}]
    /\ \A r \in Runs : saw[r] \subseteq Pod /\ Cardinality(saw[r]) <= 1
    /\ pod \subseteq Pod /\ Cardinality(pod) <= 1
    /\ uid \in Nat /\ \A p \in pod : p.uid < uid

SlotInit ==
    /\ pc = [r \in Runs |-> "idle"] /\ lease = [r \in Runs |-> "none"]
    /\ saw = [r \in Runs |-> {}] /\ pod = {} /\ uid = 0

Goto(r, l) == pc' = [pc EXCEPT ![r] = l]
SetLease(r, l) == lease' = [lease EXCEPT ![r] = l]
Forget(r) == saw' = [saw EXCEPT ![r] = {}]

\* The pod a run read is there no more.
Gone(r) == \A p \in pod : \A q \in saw[r] : p.uid # q.uid

\* A delete by name: whatever pod has it starts terminating, and its uid is awaited.
DeleteByName(r, after) ==
    /\ pod' = {[p EXCEPT !.dying = TRUE] : p \in pod}
    /\ saw' = [saw EXCEPT ![r] = pod]
    /\ Goto(r, after)
    /\ UNCHANGED <<lease, uid>>

----------------------------------------------------------------------------
(* await_build_slot.                                                       *)

Start(r) ==
    /\ pc[r] = "idle"
    /\ Goto(r, "peek")
    /\ UNCHANGED <<lease, saw, pod, uid>>

Peek(r) ==
    /\ pc[r] = "peek"
    /\ saw' = [saw EXCEPT ![r] = pod]
    /\ Goto(r, IF pod = {} THEN "reserve" ELSE "check")
    /\ UNCHANGED <<lease, pod, uid>>

lease_live(h) == lease[h] = "live"

CheckLease(r) ==
    /\ pc[r] = "check"
    /\ \E p \in saw[r] : Goto(r, IF lease_live(p.owner) THEN "wait" ELSE "reap")
    /\ UNCHANGED <<lease, saw, pod, uid>>

SlotFreed(r) ==
    /\ pc[r] \in {"wait", "reaping"} /\ Gone(r)
    /\ Goto(r, "reserve") /\ Forget(r)
    /\ UNCHANGED <<lease, pod, uid>>

ReapHolder(r) == pc[r] = "reap" /\ DeleteByName(r, "reaping")

----------------------------------------------------------------------------
(* Builder::acquire.                                                       *)

\* ledger::acquire blocks until the footprint fits.
Reserve(r) ==
    /\ pc[r] = "reserve"
    /\ Cardinality({q \in Runs : lease[q] = "live"}) < Footprints
    /\ SetLease(r, "live") /\ Goto(r, "create")
    /\ UNCHANGED <<saw, pod, uid>>

NewPod(r) == [owner |-> r, uid |-> uid, dying |-> FALSE, unknown |-> FALSE]

Created(r) ==
    /\ pc[r] = "create" /\ pod = {}
    /\ pod' = {NewPod(r)} /\ uid' = uid + 1
    /\ Goto(r, "ready")
    /\ UNCHANGED <<lease, saw>>

\* 409: a peer's pod holds the slot.
CreateRaceLost(r) ==
    /\ pc[r] = "create" /\ pod # {}
    /\ SetLease(r, "none") /\ Goto(r, "peek")
    /\ UNCHANGED <<saw, pod, uid>>

\* The reservation is released, whether or not the create took effect.
CreateFails(r) ==
    /\ pc[r] = "create"
    /\ SetLease(r, "none") /\ Goto(r, "failed")
    /\ \/ UNCHANGED <<pod, uid>>
       \/ /\ pod = {}
          /\ pod' = {[NewPod(r) EXCEPT !.unknown = TRUE]} /\ uid' = uid + 1
    /\ UNCHANGED saw

\* A read, the watch, the reaping or the reservation fails.
SlotFails(r) ==
    /\ pc[r] \in Waiting
    /\ Goto(r, "failed")
    /\ UNCHANGED <<lease, saw, pod, uid>>

\* Any pod of the name that turns ready will do.
Ready(r) ==
    /\ pc[r] = "ready" /\ pod # {}
    /\ Goto(r, "build")
    /\ UNCHANGED <<lease, saw, pod, uid>>

\* The pod failed, or READY_TIMEOUT passed: the pc is released.
NotReady(r) ==
    /\ pc[r] = "ready"
    /\ Goto(r, "delete")
    /\ UNCHANGED <<lease, saw, pod, uid>>

----------------------------------------------------------------------------
(* Builder::release.                                                       *)

BuildOver(r) ==
    /\ pc[r] = "build"
    /\ Goto(r, "delete")
    /\ UNCHANGED <<lease, saw, pod, uid>>

DeleteBuilder(r) == pc[r] = "delete" /\ DeleteByName(r, "deleting")

\* A failed delete keeps the lease, unrenewed.
DeleteFails(r) ==
    /\ pc[r] = "delete"
    /\ Goto(r, "failed")
    /\ UNCHANGED <<lease, saw, pod, uid>>

\* Mutant: the reservation goes as soon as the delete is accepted.
Deleted_accepted(r) ==
    /\ pc[r] = "deleting"
    /\ Goto(r, "release") /\ Forget(r)
    /\ UNCHANGED <<lease, pod, uid>>

Deleted(r) ==
    /\ pc[r] = "deleting" /\ Gone(r)
    /\ Goto(r, "release") /\ Forget(r)
    /\ UNCHANGED <<lease, pod, uid>>

\* Mutant: the pc is dropped without releasing its reservation.
Release_dropped(r) ==
    /\ pc[r] = "release"
    /\ Goto(r, "done")
    /\ UNCHANGED <<lease, saw, pod, uid>>

Release(r) ==
    /\ pc[r] = "release"
    /\ SetLease(r, "none") /\ Goto(r, "done")
    /\ UNCHANGED <<saw, pod, uid>>

----------------------------------------------------------------------------
(* The world around the builders.                                          *)

\* The kubelet finishes a deletion.
PodGone ==
    /\ \E p \in pod : p.dying
    /\ pod' = {}
    /\ UNCHANGED <<pc, lease, saw, uid>>

Crash(r) ==
    /\ Crashes /\ pc[r] \notin Over \cup {"idle"}
    /\ Goto(r, "dead") /\ Forget(r)
    /\ UNCHANGED <<lease, pod, uid>>

\* Nobody renews the lease of a dead or failed pc.
Lapse(r) ==
    /\ pc[r] \in {"failed", "dead"} /\ lease[r] = "live"
    /\ SetLease(r, "expired")
    /\ UNCHANGED <<pc, saw, pod, uid>>

\* Another admission reaps the orphan (in one step: Reaper has the detail).
OrphanReaped ==
    /\ Admissions
    /\ \E p \in pod : ~p.dying /\ lease[p.owner] # "live"
    /\ pod' = {[p EXCEPT !.dying = TRUE] : p \in pod}
    /\ UNCHANGED <<pc, lease, saw, uid>>

AllOver ==
    /\ \A r \in Runs : pc[r] \in Over
    /\ UNCHANGED slot_vars

BuilderStep(r) ==
    \/ Start(r) \/ Peek(r) \/ CheckLease(r) \/ SlotFreed(r) \/ ReapHolder(r)
    \/ Reserve(r) \/ Created(r) \/ CreateRaceLost(r) \/ CreateFails(r)
    \/ Ready(r) \/ NotReady(r) \/ BuildOver(r)
    \/ DeleteBuilder(r) \/ DeleteFails(r) \/ Deleted(r) \/ Release(r)

SlotNext ==
    \/ \E r \in Runs : BuilderStep(r) \/ SlotFails(r) \/ Crash(r) \/ Lapse(r)
    \/ PodGone \/ OrphanReaped
    \/ AllOver

SlotSpec == SlotInit /\ [][SlotNext]_slot_vars

\* Builders go on (but no call has to fail), deletions finish, unrenewed leases lapse, and admissions,
\* if there are any, keep coming.
SlotFairSpec ==
    /\ SlotSpec
    /\ \A r \in Runs : WF_slot_vars(BuilderStep(r)) /\ WF_slot_vars(Lapse(r))
    /\ WF_slot_vars(PodGone) /\ WF_slot_vars(OrphanReaped)

----------------------------------------------------------------------------
(* Properties.                                                             *)

\* The reservation covers the pod's whole life: taken before the create,
\* released after the absence (Builder).  Only a lease nobody renews any more,
\* its process dead or its delete failed, is outlived by the pod, and a pod
\* whose create was reported as failed has no reservation.  Nor is one held by a
\* run that waits for the slot (acquire: "a waiter must not hold the build footprint
\* it cannot use").
ReservationCoversPod ==
    /\ \A p \in pod :
          \/ p.unknown
          \/ lease[p.owner] = "live"
          \/ lease[p.owner] = "expired" /\ pc[p.owner] \in {"failed", "dead"}
    /\ \A r \in Runs : pc[r] \in Waiting => lease[r] = "none"

\* Only its own run deletes the pod of a live holder: a waiter waits it out.
LiveHolderKept ==
    [][\A r \in Runs, p \in pod :
          pc[r] \in {"reap", "delete"} /\ pc'[r] \in {"reaping", "deleting"} /\ p.owner # r
              => lease[p.owner] # "live"]_slot_vars

\* Every run that wants to build gets its turn, fails or dies: a crashed or a
\* failed holder does not keep the slot for good.
EveryoneServed ==
    \A r \in Runs : pc[r] = "peek" ~> pc[r] \in Over
=============================================================================
