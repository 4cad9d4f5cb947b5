------------------------------ MODULE Reaper -------------------------------
(***************************************************************************)
(* Who may delete a run's objects, and when.  Three sweeps delete by label *)
(* what they did not create:                                               *)
(*   - reap_orphans, started by every admission (resource/entry.rs);       *)
(*   - reap_run, by a cancelled run on itself (cli/src/run.rs);            *)
(*   - discover + reclaim, `ztest cleanup` (resource/reclaim.rs).          *)
(* All three judge a run by its lease.  They read the lists of objects and *)
(* of leases one call at a time, while the runs go on acquiring leases,    *)
(* creating objects, tearing them down, releasing and crashing.            *)
(*                                                                         *)
(* One sweep is in progress at a time.  A run's objects of one kind are    *)
(* one object.  Runner pods are pods whose test still runs: a settled pod  *)
(* is litter to every sweep.                                               *)
(***************************************************************************)
EXTENDS Naturals

CONSTANTS
    Runs,
    Modes   \* the clusters explored

\* runs: those that start.  litter: those that died before, with all they made.  builds: the
\* runs compile on the cluster first, under a lease of its own and the same id.  holds: --no-cleanup may be given.  sweeps: those that may start.
\* fails: API calls may fail.
ModeType == [runs : SUBSET Runs, litter : SUBSET Runs, builds : BOOLEAN, holds : BOOLEAN,
             sweeps : SUBSET {"orphans", "cancel", "cleanup"}, fails : BOOLEAN]

ASSUME ModesAssumption == Modes \subseteq ModeType

VARIABLES
    mode,         \* the member of Modes explored
    phase,        \* where each run is in its life
    lease,        \* its ledger lease
    objs,         \* the kinds of its objects that exist
    dying,        \* those whose delete was accepted and is not finished
    no_cleanup,   \* started with `--no-cleanup`: its namespaces and pods carry a hold
    held,         \* that hold has not run out
    s,            \* the sweep in progress
    steady,       \* history: runs whose lease was live ever since the sweep began
    over          \* history: runs that were over when it began

life == <<phase, lease, objs, dying, no_cleanup, held>>
reaper_vars == <<mode, life, s, steady, over>>

\* Test namespaces, runner pods, the build pod and seed-binding contents.
Kinds == {"ns", "pod", "build", "vsc"}
Consumers == {"ns", "pod", "build"}
Labelled == {"ns", "pod"}

Idle == [pc |-> "idle", listed |-> {}, seen |-> {}, live |-> {}, todo |-> {},
         cur |-> {}, left |-> {}, failed |-> FALSE, force |-> FALSE]

AllKinds == Kinds \cup {"lease"}

ReaperInit ==
    /\ mode \in Modes
    /\ phase = [r \in Runs |-> IF r \in mode.litter THEN "dead" ELSE "idle"]
    /\ lease = [r \in Runs |-> IF r \in mode.litter THEN "live" ELSE "none"]
    /\ objs = [r \in Runs |-> IF r \in mode.litter THEN {"ns", "pod", "vsc"} ELSE {}]
    /\ dying = [r \in Runs |-> {}]
    /\ no_cleanup \in [Runs -> IF mode.holds THEN BOOLEAN ELSE {FALSE}]
    /\ held = no_cleanup
    /\ s = Idle /\ steady = {} /\ over = {}

Outcomes == IF mode.fails THEN BOOLEAN ELSE {TRUE}

----------------------------------------------------------------------------
(* The runs.                                                               *)

SetLease(r, l) == lease' = [lease EXCEPT ![r] = l]

Remove(r, k) ==
    /\ objs' = [objs EXCEPT ![r] = @ \ {k}]
    /\ dying' = [dying EXCEPT ![r] = @ \ {k}]

Acquire(r) ==
    /\ \/ phase[r] = "idle" /\ phase' = [phase EXCEPT ![r] = IF mode.builds THEN "build" ELSE "run"]
       \/ phase[r] = "between" /\ phase' = [phase EXCEPT ![r] = "run"]
    /\ SetLease(r, "live")
    /\ UNCHANGED <<objs, dying, no_cleanup, held, s>>

\* The build pod, in the build phase; then namespaces, and in them what needs
\* one.  A runner pod outlives the run that made it and goes on binding seeds.
Create(r, k) ==
    /\ k \notin objs[r]
    /\ \/ phase[r] = "build" /\ k = "build"
       \/ phase[r] = "run" /\ k = "ns"
       \/ phase[r] = "run" /\ k \in {"pod", "vsc"} /\ "ns" \in objs[r] \ dying[r]
       \/ phase[r] \in {"done", "dead"} /\ k = "vsc" /\ Labelled \subseteq objs[r] \ dying[r]
    /\ objs' = [objs EXCEPT ![r] = @ \cup {k}]
    /\ UNCHANGED <<phase, lease, dying, no_cleanup, held, s>>

\* Builder::release and test_ns::close, one delete at a time.
Teardown(r, k) ==
    /\ k \in objs[r]
    /\ \/ phase[r] = "build"
       \/ phase[r] = "run" /\ ~no_cleanup[r]
    /\ Remove(r, k)
    /\ UNCHANGED <<phase, lease, no_cleanup, held, s>>

\* The build reservation waits for its pod's absence; the run's waits for nothing.
Release(r) ==
    /\ \/ /\ phase[r] = "build" /\ objs[r] = {}
          /\ phase' = [phase EXCEPT ![r] = "between"]
       \/ /\ phase[r] = "run" /\ (objs[r] = {} \/ no_cleanup[r] \/ mode.fails)
          /\ phase' = [phase EXCEPT ![r] = "done"]
    /\ SetLease(r, "none")
    /\ UNCHANGED <<objs, dying, no_cleanup, held, s>>

Crash(r) ==
    /\ phase[r] \in {"build", "run"}
    /\ phase' = [phase EXCEPT ![r] = "dead"]
    /\ UNCHANGED <<lease, objs, dying, no_cleanup, held, s>>

Lapse(r) ==
    /\ phase[r] = "dead" /\ lease[r] = "live"
    /\ SetLease(r, "expired")
    /\ UNCHANGED <<phase, objs, dying, no_cleanup, held, s>>

SweepExpired(r) ==
    /\ lease[r] = "expired"
    /\ SetLease(r, "none")
    /\ UNCHANGED <<phase, objs, dying, no_cleanup, held, s>>

HoldLapses(r) ==
    /\ held[r] /\ phase[r] \in {"done", "dead"}
    /\ held' = [held EXCEPT ![r] = FALSE]
    /\ UNCHANGED <<phase, lease, objs, dying, no_cleanup, s>>

\* The apiserver finishes a delete it had accepted.
Finalize(r, k) ==
    /\ k \in dying[r]
    /\ Remove(r, k)
    /\ UNCHANGED <<phase, lease, no_cleanup, held, s>>

----------------------------------------------------------------------------
(* reap_orphans: the four object lists in any order, then the leases, then *)
(* reap_run on each orphan.                                                *)

live_now == {r \in Runs : lease[r] = "live"}

Begin(sweep) ==
    /\ s = Idle
    /\ s' = sweep
    /\ UNCHANGED life

StartOrphans == "orphans" \in mode.sweeps /\ Begin([Idle EXCEPT !.pc = "list"])

ListObjects(k) ==
    /\ s.pc = "list" /\ k \notin s.listed
    /\ \E ok \in Outcomes :
          s' = [s EXCEPT !.listed = @ \cup {k},
                         !.seen = @ \cup {<<r, k>> : r \in {q \in Runs : ok /\ k \in objs[q]}}]
    /\ UNCHANGED life

\* Mutant: a hold is not looked at.
orphaned_runs_unheld(live) ==
    {r \in Runs \ live : \E k \in Kinds : <<r, k>> \in s.seen}

\* Mutant: the leases of the sweep's start decide.
orphaned_runs_stale(live) ==
    {r \in Runs \ steady :
        /\ \E k \in Kinds : <<r, k>> \in s.seen
        /\ ~(held[r] /\ \E k \in Labelled : <<r, k>> \in s.seen)}

\* A held object holds its whole run; binding contents and build pods carry no hold.
orphaned_runs(live) ==
    {r \in Runs \ live :
        /\ \E k \in Kinds : <<r, k>> \in s.seen
        /\ ~(held[r] /\ \E k \in Labelled : <<r, k>> \in s.seen)}

Reaping(runs) == IF runs = {} THEN Idle ELSE [Idle EXCEPT !.pc = "reap", !.todo = runs]

ListLeases ==
    /\ s.pc = "list" /\ s.listed = Kinds
    /\ \E ok \in Outcomes : s' = IF ok THEN Reaping(orphaned_runs(live_now)) ELSE Idle
    /\ UNCHANGED life

NextOrphan(r) ==
    /\ s.pc = "reap" /\ s.cur = {} /\ r \in s.todo
    /\ s' = [s EXCEPT !.cur = {r}, !.left = Consumers, !.failed = FALSE]
    /\ UNCHANGED life

\* Mutant: cluster-scoped contents are left to the namespaces' cascade.
after_reaping_cascade(left, failed) ==
    IF left # {} THEN left
    ELSE IF s.left \subseteq Consumers /\ ~failed THEN {"lease"}
    ELSE {}

\* Mutant: the lease goes whatever failed before it.
after_reaping_anyway(left, failed) ==
    IF left # {} THEN left
    ELSE IF s.left \subseteq Consumers THEN {"vsc"}
    ELSE IF s.left = {"vsc"} THEN {"lease"}
    ELSE {}

\* Namespaces and pods concurrently; then the contents their snapshots bound;
\* then, if nothing failed, the lease.
after_reaping(left, failed) ==
    IF left # {} THEN left
    ELSE IF s.left \subseteq Consumers THEN {"vsc"}
    ELSE IF s.left = {"vsc"} /\ ~failed THEN {"lease"}
    ELSE {}

\* One reap_matching of reap_envs.
reap_matching(r, k) ==
    /\ s.pc = "reap" /\ r \in s.cur /\ k \in s.left
    /\ \E ok \in Outcomes :
          LET failed == s.failed \/ ~ok
              left == after_reaping(s.left \ {k}, failed)
          IN  /\ IF ok /\ k \in Kinds THEN Remove(r, k) ELSE UNCHANGED <<objs, dying>>
              /\ IF ok /\ k = "lease" THEN SetLease(r, "none") ELSE UNCHANGED lease
              /\ s' = IF left = {} THEN Reaping(s.todo \ {r})
                                   ELSE [s EXCEPT !.left = left, !.failed = failed]
    /\ UNCHANGED <<phase, no_cleanup, held>>

\* A cancelled run, the lease of its build or of its tests released, reaps
\* itself; the exit waits 30 s for it.
cancel_exit(r) ==
    /\ "cancel" \in mode.sweeps /\ phase[r] \in {"between", "done"} /\ ~no_cleanup[r]
    /\ s = Idle
    /\ s' = [Reaping({r}) EXCEPT !.force = TRUE]
    /\ phase' = [phase EXCEPT ![r] = "done"]
    /\ UNCHANGED <<lease, objs, dying, no_cleanup, held>>

CancelTimesOut ==
    /\ s.pc = "reap" /\ s.force
    /\ s' = Idle
    /\ UNCHANGED life

----------------------------------------------------------------------------
(* ztest cleanup: the leases first, then each class of objects in turn,    *)
(* then the deletes, class by class.  A delete is asked for, not awaited.  *)

\* The order of the lists.  Runner and build pods are one Kind in the plan.
Rank(k) == CASE k = "ns" -> 1 [] k = "pod" -> 2 [] k = "build" -> 3 [] k = "vsc" -> 4
             [] k = "lease" -> 5
Kind(k) == IF k = "build" THEN Rank("pod") ELSE Rank(k)

StartCleanup ==
    /\ "cleanup" \in mode.sweeps
    /\ \E force \in BOOLEAN : Begin([Idle EXCEPT !.pc = "live", !.force = force])

\* No liveness evidence falls back to "nothing provably live".
live_run_ids ==
    /\ s.pc = "live"
    /\ \E ok \in Outcomes :
          s' = [s EXCEPT !.pc = "discover", !.live = IF ok THEN live_now ELSE {}]
    /\ UNCHANGED life

\* classify_test_env, and triage: a terminating object is passed over, a live
\* one skipped without --force.  A reservation is judged by its own renewals.
Reclaimable(r, k) ==
    IF k = "lease" THEN lease[r] = "expired" \/ (lease[r] = "live" /\ s.force)
    ELSE k \in objs[r] \ dying[r] /\ (r \notin s.live \/ s.force)

discover(k) ==
    /\ s.pc = "discover" /\ k \notin s.listed
    /\ \A j \in AllKinds : Rank(j) < Rank(k) => j \in s.listed
    /\ \E ok \in Outcomes :
          LET seen == s.seen \cup {<<r, k>> : r \in {q \in Runs : ok /\ Reclaimable(q, k)}}
          IN  s' = IF k # "lease" THEN [s EXCEPT !.listed = @ \cup {k}, !.seen = seen]
                   ELSE IF seen = {} THEN Idle
                   ELSE [Idle EXCEPT !.pc = "delete", !.seen = seen, !.force = s.force]
    /\ UNCHANGED life

\* An object that is gone answers 404; one that is there starts terminating.
removal_of(r, k) == {k} \cap objs[r]

\* The plan is sorted by Kind.
in_order(k) == \A t \in s.seen : Kind(k) <= Kind(t[2])

delete(r, k) ==
    /\ s.pc = "delete" /\ <<r, k>> \in s.seen /\ in_order(k)
    /\ \E ok \in Outcomes :
          /\ IF ok /\ k \in Kinds
               THEN dying' = [dying EXCEPT ![r] = @ \cup removal_of(r, k)]
               ELSE UNCHANGED dying
          /\ IF ok /\ k = "lease" THEN SetLease(r, "none") ELSE UNCHANGED lease
    /\ LET seen == s.seen \ {<<r, k>>}
       IN  s' = IF seen = {} THEN Idle ELSE [s EXCEPT !.seen = seen]
    /\ UNCHANGED <<phase, objs, no_cleanup, held>>

----------------------------------------------------------------------------
RunStep(r) ==
    \/ Acquire(r) \/ Release(r) \/ Crash(r) \/ Lapse(r) \/ SweepExpired(r) \/ HoldLapses(r)
    \/ \E k \in Kinds : Create(r, k) \/ Teardown(r, k) \/ Finalize(r, k)

OrphanStep ==
    \/ \E k \in Kinds : ListObjects(k)
    \/ ListLeases
    \/ \E r \in Runs : NextOrphan(r) \/ \E k \in AllKinds : reap_matching(r, k)

CleanupStep ==
    \/ live_run_ids
    \/ \E k \in AllKinds : discover(k)
    \/ \E r \in Runs, k \in AllKinds : delete(r, k)

History ==
    /\ steady' = IF s' = Idle THEN {}
                 ELSE {r \in IF s = Idle THEN Runs ELSE steady : lease[r] = "live" /\ lease'[r] = "live"}
    /\ over' = IF s' = Idle THEN {}
               ELSE IF s = Idle THEN {r \in Runs : phase[r] \in {"done", "dead"}}
               ELSE over
    /\ UNCHANGED mode

ReaperNext ==
    /\ \/ \E r \in mode.runs : RunStep(r) \/ cancel_exit(r)
       \/ StartOrphans \/ OrphanStep \/ CancelTimesOut
       \/ StartCleanup \/ CleanupStep
    /\ History

ReaperSpec == ReaperInit /\ [][ReaperNext]_reaper_vars

\* Admissions keep coming whatever other sweeps there are, each sweep runs to
\* its end, leases and holds run out.
ReaperFairSpec ==
    /\ ReaperSpec
    /\ SF_reaper_vars(StartOrphans /\ History)
    /\ WF_reaper_vars(OrphanStep /\ History) /\ WF_reaper_vars(CleanupStep /\ History)
    /\ \A r \in Runs : WF_reaper_vars(Lapse(r) /\ History) /\ WF_reaper_vars(HoldLapses(r) /\ History)

----------------------------------------------------------------------------
(* Properties.                                                             *)

\* An object that this step of a sweep deletes or asks to delete.
Condemns(r) == s' # s /\ (objs'[r] # objs[r] \/ dying'[r] # dying[r])

\* A sweep that was not forced deletes nothing of a run whose lease was live before it
\* began and ever since, even if the run started or crashed meanwhile; and an admission's
\* sweep, which lists the leases after the objects, nothing of a run whose lease is live,
\* whatever it did between the lists, when the run has but one lease
\* (entry.rs, reap_orphans; and reclaim.rs, triage).
LiveRunSpared ==
    [][\A r \in Runs : Condemns(r) /\ ~s.force =>
          r \notin steady /\ (s.pc = "reap" /\ ~mode.builds => lease[r] # "live")]_reaper_vars

\* A run kept with --no-cleanup, over before an admission's sweep began, loses
\* nothing to it while its hold lasts: one held object holds the whole run
\* (entry.rs, orphaned_runs).  A list that failed would hide the hold.
HoldRespected ==
    [][\A r \in over : Condemns(r) /\ s.pc = "reap" /\ ~mode.fails =>
          ~(held[r] /\ objs[r] \cap Labelled # {})]_reaper_vars

\* reap_run takes a run's lease only when everything the lease covered is gone
\* (entry.rs, reap_envs), although the run's pods went on binding seeds while
\* they were being reaped.  (A run that built first may be on its second lease by then.)
LeaseReapedLast ==
    [][\A r \in Runs : s.pc = "reap" /\ s' # s /\ lease[r] # "none" /\ lease'[r] = "none"
          => mode.builds \/ objs[r] = {}]_reaper_vars

\* reclaim releases a live reservation only once no pod under it holds capacity:
\* "releasing first lets a concurrent run admit against capacity the dying pods
\* still hold" (reclaim.rs).
CapacityFreedFirst ==
    [][\A r \in Runs : s.pc = "delete" /\ s' # s /\ lease[r] = "live" /\ lease'[r] = "none"
          => objs[r] \cap Consumers = {}]_reaper_vars

\* What a dead run, or one kept for a while, leaves behind is gone in the end, when the API
\* server answers.
OrphansReaped ==
    \A r \in Runs : ~mode.fails /\ phase[r] \in {"done", "dead"} ~> objs[r] = {}
=============================================================================
