------------------------------- MODULE Ledger -------------------------------
(***************************************************************************)
(* The cross-run reservation ledger, src/qos/ledger.rs: every run holds a  *)
(* Lease in the cluster that reserves its slice.  A run acquires its       *)
(* lease by polling (sweep, list leases, list pods, write), resizes it     *)
(* every tick from a fresh listing, and publishes the new ceiling to its   *)
(* engine.  No two API calls are atomic, so the runs interleave between    *)
(* any two of them.                                                        *)
(*                                                                         *)
(* Abstractions: a lease is its reserve, whether it is a claim and whether *)
(* its TTL has lapsed; the engine is a counter of equal tests (RunLoop has *)
(* the real one); the pods of a run are what they use in total; a sweep's  *)
(* deletes and the following lease list are one step.  Dims are those a    *)
(* lease records, cpu and mem (reservation_of).  A lease delete that fails *)
(* leaves what Crash leaves: no process, a lease that lapses at its TTL.   *)
(***************************************************************************)
EXTENDS Resources, FiniteSets, Folds

CONSTANTS Runs,
          Allocatable,  \* what the cluster's nodes hold
          Budget,       \* each run's service-account budget
          MinViable,    \* min_viable(): the threshold of an elastic run
          Elastic,      \* Reserve::Elastic; any other Want is Reserve::Fixed
          Prompt,       \* the engine sees a ceiling before the next tick
          KeepPods,     \* --no-cleanup
          None,         \* no value: no ceiling unseen, nothing borrowed
          Scenarios     \* the runs and the company explored

\* want: what each run asks acquire for.  test: the footprint of one of its tests.  tests:
\* how many it has.  foreign: what pods that carry no run id may use.  stalls: a live run
\* may miss renewals for a whole TTL.
ASSUME LedgerAssumption ==
         /\ \A S \in SUBSET Runs : Cardinality(S) \in Nat    \* finitely many runs
         /\ {Allocatable, MinViable} \subseteq Amount
         /\ Budget \in [Runs -> Amount]
         /\ Elastic \notin Amount
         /\ {Prompt, KeepPods} \subseteq BOOLEAN
         /\ None \notin Amount
         /\ \A c \in Scenarios :
              /\ c.want \in [Runs -> Amount \cup {Elastic}]
              /\ c.test \in [Runs -> Amount]
              /\ c.tests \in [Runs -> Nat]
              /\ c.foreign \subseteq Amount
              /\ c.stalls \in BOOLEAN

VARIABLES scene,     \* the member of Scenarios explored
          leases,    \* the ledger: a partial map from runs to leases
          up,        \* what the pods of each run's running tests use
          kept,      \* what the pods --no-cleanup keeps of its ended tests use
          foreign,   \* what pods of no run use
          pc,        \* where each run's process is
          task,      \* where its renewal task is
          doomed,    \* leases a sweep found expired and will delete
          live,      \* the leases a run last listed
          target,    \* the amount a run is about to write
          prev,      \* the renewal task's last target
          chan,      \* the ceiling published and not yet seen, or None
          available, \* the engine's ceiling
          committed, \* what the engine's running tests were admitted for
          work,      \* tests the engine has not started
          reported,  \* the Demand the engine last published
          borrowed   \* the Demand the renewal task read this tick

engine == <<available, committed, work, reported>>
ledger_task == <<task, doomed, live, target, prev, borrowed>>

vars == <<scene, leases, up, kept, foreign, pc, ledger_task, chan, engine>>

Demand == [committed : Amount, demand : Amount]
NoDemand == [committed |-> ZERO, demand |-> ZERO]

Lease == [reserve : Amount, claim : BOOLEAN, expired : BOOLEAN]

Over == {"done", "dead", "refused", "panicked"}

Want == scene.want
TestSize == scene.test

-----------------------------------------------------------------------------
(* Pure helpers, on a listed ledger `ls`. *)

Insert(m, k, v) == [x \in DOMAIN m \cup {k} |-> IF x = k THEN v ELSE m[x]]
Remove(m, S) == [x \in DOMAIN m \ S |-> m[x]]

pods(r) == saturating_add(up[r], kept[r])

Sum(f) == MapThenFoldSet(+, 0, LAMBDA x : f[x], LAMBDA S : CHOOSE x \in S : TRUE, DOMAIN f)

\* A sum of u64 amounts, saturating.
total(amount) ==
  [d \in Dims |-> LET s == Sum([x \in DOMAIN amount |-> amount[x][d]])
                  IN  IF s \in 0 .. U64Max THEN s ELSE U64Max]

sum_reservations(ls, exclude) ==
  total([x \in DOMAIN ls \ {exclude} |-> ls[x].reserve])

\* split_usage: what no lease of `ls` covers; a leased run's own usage is
\* pods(x).
unreserved(ls) ==
  saturating_add(foreign, total([x \in Runs \ DOMAIN ls |-> pods(x)]))

active_runs(ls) == Cardinality({x \in DOMAIN ls : ~ ls[x].claim})

fair_reserve(r, ls, com, dem) ==
  LET n == IF active_runs(ls) = 0 THEN 1 ELSE active_runs(ls)
      usable == saturating_sub(Allocatable, unreserved(ls))
      fair == [d \in Dims |-> usable[d] \div n]
      want == min(min(dem, fair), Budget[r])
  IN  max(min(want, saturating_sub(usable, sum_reservations(ls, r))), com)

\* assert_invariant: no run of the listed ledger uses more than it reserved.
assert_invariant(ls) == \A x \in DOMAIN ls : fits_within(pods(x), ls[x].reserve)

threshold(r) == IF Want[r] = Elastic THEN MinViable ELSE Want[r]

amount(r, slice) == IF Want[r] = Elastic THEN slice ELSE Want[r]

\* Mutant: the headroom ignores what the peers reserved.
acquire_slice_ignoring_peers(r, ls) ==
  min(Budget[r], saturating_sub(Allocatable, unreserved(ls)))

acquire_slice(r, ls) ==
  min(Budget[r],
      saturating_sub(saturating_sub(Allocatable, unreserved(ls)), sum_reservations(ls, r)))

\* Server-side apply: creates the lease or replaces it, with a fresh renewTime.
write(r, reserve, claim) ==
  leases' = Insert(leases, r, [reserve |-> reserve, claim |-> claim, expired |-> FALSE])

\* publish_demand!: the committed tests, and with them all that wait.
report(r, com, n) ==
  reported' = [reported EXCEPT ![r] =
    [committed |-> com,
     demand |-> [d \in Dims |-> LET sum == com[d] + n * TestSize[r][d]
                                IN  IF sum <= U64Max THEN sum ELSE U64Max]]]

NoLeases == [x \in {} |-> {}]

\* The locals of a poll or a tick go out of scope.
forget(r) ==
  /\ doomed' = [doomed EXCEPT ![r] = {}]
  /\ live' = [live EXCEPT ![r] = NoLeases]
  /\ target' = [target EXCEPT ![r] = ZERO]
  /\ borrowed' = [borrowed EXCEPT ![r] = NoDemand]

\* The process is over: its engine and its channels are gone.
stop(r, how) ==
  /\ pc' = [pc EXCEPT ![r] = how]
  /\ prev' = [prev EXCEPT ![r] = ZERO]
  /\ chan' = [chan EXCEPT ![r] = None]
  /\ available' = [available EXCEPT ![r] = ZERO]
  /\ committed' = [committed EXCEPT ![r] = ZERO]
  /\ work' = [work EXCEPT ![r] = 0]
  /\ reported' = [reported EXCEPT ![r] = NoDemand]

-----------------------------------------------------------------------------
Init ==
  /\ scene \in Scenarios
  /\ leases = NoLeases
  /\ up = [r \in Runs |-> ZERO]
  /\ kept = [r \in Runs |-> ZERO]
  /\ foreign \in scene.foreign
  /\ pc = [r \in Runs |-> "sweep"]
  /\ task = [r \in Runs |-> "none"]
  /\ doomed = [r \in Runs |-> {}]
  /\ live = [r \in Runs |-> NoLeases]
  /\ target = [r \in Runs |-> ZERO]
  /\ prev = [r \in Runs |-> ZERO]
  /\ chan = [r \in Runs |-> None]
  /\ available = [r \in Runs |-> ZERO]
  /\ committed = [r \in Runs |-> ZERO]
  /\ work = scene.tests
  /\ reported = [r \in Runs |-> NoDemand]
  /\ borrowed = [r \in Runs |-> NoDemand]

\* sweep_expired, first half: the leases whose TTL has lapsed.
Expired == {x \in DOMAIN leases : leases[x].expired}

(* acquire *)

AcquireSweep(r) ==
  /\ pc[r] = "sweep"
  /\ doomed' = [doomed EXCEPT ![r] = Expired]
  /\ pc' = [pc EXCEPT ![r] = "list"]
  /\ UNCHANGED <<leases, up, kept, foreign, task, live, target, prev, chan, engine, borrowed>>

AcquireList(r) ==
  /\ pc[r] = "list"
  /\ leases' = Remove(leases, doomed[r])
  /\ live' = [live EXCEPT ![r] = leases']
  /\ doomed' = [doomed EXCEPT ![r] = {}]
  /\ pc' = [pc EXCEPT ![r] = "pods"]
  /\ UNCHANGED <<up, kept, foreign, task, target, prev, chan, engine, borrowed>>

\* List the pods and decide: panic, take the slice, give up, or wait as a claim
\* (whose write may fail, unnoticed).
AcquirePods(r) ==
  /\ pc[r] = "pods"
  /\ LET slice == acquire_slice(r, live[r])
         granted == fits_within(threshold(r), slice)
     IN  \/ /\ ~ assert_invariant(live[r])
            /\ forget(r) /\ stop(r, "panicked")
            /\ UNCHANGED leases
         \/ /\ assert_invariant(live[r]) /\ granted
            /\ target' = [target EXCEPT ![r] = amount(r, slice)]
            /\ pc' = [pc EXCEPT ![r] = "write"]
            /\ UNCHANGED <<leases, doomed, live, borrowed, prev, chan, engine>>
         \/ /\ assert_invariant(live[r]) /\ ~ granted
            /\ leases' = Remove(leases, {r})
            /\ forget(r) /\ stop(r, "refused")
         \/ /\ assert_invariant(live[r]) /\ ~ granted
            /\ write(r, ZERO, TRUE) \/ UNCHANGED leases
            /\ pc' = [pc EXCEPT ![r] = "sweep"]
            /\ forget(r)
            /\ UNCHANGED <<prev, chan, engine>>
  /\ UNCHANGED <<up, kept, foreign, task>>

AcquireWrite(r) ==
  /\ pc[r] = "write"
  /\ write(r, target[r], FALSE)
  /\ pc' = [pc EXCEPT ![r] = "run"]
  /\ task' = [task EXCEPT ![r] = "idle"]
  /\ prev' = [prev EXCEPT ![r] = target[r]]
  /\ available' = [available EXCEPT ![r] = target[r]]
  /\ forget(r)
  /\ UNCHANGED <<up, kept, foreign, chan, committed, work, reported>>

\* An API call of acquire fails: the error ends the run, a claim stays.  The
\* sweep's deletes may be done by then, and so may the write that failed.
AcquireFails(r) ==
  /\ pc[r] \in {"sweep", "list", "pods", "write"}
  /\ \/ leases' = Remove(leases, doomed[r])
     \/ UNCHANGED leases
     \/ pc[r] = "write" /\ write(r, target[r], FALSE)
  /\ forget(r) /\ stop(r, "refused")
  /\ UNCHANGED <<up, kept, foreign, task>>

(* drive: the renewal task *)

\* A tick of an elastic reservation: sweep, read the demand.  While the engine
\* has published none the tick only renews.
Tick(r) ==
  /\ pc[r] = "run" /\ task[r] = "idle"
  /\ Prompt => chan[r] = None
  /\ doomed' = [doomed EXCEPT ![r] = IF Want[r] = Elastic THEN Expired ELSE {}]
  /\ borrowed' = [borrowed EXCEPT ![r] = reported[r]]
  /\ IF Want[r] = Elastic /\ reported[r] # NoDemand
     THEN task' = [task EXCEPT ![r] = "list"] /\ UNCHANGED target
     ELSE /\ task' = [task EXCEPT ![r] = "renew"]
          /\ target' = [target EXCEPT ![r] = prev[r]]
  /\ UNCHANGED <<leases, up, kept, foreign, pc, live, prev, chan, engine>>

ReconcileList(r) ==
  /\ pc[r] = "run" /\ task[r] = "list"
  /\ leases' = Remove(leases, doomed[r])
  /\ live' = [live EXCEPT ![r] = leases']
  /\ doomed' = [doomed EXCEPT ![r] = {}]
  /\ task' = [task EXCEPT ![r] = "pods"]
  /\ UNCHANGED <<up, kept, foreign, pc, target, prev, chan, engine, borrowed>>

ReconcilePods(r) ==
  /\ pc[r] = "run" /\ task[r] = "pods"
  /\ target' = [target EXCEPT ![r] = fair_reserve(r, live[r], borrowed[r].committed, borrowed[r].demand)]
  /\ task' = [task EXCEPT ![r] = "renew"]
  /\ UNCHANGED <<leases, up, kept, foreign, pc, doomed, live, prev, chan, engine, borrowed>>

\* Mutant: the lease is written at the new target at once.
renewed_at_target(r) == target[r]

\* The lease covers the old ceiling until the engine has seen the new one.
renewed(r) == max(target[r], prev[r])

\* The renewal is applied; its answer publishes a changed target.
Renew(r) ==
  /\ pc[r] = "run" /\ task[r] = "renew"
  /\ leases' = Insert(Remove(leases, doomed[r]), r,
                      [reserve |-> renewed(r), claim |-> FALSE, expired |-> FALSE])
  /\ chan' = [chan EXCEPT ![r] = IF target[r] # prev[r] THEN target[r] ELSE @]
  /\ prev' = [prev EXCEPT ![r] = target[r]]
  /\ task' = [task EXCEPT ![r] = "idle"]
  /\ forget(r)
  /\ UNCHANGED <<up, kept, foreign, pc, engine>>

\* A list fails, or the renewal does before or after it was applied.
ReconcileFails(r) ==
  /\ pc[r] = "run" /\ task[r] \in {"list", "pods", "renew"}
  /\ \/ leases' = Remove(leases, doomed[r])
     \/ UNCHANGED leases
     \/ task[r] = "renew" /\ write(r, renewed(r), FALSE)
  /\ task' = [task EXCEPT ![r] = "idle"]
  /\ forget(r)
  /\ UNCHANGED <<up, kept, foreign, pc, prev, chan, engine>>

(* The engine, reduced to what the ledger sees of it. *)

SeeCeiling(r) ==
  /\ pc[r] = "run" /\ chan[r] # None
  /\ available' = [available EXCEPT ![r] = chan[r]]
  /\ chan' = [chan EXCEPT ![r] = None]
  /\ report(r, committed[r], work[r])
  /\ UNCHANGED <<leases, up, kept, foreign, pc, ledger_task, committed, work>>

Admit(r) ==
  /\ pc[r] = "run" /\ work[r] > 0
  /\ fits_within(TestSize[r], saturating_sub(available[r], committed[r]))
  /\ committed' = [committed EXCEPT ![r] = saturating_add(@, TestSize[r])]
  /\ work' = [work EXCEPT ![r] = @ - 1]
  /\ report(r, committed'[r], work'[r])
  /\ UNCHANGED <<leases, up, kept, foreign, pc, ledger_task, chan, available>>

\* An admitted test deploys its pods.
Deploy(r) ==
  /\ pc[r] = "run"
  /\ up[r] # committed[r]
  /\ up' = [up EXCEPT ![r] = min(saturating_add(@, TestSize[r]), committed[r])]
  /\ UNCHANGED <<leases, kept, foreign, pc, ledger_task, chan, engine>>

\* Mutant: the slot is released before the pods are gone.
Finish_slot_first(r) ==
  /\ pc[r] = "run" /\ committed[r] # ZERO
  /\ committed' = [committed EXCEPT ![r] = saturating_sub(@, TestSize[r])]
  /\ report(r, committed'[r], work[r])
  /\ UNCHANGED <<leases, up, kept, foreign, pc, ledger_task, chan, available, work>>

\* A test ends: its pods are gone (kept under --no-cleanup) before its slot is
\* released.
Finish(r) ==
  /\ pc[r] = "run" /\ committed[r] # ZERO
  /\ committed' = [committed EXCEPT ![r] = saturating_sub(@, TestSize[r])]
  /\ up' = [up EXCEPT ![r] = min(@, committed'[r])]
  /\ kept' = IF KeepPods
             THEN [kept EXCEPT ![r] = saturating_add(@, saturating_sub(up[r], up'[r]))]
             ELSE kept
  /\ report(r, committed'[r], work[r])
  /\ UNCHANGED <<leases, foreign, pc, ledger_task, chan, available, work>>

\* The engine returned: abort the task, delete the lease.  A renewal already
\* sent is past aborting.
Release(r) ==
  /\ pc[r] = "run" /\ committed[r] = ZERO
  /\ leases' = Remove(leases, {r})
  /\ stop(r, "done")
  /\ IF task[r] = "renew"
     THEN /\ task' = [task EXCEPT ![r] = "sent"]
          /\ target' = [target EXCEPT ![r] = renewed(r)]
          /\ UNCHANGED <<doomed, live, borrowed>>
     ELSE task' = [task EXCEPT ![r] = "none"] /\ forget(r)
  /\ UNCHANGED <<up, kept, foreign>>

(* The environment. *)

lease_live(r) == r \in DOMAIN leases /\ ~ leases[r].expired

\* A renewal sent before the release reaches the API server after it.
LateRenewal(r) ==
  /\ pc[r] = "done" /\ task[r] = "sent"
  /\ write(r, target[r], FALSE)
  /\ task' = [task EXCEPT ![r] = "none"]
  /\ forget(r)
  /\ UNCHANGED <<up, kept, foreign, pc, prev, chan, engine>>

\* The process dies: its lease and its pods stay.
Crash(r) ==
  /\ pc[r] \notin Over
  /\ forget(r) /\ stop(r, "dead")
  /\ task' = [task EXCEPT ![r] = "none"]
  /\ UNCHANGED <<leases, up, kept, foreign>>

\* A TTL runs out: nobody renews, or a live run was cut off for that long.
Lapse(r) ==
  /\ lease_live(r)
  /\ pc[r] \in Over \/ scene.stalls
  /\ leases' = [leases EXCEPT ![r].expired = TRUE]
  /\ UNCHANGED <<up, kept, foreign, pc, ledger_task, chan, engine>>

\* The orphan reaper deletes the pods of a run that holds no live lease (kept
\* pods once their LABEL_HOLD_UNTIL has passed; Reaper has the whole sweep).
Reap(r) ==
  /\ pods(r) # ZERO
  /\ ~ lease_live(r)
  /\ up' = [up EXCEPT ![r] = ZERO]
  /\ kept' = [kept EXCEPT ![r] = ZERO]
  /\ UNCHANGED <<leases, foreign, pc, ledger_task, chan, engine>>

\* Other workloads come and go.
ForeignMoves(load) ==
  /\ foreign # load /\ foreign' = load
  /\ UNCHANGED <<leases, up, kept, pc, ledger_task, chan, engine>>

Finished == (\A r \in Runs : pc[r] \in Over) /\ UNCHANGED vars

Next ==
  \/ /\ \/ \E r \in Runs :
             \/ AcquireSweep(r) \/ AcquireList(r) \/ AcquirePods(r) \/ AcquireWrite(r)
             \/ AcquireFails(r)
             \/ Tick(r) \/ ReconcileList(r) \/ ReconcilePods(r) \/ Renew(r) \/ ReconcileFails(r)
             \/ SeeCeiling(r) \/ Admit(r) \/ Deploy(r) \/ Finish(r) \/ Release(r)
             \/ LateRenewal(r) \/ Crash(r) \/ Lapse(r) \/ Reap(r)
        \/ \E load \in scene.foreign : ForeignMoves(load)
     /\ UNCHANGED scene
  \/ Finished

Spec == Init /\ [][Next]_vars

-----------------------------------------------------------------------------
Reserved(r) == leases[r].reserve

(***************************************************************************)
(* While a run's lease stands it covers the run: what its tests were       *)
(* admitted for, and what the engine may still admit before it sees the    *)
(* next ceiling (`drive`, ledger.rs:282 "Holds `available <= reserved`").  *)
(* Several steps of two tasks away from any one write: growth is written   *)
(* before it is published, a shrink one tick after.                        *)
(***************************************************************************)
LeaseCoversRun ==
  \A r \in Runs :
    pc[r] = "run" /\ r \in DOMAIN leases =>
      /\ fits_within(committed[r], Reserved(r))
      /\ fits_within(available[r], Reserved(r))

(***************************************************************************)
(* No leased run uses more than it reserved, live or dead: the claim that  *)
(* `assert_invariant` checks from outside (ledger.rs:659; docs/            *)
(* design-qos.md:281 "ztest must never run more than it reserved").        *)
(***************************************************************************)
PodsWithinReservation ==
  \A r \in DOMAIN leases : fits_within(pods(r), Reserved(r))

(***************************************************************************)
(* A lease that is acquired or grows does not overcommit the cluster,      *)
(* unless another run took capacity after this one listed the ledger: per  *)
(* dimension, if the others now reserve no more than was listed, all       *)
(* reservations together stay within what the cluster holds (ledger.rs:6,  *)
(* the ceiling formula).  A lease swept under a live run is another        *)
(* matter: its renewal writes the old amount back.                         *)
(***************************************************************************)
QuietGrowthNeverOvercommits ==
  [][leases' # leases => \A r \in Runs, d \in Dims :
       LET old == IF r \in DOMAIN leases THEN Reserved(r)[d] ELSE 0
       IN  /\ r \in DOMAIN leases' /\ leases'[r].reserve[d] > old
           /\ pc[r] = "write" \/ (pc[r] = "run" /\ r \in DOMAIN leases)
           /\ sum_reservations(leases, r)[d] <= sum_reservations(live[r], r)[d]
           => saturating_add(leases'[r].reserve, sum_reservations(leases, r))[d]
                <= Allocatable[d]]_vars

-----------------------------------------------------------------------------
(***************************************************************************)
(* ledger.rs:658, of assert_invariant: "Panic if a leased run exceeds its  *)
(* reservation (ztest defect, not a runtime condition)".                   *)
(***************************************************************************)
PanicMeansDefect ==
  [][\A r \in Runs : pc[r] # "panicked" /\ pc'[r] = "panicked" => ~ PodsWithinReservation]_vars

(***************************************************************************)
(* ledger.rs:205, of release: "capacity returns to peers now, not at the   *)
(* TTL".                                                                   *)
(***************************************************************************)
ReleasedStaysReleased ==
  \A r \in Runs : pc[r] = "done" => r \notin DOMAIN leases

(***************************************************************************)
(* ledger.rs:3, of what the ledger is for: without it "two runs claim the  *)
(* same headroom and overcommit the node".                                 *)
(***************************************************************************)
NoOvercommit ==
  \A d \in Dims : Sum([x \in DOMAIN leases |-> Reserved(x)[d]]) <= Allocatable[d]

=============================================================================
