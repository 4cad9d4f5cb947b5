------------------------------ MODULE RunLoop ------------------------------
(***************************************************************************)
(* The engine's run loop, src/engine/schedule.rs `run_loop`: one task that *)
(* owns the admission core, starts what it grants, retries what failed and *)
(* stops admitting on Ctrl-C or fail-fast.  Three other threads act on it: *)
(* the in-flight tests resolve in any order, the render thread sets the    *)
(* cancel flag, and the reservation's reconcile task publishes ceilings    *)
(* over a watch channel (the loop sees only the latest).                   *)
(*                                                                         *)
(* Abstractions: a WorkItem is its test; `futs` and `inflight` hold the    *)
(* same slots and are one set; durations, captured output and rendering    *)
(* are left out; the events a reporter receives are kept test by test.     *)
(***************************************************************************)
EXTENDS SchedulerCore, Sequences, FiniteSets

CONSTANTS Items,        \* the tests in submission order
          Retries,      \* WorkItem.retries
          Configs,      \* the LoopConfigs of a run
          Shares,       \* ceilings that budget and peers leave to this run
          MaxPublished, \* bound on the ceilings the reservation publishes
          NoCeiling     \* the watch channel holds nothing new

ASSUME RunLoopAssumption ==
         /\ Items \in Seq(Tests)
         /\ \A i, j \in 1 .. Len(Items) : Items[i] = Items[j] => i = j
         /\ Retries \in [Tests -> Nat]
         /\ Configs \subseteq [fail_fast : BOOLEAN, max_inflight : Nat \ {0},
                               reservation : BOOLEAN, unmet : SUBSET Tests,
                               ceiling : Amount]
         /\ Shares \subseteq Amount
         /\ MaxPublished \in Nat
         /\ NoCeiling \notin Amount

VARIABLES run,        \* the loop's local state, see Start
          pc,         \* "start", then "top" and "select" in turn, then "done"
          cancelled,  \* the loop noticed the cancel and reported RunCancelling
          cancel,     \* the watch flag the render thread sets
          reported,   \* the Demand last sent to the reservation
          cap_rx,     \* the ceiling the watch channel holds unseen
          published,  \* how many ceilings the reservation has published
          cfg         \* this run's LoopConfig

vars == <<run, pc, cancelled, cancel, reported, cap_rx, published, cfg>>

Verdicts == {"Pass", "Fail", "Timeout", "SpawnError", "Terminated"}

retryable(v) == v \in {"Fail", "Timeout"}

Entry == [slot : Nat, test : Tests, attempt : Nat \ {0}]

Tally == [passed : Nat, failed : Nat, terminated : Nat, skipped : Nat]

-----------------------------------------------------------------------------
(* Steps of the loop body, as operators on its local state. *)

\* reporter.handle of a test's event.
emit(r, t, event) == [r EXCEPT !.events[t] = Append(@, event)]

\* A test's last event, and the counter it moves.
settle(r, t, field) ==
  [emit(r, t, field) EXCEPT !.stats[field] = @ + 1]

\* Request admission: granted -> ready, queued -> parked, rejected -> skipped.
submit(r, t, attempt) ==
  LET s == request(r.sched, t)
  IN  IF rejected(r.sched, t) THEN settle(r, t, "skipped")
      ELSE IF Grants(r.sched, s) # {}
      THEN [r EXCEPT !.sched = s,
                     !.ready = Append(@, [slot |-> r.sched.next_slot_id, test |-> t,
                                          attempt |-> attempt])]
      ELSE [r EXCEPT !.sched = s, !.parked = Insert(@, t, attempt)]

\* One item of the initial sweep.
sweep_item(r, t) == IF t \in cfg.unmet THEN settle(r, t, "skipped") ELSE submit(r, t, 1)

sweep(r) ==
  LET after[i \in 0 .. Len(Items)] ==
        IF i = 0 THEN r ELSE sweep_item(after[i - 1], Items[i])
  IN  after[Len(Items)]

\* Start the test that has been ready longest.
spawn_granted(r) ==
  LET e == Head(r.ready)
  IN  [emit(r, e.test, "started") EXCEPT !.ready = Tail(@), !.inflight = @ \cup {e}]

\* pump!: start ready tests first in, first out, up to max_inflight.
pump(r) ==
  LET room == cfg.max_inflight - Cardinality(r.inflight)
      n == IF room <= 0 THEN 0 ELSE IF Len(r.ready) <= room THEN Len(r.ready) ELSE room
      after[i \in 0 .. n] == IF i = 0 THEN r ELSE spawn_granted(after[i - 1])
  IN  after[n]

\* Mutant: a granted test also stays parked.
take_grants_keeping_parked(r, lo, hi) ==
  LET granted == [i \in 1 .. hi - lo |->
                    [slot |-> lo + i - 1, test |-> r.sched.leases[lo + i - 1], attempt |-> 1]]
  IN  [r EXCEPT !.ready = @ \o granted]

\* A granted test moves from parked to ready; a grant for a test that is not
\* parked is dropped.
take_grant(r, slot) ==
  LET t == r.sched.leases[slot]
  IN  IF t \in DOMAIN r.parked
      THEN [r EXCEPT !.ready = Append(@, [slot |-> slot, test |-> t, attempt |-> r.parked[t]]),
                     !.parked = Remove(@, t)]
      ELSE r

\* The grants are slots lo .. hi - 1, in this order.
take_grants(r, lo, hi) ==
  LET after[i \in 0 .. hi - lo] == IF i = 0 THEN r ELSE take_grant(after[i - 1], lo + i - 1)
  IN  after[hi - lo]

\* Mutant: the gate reads the loop's own `cancelled`, set at the loop top.
admit_grants_on_local_flag(r, lo, hi, is_cancelled) ==
  IF r.tripped \/ cancelled THEN r ELSE pump(take_grants(r, lo, hi))

\* Admit into the freed capacity unless fail-fast tripped or the run was
\* cancelled.
admit_grants(r, lo, hi, is_cancelled) ==
  IF r.tripped \/ is_cancelled THEN r ELSE pump(take_grants(r, lo, hi))

\* publish_demand!, when the run holds a reservation.
Demand(s) == [committed |-> s.committed, demand |-> demand(s)]

publish_demand(r) == IF cfg.reservation THEN Demand(r.sched) ELSE reported

-----------------------------------------------------------------------------
LoopInit ==
  /\ cfg \in Configs
  /\ run = [sched    |-> new(cfg.ceiling, [a \in ServiceAccounts |-> Unlimited]),
            inflight |-> {},
            parked   |-> EmptyMap,
            ready    |-> <<>>,
            stats    |-> [passed |-> 0, failed |-> 0, terminated |-> 0, skipped |-> 0],
            tripped  |-> FALSE,
            events   |-> [t \in Tests |-> <<>>]]
  /\ pc = "start"
  /\ cancelled = FALSE
  /\ cancel = FALSE
  /\ reported = [committed |-> ZERO, demand |-> ZERO]
  /\ cap_rx = NoCeiling
  /\ published = 0

\* Initial admission sweep, pump and publish.
Start ==
  /\ pc = "start"
  /\ run' = pump(sweep(run))
  /\ reported' = publish_demand(run')
  /\ pc' = "top"
  /\ UNCHANGED <<cancelled, cancel, cap_rx, published, cfg>>

\* Mutant: the loop also waits for the parked tests.
LoopTop_waiting_for_parked ==
  /\ pc = "top"
  /\ IF run.inflight = {} /\ DOMAIN run.parked = {}
     THEN pc' = "done" /\ UNCHANGED cancelled
     ELSE pc' = "select" /\ cancelled' = cancel
  /\ UNCHANGED <<run, cancel, reported, cap_rx, published, cfg>>

\* `while !futs.is_empty()`, then the synchronous cancel check.
LoopTop ==
  /\ pc = "top"
  /\ IF run.inflight = {}
     THEN pc' = "done" /\ UNCHANGED cancelled
     ELSE pc' = "select" /\ cancelled' = cancel
  /\ UNCHANGED <<run, cancel, reported, cap_rx, published, cfg>>

\* First arm of the biased select: a pure waker, disabled once noticed.
CancelArm ==
  /\ pc = "select"
  /\ cancel /\ ~ cancelled
  /\ pc' = "top"
  /\ UNCHANGED <<run, cancelled, cancel, reported, cap_rx, published, cfg>>

\* What becomes of a test whose future resolved: `retry` says whether the
\* code may retry it.
outcome(r, e, v, retry) ==
  IF v = "Pass" THEN settle(r, e.test, "passed")
  ELSE IF retryable(v) /\ retry
  THEN submit(emit(r, e.test, "retrying"), e.test, e.attempt + 1)
  ELSE IF v = "Terminated" THEN settle(r, e.test, "terminated")
  ELSE [settle(r, e.test, "failed") EXCEPT !.tripped = @ \/ cfg.fail_fast]

\* Second arm: a test's future resolved.  The flag is read twice, for the
\* retry and for the admission, and may be set before or between the reads;
\* it may also be set between the polls of the first and the second arm.  A
\* test resolves as Terminated only because it saw the flag.
Complete(e, v) ==
  /\ pc = "select"
  /\ e \in run.inflight
  /\ v = "Terminated" => cancel
  /\ \E first, second \in BOOLEAN :
       /\ cancel => first
       /\ first => second
       /\ cancel' = second
       /\ LET freed == [run EXCEPT !.inflight = @ \ {e}, !.sched = release(@, e.slot)]
              retry == /\ e.attempt <= Retries[e.test]
                       /\ ~ run.tripped
                       /\ ~ first
          IN  run' = admit_grants(outcome(freed, e, v, retry),
                                  run.sched.next_slot_id, freed.sched.next_slot_id, second)
  /\ reported' = publish_demand(run')
  /\ pc' = "top"
  /\ UNCHANGED <<cancelled, cap_rx, published, cfg>>

\* Mutant: a moved ceiling admits whatever the state of the run.
OnCeiling_ungated ==
  /\ pc = "select"
  /\ cap_rx # NoCeiling
  /\ LET moved == [run EXCEPT !.sched = reconcile(@, cap_rx)]
     IN  run' = pump(take_grants(moved, run.sched.next_slot_id, moved.sched.next_slot_id))
  /\ cap_rx' = NoCeiling
  /\ reported' = publish_demand(run')
  /\ pc' = "top"
  /\ UNCHANGED <<cancelled, cancel, published, cfg>>

\* Third arm: the reservation moved the ceiling.
OnCeiling ==
  /\ pc = "select"
  /\ cap_rx # NoCeiling
  /\ \E second \in BOOLEAN :
       /\ cancel => second
       /\ cancel' = second
       /\ LET moved == [run EXCEPT !.sched = reconcile(@, cap_rx)]
          IN  run' = admit_grants(moved, run.sched.next_slot_id,
                                  moved.sched.next_slot_id, second)
  /\ cap_rx' = NoCeiling
  /\ reported' = publish_demand(run')
  /\ pc' = "top"
  /\ UNCHANGED <<cancelled, published, cfg>>

\* Fourth arm: slow flags and a frame, nothing modelled.
Tick == pc = "select" /\ pc' = "top"
        /\ UNCHANGED <<run, cancelled, cancel, reported, cap_rx, published, cfg>>

\* The render thread: first Ctrl-C.
CtrlC == /\ ~ cancel
         /\ pc # "done"
         /\ cancel' = TRUE
         /\ UNCHANGED <<run, pc, cancelled, reported, cap_rx, published, cfg>>

\* The reservation's reconcile task: fair_reserve of the reported demand,
\* `share` being what fair share, budget and headroom leave.  It holds still
\* until a demand is reported and sends only a target that differs from its
\* last one.
PublishCeiling(share) ==
  /\ cfg.reservation /\ published < MaxPublished
  /\ pc # "done"
  /\ reported # [committed |-> ZERO, demand |-> ZERO]
  /\ LET target == max(min(reported.demand, share), reported.committed)
         prev == IF cap_rx = NoCeiling THEN run.sched.available ELSE cap_rx
     IN  target # prev /\ cap_rx' = target
  /\ published' = published + 1
  /\ UNCHANGED <<run, pc, cancelled, cancel, reported, cfg>>

\* The loop has returned: the run is over.
Finished == pc = "done" /\ UNCHANGED vars

Resolve == \E e \in run.inflight, v \in Verdicts : Complete(e, v)

LoopNext == \/ Start \/ LoopTop \/ CancelArm \/ Resolve \/ OnCeiling \/ Tick
        \/ CtrlC
        \/ \E share \in Shares : PublishCeiling(share)
        \/ Finished

LoopSpec == LoopInit /\ [][LoopNext]_vars

\* A step in which a test in flight is taken off `futs`.
Resolved == \E e \in run.inflight : e \notin run'.inflight

(***************************************************************************)
(* Fairness: the loop task runs (it leaves "start", and WF of LoopTop); a  *)
(* test resolves within its tier's hard cap, and the biased select polls   *)
(* the tests before the ceiling and the tick, so a resolved one is taken   *)
(* at a later poll: strong fairness of Resolve, which is enabled exactly   *)
(* at "select" with a test in flight.  Nothing is assumed of the render    *)
(* thread or the reservation.                                              *)
(***************************************************************************)
LoopFairSpec ==
  /\ LoopSpec
  /\ <>(pc # "start")
  /\ WF_vars(LoopTop)
  /\ []<>(pc = "select" /\ run.inflight # {}) => []<><<Resolved>>_vars

-----------------------------------------------------------------------------
Stopped == run.tripped \/ cancel

Held == run.inflight \cup {run.ready[i] : i \in 1 .. Len(run.ready)}

Started(t) == Cardinality({i \in 1 .. Len(run.events[t]) : run.events[t][i] = "started"})

Terminal == {"passed", "failed", "terminated", "skipped"}

Settled(t) == \E i \in 1 .. Len(run.events[t]) : run.events[t][i] \in Terminal

finished(s) == s.passed + s.failed + s.terminated + s.skipped

not_run(s) == Len(Items) - finished(s)

\* The process exit of engine::run.
exit_code ==
  IF run.stats.failed > 0 \/ run.stats.terminated > 0 \/ cancel THEN "TEST_RUN_FAILED"
  ELSE IF run.stats.skipped > 0 THEN "SETUP_ERROR" ELSE "OK"

(* The loop's state has its types. *)
LoopTypeOK ==
  /\ SchedulerType(run.sched)
  /\ run.inflight \subseteq Entry
  /\ run.parked \in [DOMAIN run.parked -> Nat \ {0}] /\ DOMAIN run.parked \subseteq Tests
  /\ run.ready \in Seq(Entry)
  /\ run.stats \in Tally
  /\ run.events \in [Tests -> Seq(Terminal \cup {"started", "retrying"})]
  /\ pc \in {"start", "top", "select", "done"}
  /\ {run.tripped, cancelled, cancel} \subseteq BOOLEAN
  /\ reported \in [committed : Amount, demand : Amount]
  /\ cap_rx \in Amount \cup {NoCeiling}
  /\ published \in 0 .. MaxPublished
  /\ cfg \in Configs

(***************************************************************************)
(* The loop and the admission core agree, whatever completed, was retried  *)
(* or re-ceilinged in between: every test that runs or waits to be spawned *)
(* holds the lease the core minted for it, and while the run admits, the   *)
(* core holds no other lease, its queue is exactly `parked`, and what is   *)
(* neither finished nor in flight is parked or ready (the `queued` that    *)
(* `progress_of` derives, schedule.rs:397); and no lease is idle: a        *)
(* granted test waits only because max_inflight tests run.                 *)
(***************************************************************************)
LoopMatchesScheduler ==
  pc # "start" =>
    /\ \A e \in Held : e.slot \in DOMAIN run.sched.leases /\ run.sched.leases[e.slot] = e.test
    /\ \A e, f \in Held : e.test = f.test => e = f
    /\ ~ Stopped =>
         /\ DOMAIN run.sched.leases = {e.slot : e \in Held}
         /\ DOMAIN run.parked = {run.sched.queue[i] : i \in DOMAIN run.sched.queue}
         /\ not_run(run.stats) - Cardinality(run.inflight)
              = Cardinality(DOMAIN run.parked) + Len(run.ready)
         /\ run.ready # <<>> => Cardinality(run.inflight) = cfg.max_inflight

(***************************************************************************)
(* No test starts once the cancel flag is set: not from the completion of  *)
(* a test the cancel itself killed (schedule.rs:259 "must not sneak a      *)
(* parked test in first"), not from a moved ceiling.                       *)
(***************************************************************************)
NoStartAfterCancel ==
  [][cancel /\ pc # "start" => \A t \in Tests : Started(t)' = Started(t)]_vars

(***************************************************************************)
(* What a run that was neither cancelled nor tripped leaves behind: only   *)
(* tests larger than the ceiling as last reconciled.  Every other test got *)
(* a verdict or was reported skipped.                                      *)
(***************************************************************************)
OnlyOversizedLeftBehind ==
  pc = "done" /\ ~ Stopped =>
    \A i \in 1 .. Len(Items) :
      \/ Settled(Items[i])
      \/ Items[i] \in DOMAIN run.parked /\ ExceedsClusterCapacity(run.sched, Items[i])

(* The run ends: every start is matched by a completion, retries run out.  *)
(* The code waits on nothing but the tests in flight (schedule.rs:188).    *)
Terminates == <>(pc = "done")

-----------------------------------------------------------------------------
Phase(t) == IF Settled(t) THEN "settled"
            ELSE IF \E e \in run.inflight : e.test = t THEN "running" ELSE "waiting"

Lifecycle == INSTANCE TestLifecycle
               WITH phase    <- [t \in Tests |-> Phase(t)],
                    attempts <- [t \in Tests |-> Started(t)],
                    closing  <- Stopped,
                    closed   <- pc = "done"

(***************************************************************************)
(* The run loop keeps the promises of TestLifecycle: queues, slots,        *)
(* ceilings and the two reads of the cancel flag are invisible in it.      *)
(***************************************************************************)
ImplementsLifecycle == Lifecycle!Spec

-----------------------------------------------------------------------------
(***************************************************************************)
(* events.rs:87, of `not_run`: "Non-zero only on a run closed short        *)
(* (cancel, fail-fast)".                                                   *)
(***************************************************************************)
NotRunOnlyWhenClosedShort ==
  pc = "done" /\ not_run(run.stats) > 0 => Stopped

(***************************************************************************)
(* events.rs:87, of `not_run`: "Tests that never started".                 *)
(***************************************************************************)
NotRunNeverStarted ==
  pc = "done" =>
    not_run(run.stats) = Cardinality({t \in Tests : ~ Settled(t) /\ Started(t) = 0})

(***************************************************************************)
(* events.rs:44, of the reason a TestSkipped carries: "Why a test never    *)
(* ran".                                                                   *)
(***************************************************************************)
SkippedNeverRan ==
  \A t \in Tests : (\E i \in 1 .. Len(run.events[t]) : run.events[t][i] = "skipped")
                     => Started(t) = 0

=============================================================================
