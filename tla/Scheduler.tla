------------------------------ MODULE Scheduler ------------------------------
(***************************************************************************)
(* The admission core as a state machine: one action per public operation  *)
(* of src/qos/scheduler.rs.  A client requests a test it has neither       *)
(* queued nor running (the run loop's protocol), releases slots it holds   *)
(* or held, and reconciles the ceiling to any amount.                      *)
(***************************************************************************)
EXTENDS SchedulerCore

CONSTANTS Ceilings,     \* the ceilings `new` and `reconcile` are given
          BudgetChoices,\* the budgets `set_sa_budget` is given
          MaxRequests   \* bound on the number of requests that join the queue

ASSUME DriverAssumption ==
         /\ Ceilings \subseteq Amount
         /\ BudgetChoices \subseteq Budgets
         /\ MaxRequests \in Nat

VARIABLE sched

Init == \E ceiling \in Ceilings :
          sched = new(ceiling, [a \in ServiceAccounts |-> Unlimited])

Idle(t) == /\ \A i \in DOMAIN sched.queue : sched.queue[i] # t
           /\ \A l \in DOMAIN sched.leases : sched.leases[l] # t

\* "the shell registers every authorized SA at startup": budgets are set
\* before the first request.
SetSaBudget(a, budget) ==
  /\ sched.next_seq = 0
  /\ sched' = set_sa_budget(sched, a, budget)

Request(t) ==
  /\ Idle(t)
  /\ sched.next_seq < MaxRequests
  /\ sched' = request(sched, t)

\* Any slot ever minted: releasing one that is gone is a no-op.
Release(slot) == sched' = release(sched, slot)

Disconnect(slot) == sched' = disconnect(sched, slot)

Reconcile(ceiling) == sched' = reconcile(sched, ceiling)

Next ==
  \/ \E a \in ServiceAccounts, budget \in BudgetChoices : SetSaBudget(a, budget)
  \/ \E t \in Tests : Request(t)
  \/ \E slot \in 0 .. sched.next_slot_id - 1 : Release(slot) \/ Disconnect(slot)
  \/ \E ceiling \in Ceilings : Reconcile(ceiling)

Spec == Init /\ [][Next]_sched

-----------------------------------------------------------------------------
(* The scheduler's fields have their types. *)
TypeOK == SchedulerType(sched)

(***************************************************************************)
(* Work conservation: between operations no queued request fits.  Every    *)
(* operation that can free capacity ends with a pass, and one pass         *)
(* suffices ("admission only consumes capacity -> no grant can enable a    *)
(* skipped one", scheduler.rs:253).                                        *)
(***************************************************************************)
NoQueuedFits ==
  \A i \in DOMAIN sched.queue : ~ fits_now(sched, sched.queue[i])

\* w[0] + ... + w[n - 1].
Sum(w, n) ==
  LET upto[i \in 0 .. n] == IF i = 0 THEN 0 ELSE upto[i - 1] + w[i - 1]
  IN  upto[n]

\* What the leases of the service accounts in `who` hold of dimension d.
Charged(s, who, d) ==
  Sum([l \in 0 .. s.next_slot_id - 1 |->
         IF l \in DOMAIN s.leases /\ Sa[s.leases[l]] \in who
         THEN Footprint[s.leases[l]][d] ELSE 0],
      s.next_slot_id)

(***************************************************************************)
(* The books balance: `committed` is the sum of the live leases, and each  *)
(* SA's usage the sum of its own, after any mix of grants, releases,       *)
(* releases of a slot that is gone, and ceilings below what is committed.  *)
(***************************************************************************)
CommittedIsTheSumOfLeases ==
  \A d \in Dims :
    /\ sched.committed[d] = Charged(sched, ServiceAccounts, d)
    /\ \A a \in ServiceAccounts : sched.sa_usage[a][d] = Charged(sched, {a}, d)

(***************************************************************************)
(* The assertion of `request` (scheduler.rs:166): a fresh enqueue admits   *)
(* at most one request, and it is the one that just arrived.               *)
(***************************************************************************)
FreshEnqueueAdmitsOnlyItself ==
  [][sched'.next_seq # sched.next_seq =>
       /\ sched'.next_slot_id <= sched.next_slot_id + 1
       /\ \A i \in DOMAIN sched.queue : i \in DOMAIN sched'.queue]_sched

(***************************************************************************)
(* No overload: whatever the ceiling did before, a step that commits more  *)
(* of a dimension leaves that dimension within the ceiling (the assertion  *)
(* of `admit`, scheduler.rs:274, over a whole pass).                       *)
(***************************************************************************)
NoOverload ==
  [][\A d \in Dims : sched'.committed[d] > sched.committed[d]
                       => sched'.committed[d] <= sched'.available[d]]_sched

(***************************************************************************)
(* Arrival order: a request is admitted ahead of an earlier one that stays *)
(* queued only if the earlier one could not have taken its place: it is    *)
(* charged to another SA or asks for more in some dimension ("A skipped    *)
(* request keeps its place", docs/design-qos.md).                          *)
(***************************************************************************)
NoOvertaking ==
  [][\A slot \in Grants(sched, sched'), i \in DOMAIN sched.queue \cap DOMAIN sched'.queue :
       LET t == sched'.leases[slot]
           earlier == sched.queue[i]
       IN  /\ \A j \in DOMAIN sched.queue : sched.queue[j] = t => i < j
           /\ Sa[earlier] = Sa[t]
           => ~ fits_within(Footprint[earlier], Footprint[t])]_sched

=============================================================================
