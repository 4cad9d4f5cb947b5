---------------------------- MODULE SchedulerCore ----------------------------
(***************************************************************************)
(* The pure admission core, src/qos/scheduler.rs: operators on a record    *)
(* that holds the fields of `struct Scheduler`.  The state machine         *)
(* Scheduler drives it through its public operations; RunLoop calls it the *)
(* way the engine's run loop does.                                         *)
(*                                                                         *)
(* Abstractions: a Request is the test that makes it (Footprint and Sa     *)
(* give its other fields); an SA without an entry in `sa_usage` has usage  *)
(* ZERO there, as `sa_usage()` reads it; `queue` maps the arrival number   *)
(* `seq` of each Pending entry to its test, `leases` the slot id of each   *)
(* lease to its test.                                                      *)
(***************************************************************************)
EXTENDS Resources

CONSTANTS Tests,            \* test identities
          ServiceAccounts,  \* service accounts a request is charged to
          Footprint,        \* what each test asks for
          Sa,               \* the service account of each test
          Unlimited         \* the budget of an SA that registered none

ASSUME SchedulerAssumption ==
         /\ Footprint \in [Tests -> Amount]
         /\ Sa \in [Tests -> ServiceAccounts]
         /\ Unlimited \notin Amount

Budgets == Amount \cup {Unlimited}

\* HashMap::insert and HashMap::remove on a partial function.
Insert(m, k, v) == [x \in DOMAIN m \cup {k} |-> IF x = k THEN v ELSE m[x]]
Remove(m, k) == [x \in DOMAIN m \ {k} |-> m[x]]

EmptyMap == [x \in {} |-> {}]

-----------------------------------------------------------------------------
new(ceiling, budgets) ==
  [available    |-> ceiling,
   committed    |-> ZERO,
   leases       |-> EmptyMap,
   queue        |-> EmptyMap,
   sa_budgets   |-> budgets,
   sa_usage     |-> [a \in ServiceAccounts |-> ZERO],
   next_seq     |-> 0,
   next_slot_id |-> 0]

set_sa_budget(s, a, budget) ==
  [s EXCEPT !.sa_budgets = [b \in ServiceAccounts |->
                              IF b = a THEN budget ELSE s.sa_budgets[b]]]

\* Room: t's footprint fits what `used` leaves of `cap`.
Room(t, cap, used) == fits_within(Footprint[t], saturating_sub(cap, used))

ExceedsClusterCapacity(s, t) == ~ fits_within(Footprint[t], s.available)

ExceedsSaBudget(s, t) ==
  LET budget == s.sa_budgets[Sa[t]]
  IN  budget # Unlimited /\ ~ fits_within(Footprint[t], budget)

\* `decide` rejects against the maxima, independent of the current load ...
rejected(s, t) == ExceedsClusterCapacity(s, t) \/ ExceedsSaBudget(s, t)

\* Mutant: the pool check compares with the ceiling, not with what is free.
fits_now_ignoring_load(s, t) ==
  LET budget == s.sa_budgets[Sa[t]]
  IN  ~ rejected(s, t) /\ (budget # Unlimited => Room(t, budget, s.sa_usage[Sa[t]]))

\* ... and grants what fits the free capacity and the SA's remaining budget;
\* everything else is queued.
fits_now(s, t) ==
  LET budget == s.sa_budgets[Sa[t]]
  IN  /\ ~ rejected(s, t)
      /\ Room(t, s.available, s.committed)
      /\ budget # Unlimited => Room(t, budget, s.sa_usage[Sa[t]])

\* The usage of t's service account, with t's footprint added and taken off.
charge(usage, t) == [usage EXCEPT ![Sa[t]] = saturating_add(@, Footprint[t])]
credit(usage, t) == [usage EXCEPT ![Sa[t]] = saturating_sub(@, Footprint[t])]

\* Admit the queued entry i: charge the pool and the SA, mint a lease.
admit(s, i) ==
  LET t == s.queue[i]
  IN  [s EXCEPT !.committed = saturating_add(@, Footprint[t]),
                !.sa_usage = charge(@, t),
                !.leases = Insert(@, s.next_slot_id, t),
                !.next_slot_id = @ + 1,
                !.queue = Remove(@, i)]

\* One iteration of the loop of schedule_pass, at arrival number i.
visit(s, i) == IF i \in DOMAIN s.queue /\ fits_now(s, s.queue[i]) THEN admit(s, i) ELSE s

\* Mutant: the pass walks the queue from its newest entry.
schedule_pass_newest_first(s) ==
  LET after[i \in 0 .. s.next_seq] ==
        IF i = 0 THEN s ELSE visit(after[i - 1], s.next_seq - i)
  IN  after[s.next_seq]

schedule_pass(s) ==
  LET after[i \in 0 .. s.next_seq] == IF i = 0 THEN s ELSE visit(after[i - 1], i - 1)
  IN  after[s.next_seq]

enqueue(s, t) == [s EXCEPT !.queue = Insert(@, s.next_seq, t), !.next_seq = @ + 1]

request(s, t) == IF rejected(s, t) THEN s ELSE schedule_pass(enqueue(s, t))

\* Mutant: the pool is not credited.
give_back_sa_only(s, slot) ==
  [s EXCEPT !.leases = Remove(@, slot), !.sa_usage = credit(@, s.leases[slot])]

\* What releasing a live slot gives back before the pass runs.
give_back(s, slot) ==
  LET t == s.leases[slot]
  IN  [s EXCEPT !.leases = Remove(@, slot),
                !.committed = saturating_sub(@, Footprint[t]),
                !.sa_usage = credit(@, t)]

\* Mutant: no pass after the capacity is freed.
release_without_pass(s, slot) ==
  IF slot \in DOMAIN s.leases THEN give_back(s, slot) ELSE s

release(s, slot) ==
  IF slot \in DOMAIN s.leases THEN schedule_pass(give_back(s, slot)) ELSE s

disconnect(s, slot) == release(s, slot)

reconcile(s, ceiling) == schedule_pass([s EXCEPT !.available = ceiling])

\* What the run could use: the committed leases and every queued footprint.
demand(s) ==
  LET upto[i \in 0 .. s.next_seq] ==
        IF i = 0 THEN s.committed
        ELSE IF i - 1 \in DOMAIN s.queue
        THEN saturating_add(upto[i - 1], Footprint[s.queue[i - 1]])
        ELSE upto[i - 1]
  IN  upto[s.next_seq]

Records(leases, queues) ==
  [available    : Amount,
   committed    : Amount,
   leases       : leases,
   queue        : queues,
   sa_budgets   : [ServiceAccounts -> Budgets],
   sa_usage     : [ServiceAccounts -> Amount],
   next_seq     : Nat,
   next_slot_id : Nat]

\* The field types: counters bound the keys of the queue and the lease table.
SchedulerType(s) ==
  /\ s \in Records({s.leases}, {s.queue})
  /\ s.queue \in [DOMAIN s.queue -> Tests]
  /\ DOMAIN s.queue \subseteq 0 .. s.next_seq - 1
  /\ s.leases \in [DOMAIN s.leases -> Tests]
  /\ DOMAIN s.leases \subseteq 0 .. s.next_slot_id - 1

\* The slots a call admitted: the grants it returns.
Grants(before, after) == DOMAIN after.leases \ DOMAIN before.leases

=============================================================================
