-------------------------- MODULE RunLoopProofs ---------------------------
(***************************************************************************)
(* Theorems about the run loop, for every suite, retry budget, footprint,  *)
(* configuration and sequence of ceilings: it agrees with the admission    *)
(* core it drives, leaves no test behind that could run, starts nothing    *)
(* once cancelled, and implements the lifecycle a test is promised.  The   *)
(* module closes with the library facts the lemmas assume and with the     *)
(* theorems of the admission core, which rest on SchedulerProofs.          *)
(***************************************************************************)
EXTENDS SchedulerProofs

-----------------------------------------------------------------------------
(* The initial sweep. *)

Covered(r, i) == \A j \in 1 .. i : Over(r, Items[j]) \/ ~ Absent(r, Items[j])

(* The sweep after its first i items.                                      *)
Swept(r, i) ==
  /\ Kept(r) /\ Agree(r, 0, 0)
  /\ r.inflight = {} /\ ~ r.tripped
  /\ Count(r) = i
  /\ \A t \in Tests : Attempts(r, t) = 0
  /\ Covered(r, i)
  /\ \A t \in Tests : (\A j \in 1 .. i : Items[j] # t) => Absent(r, t) /\ r.events[t] = <<>>

LEMMA NoHistory ==
  ASSUME LibraryFacts
  PROVE  StartsIn(<<>>) = 0 /\ ~ EndsIn(<<>>)
<1>1. Len(<<>>) = 0 /\ 1 .. 0 = {}
  OBVIOUS
<1>2. {i \in 1 .. Len(<<>>) : <<>>[i] = "started"} = {}
  BY <1>1
<1>3. Cardinality({}) = 0
  BY DEF LibraryFacts, Counting
<1> QED
  BY <1>1, <1>2, <1>3, Zenon DEF StartsIn, EndsIn

LEMMA SweepItemGood ==
  ASSUME LibraryFacts, NEW r, NEW i \in 0 .. Len(Items) - 1, Swept(r, i)
  PROVE  Swept(sweep_item(r, Items[i + 1]), i + 1)
<1> DEFINE t == Items[i + 1]
           q == sweep_item(r, t)
<1>1. Items \in Seq(Tests) /\ \A k, j \in 1 .. Len(Items) : Items[k] = Items[j] => k = j
  BY RunLoopAssumption, Zenon
<1>2. /\ i + 1 \in 1 .. Len(Items) /\ 1 .. i + 1 = (1 .. i) \cup {i + 1}
      /\ 1 .. i \subseteq 1 .. Len(Items) /\ i + 1 \notin 1 .. i /\ i \in Nat
  BY <1>1
<1>3. t \in Tests
  BY <1>1, <1>2
<1>4. \A j \in 1 .. i : Items[j] # t
  BY <1>1, <1>2, Zenon
<1> HIDE DEF t
<1>5. Kept(r) /\ Absent(r, t) /\ r.events[t] = <<>>
  BY <1>3, <1>4, Zenon DEF Swept
<1>6. Due(r, t, 1) /\ 1 \in Nat \ {0}
  <2>1. Attempts(r, t) = 0 /\ ~ Over(r, t)
    BY <1>5, NoHistory, Zenon DEF Attempts, Over
  <2>2. Retries[t] \in Nat
    BY <1>3, RunLoopAssumption
  <2>3. 1 = 0 + 1 /\ 0 <= Retries[t]
    BY <2>2
  <2> QED
    BY <2>1, <2>3 DEF Due
<1>7. Handled(r, q, t)
  <2>1. CASE t \in cfg.unmet
    BY <1>3, <1>5, <2>1, SettleGood, EventNames, Zenon DEF sweep_item
  <2>2. CASE t \notin cfg.unmet
    BY <1>3, <1>5, <1>6, <2>2, SubmitGood, Zenon DEF sweep_item
  <2> QED
    BY <2>1, <2>2, Zenon
<1> HIDE DEF q
<1>8. Kept(q) /\ q.inflight = {} /\ ~ q.tripped /\ \A u \in Tests : Attempts(q, u) = 0
  BY <1>7, Zenon DEF Handled, Swept
<1>9. Agree(q, 0, 0)
  <2>1. 0 \in Nat
    OBVIOUS
  <2> QED
    BY <1>7, <2>1, Zenon DEF Handled, Swept
<1>10. Count(q) = i + 1
  BY <1>7, Zenon DEF Handled, Swept
<1>11. Covered(q, i + 1)
  <2>1. ASSUME NEW j \in 1 .. i PROVE Over(q, Items[j]) \/ ~ Absent(q, Items[j])
    <3>1. Items[j] \in Tests \ {t}
      BY <1>1, <1>2, <1>4
    <3>2. q.events[Items[j]] = r.events[Items[j]] /\ (Absent(q, Items[j]) <=> Absent(r, Items[j]))
      BY <1>7, <3>1, Zenon DEF Handled
    <3>3. Over(r, Items[j]) \/ ~ Absent(r, Items[j])
      BY <2>1, Zenon DEF Swept, Covered
    <3> QED
      BY <3>2, <3>3, Zenon DEF Over
  <2>2. Over(q, t) \/ ~ Absent(q, t)
    BY <1>7, Zenon DEF Handled
  <2>3. Over(q, Items[i + 1]) \/ ~ Absent(q, Items[i + 1])
    BY <2>2, Zenon DEF t
  <2> QED
    BY <1>2, <2>1, <2>3, Zenon DEF Covered
<1>12. ASSUME NEW u \in Tests, \A j \in 1 .. i + 1 : Items[j] # u
       PROVE  Absent(q, u) /\ q.events[u] = <<>>
  <2>1. u \in Tests \ {t} /\ \A j \in 1 .. i : Items[j] # u
    BY <1>2, <1>12, Zenon DEF t
  <2>2. Absent(r, u) /\ r.events[u] = <<>>
    BY <2>1, Zenon DEF Swept
  <2> QED
    BY <1>7, <2>1, <2>2, Zenon DEF Handled
<1>13. \A u \in Tests : (\A j \in 1 .. i + 1 : Items[j] # u) => Absent(q, u) /\ q.events[u] = <<>>
  BY <1>12, Zenon
<1> QED
  BY <1>8, <1>9, <1>10, <1>11, <1>13, Zenon DEF Swept, q, t

IsSweep(f, r, n) ==
  f = [i \in 0 .. n |-> IF i = 0 THEN r ELSE sweep_item(f[i - 1], Items[i])]

LEMMA SweepExists ==
  ASSUME LibraryFacts, NEW r, NEW n \in Nat
  PROVE  \E f : IsSweep(f, r, n)
<1> DEFINE A == {m \in Nat : \E f : IsSweep(f, r, m)}
<1>1. 0 \in A
  <2> DEFINE f == [i \in 0 .. 0 |-> r]
  <2>1. IsSweep(f, r, 0)
    BY DEF IsSweep
  <2> QED
    BY <2>1
<1>2. ASSUME NEW m \in 0 .. n - 1, m \in A PROVE m + 1 \in A
  <2>1. PICK f : IsSweep(f, r, m)
    BY <1>2
  <2> DEFINE g == [i \in 0 .. m + 1 |-> IF i = m + 1 THEN sweep_item(f[m], Items[m + 1]) ELSE f[i]]
  <2>2. IsSweep(g, r, m + 1)
    <3>1. \A i \in 0 .. m : f[i] = IF i = 0 THEN r ELSE sweep_item(f[i - 1], Items[i])
      BY <2>1 DEF IsSweep
    <3>2. \A i \in 0 .. m + 1 : g[i] = IF i = 0 THEN r ELSE sweep_item(g[i - 1], Items[i])
      BY <3>1
    <3> QED
      BY <3>2 DEF IsSweep
  <2> QED
    BY <2>2
<1>3. \A i \in 0 .. n : i \in A
  <2> HIDE DEF A
  <2> QED BY <1>1, <1>2, IntervalInduction
<1> QED
  BY <1>3

LEMMA SweepGood ==
  ASSUME LibraryFacts, NEW r, Swept(r, 0)
  PROVE  Swept(sweep(r), Len(Items))
<1> DEFINE n == Len(Items)
           f == CHOOSE f : IsSweep(f, r, n)
<1>1. n \in Nat
  BY RunLoopAssumption
<1>2. IsSweep(f, r, n)
  <2> HIDE DEF n
  <2> QED BY <1>1, SweepExists
<1>3. sweep(r) = f[n]
  BY DEF sweep, IsSweep
<1> HIDE DEF f, n
<1>4. f[0] = r /\ \A i \in 0 .. n - 1 : f[i + 1] = sweep_item(f[i], Items[i + 1])
  BY <1>1, <1>2 DEF IsSweep
<1> DEFINE A == {i \in 0 .. n : Swept(f[i], i)}
<1>5. 0 \in A
  <2>1. 0 \in 0 .. n
    BY <1>1
  <2> QED
    BY <1>4, <2>1, Zenon
<1>6. ASSUME NEW i \in 0 .. n - 1, i \in A PROVE i + 1 \in A
  <2>1. Swept(f[i], i) /\ i \in 0 .. Len(Items) - 1
    BY <1>6, Zenon DEF n
  <2>2. Swept(f[i + 1], i + 1)
    BY <1>4, <2>1, SweepItemGood, Zenon
  <2>3. i + 1 \in 0 .. n
    BY <1>1
  <2> QED
    BY <2>2, <2>3, Zenon
<1>7. \A i \in 0 .. n : i \in A
  <2> HIDE DEF A
  <2> QED BY <1>1, <1>5, <1>6, IntervalInduction
<1>8. Swept(f[n], n)
  <2>1. n \in 0 .. n
    BY <1>1
  <2> QED
    BY <1>7, <2>1, Zenon
<1> QED
  BY <1>3, <1>8, Zenon DEF n

-----------------------------------------------------------------------------
(* A completion or a moved ceiling: the core runs a pass. *)

LEMMA PassGood ==
  ASSUME LibraryFacts, NEW r, Kept(r),
         NEW s, SchedulerType(s), Books(s), s.sa_budgets = r.sched.sa_budgets,
         s.queue = r.sched.queue, s.next_slot_id = r.sched.next_slot_id,
         NEW q, q \in RunFields({schedule_pass(s)}, {r.parked}),
         q.sched = schedule_pass(s), q.parked = r.parked, q.ready = r.ready,
         q.events = r.events, q.inflight \subseteq r.inflight,
         \A f \in HeldBy(q) : Leased(s, f),
         \A l \in DOMAIN s.leases : /\ l \in DOMAIN r.sched.leases
                                    /\ \A f \in HeldBy(r) : f \notin HeldBy(q) => f.slot # l
  PROVE  /\ Kept(q)
         /\ r.sched.next_slot_id \in Nat /\ q.sched.next_slot_id \in Nat
         /\ r.sched.next_slot_id <= q.sched.next_slot_id
         /\ Agree(r, 0, 0) => Agree(q, r.sched.next_slot_id, q.sched.next_slot_id)
<1> DEFINE z == schedule_pass(s)
           lo == r.sched.next_slot_id
           hi == z.next_slot_id
<1>1. RunType(r) /\ Placed(r) /\ Apart(r) /\ Admits(r.sched)
  BY Zenon DEF Kept, RunType
<1>2. Distinct(s.queue)
  BY <1>1, Zenon DEF Apart
<1>3. Frame(s, z) /\ Handed(s, z)
  BY <1>2, PassHands, Zenon
<1>4. SchedulerType(z) /\ NoneFits(z)
  BY PassSettles, Zenon DEF NoneFits
<1>5. Books(z)
  BY PassBooks, Zenon
<1> HIDE DEF z
<1>6. Admits(z)
  BY <1>1, <1>3, <1>4, <1>5, Zenon DEF Admits, Frame
<1>7. q.sched = z /\ q \in RunFields({z}, {r.parked})
  BY Zenon DEF z
<1>8. IsFiniteSet(q.inflight)
  <2> DEFINE F == r.inflight
             G == q.inflight
  <2>1. IsFiniteSet(F) /\ G \subseteq F
    BY <1>1, Zenon DEF RunType
  <2> HIDE DEF F, G
  <2>2. IsFiniteSet(G)
    BY <2>1 DEF LibraryFacts, Counting
  <2> QED
    BY <2>2, Zenon DEF G
<1>9. RunType(q)
  BY <1>1, <1>6, <1>7, <1>8, Zenon DEF RunType
<1>10. HeldBy(q) \subseteq HeldBy(r) /\ Granted(q.ready) = Granted(r.ready)
  BY Zenon DEF HeldBy
<1>11. /\ \A u : ~ Over(q, u) <=> ~ Over(r, u)
       /\ \A u : Attempts(q, u) = Attempts(r, u)
       /\ \A u, n : Due(q, u, n) <=> Due(r, u, n)
  BY SameEvents, Zenon
<1>12. /\ DOMAIN z.queue \subseteq DOMAIN r.sched.queue
       /\ \A k \in DOMAIN z.queue : z.queue[k] = r.sched.queue[k]
  BY <1>3, Zenon DEF Frame
<1>13. Placed(q)
  <2>1. \A f \in HeldBy(q) : Leased(q.sched, f)
    <3>1. \A l \in DOMAIN s.leases : l \in DOMAIN z.leases /\ z.leases[l] = s.leases[l]
      BY <1>3, Zenon DEF Handed
    <3> QED
      BY <1>7, <3>1, Zenon DEF Leased
  <2>2. \A f \in HeldBy(q) : ~ Over(q, f.test)
    BY <1>1, <1>10, <1>11, Zenon DEF Placed
  <2>3. \A f \in q.inflight : f.attempt = Attempts(q, f.test)
    BY <1>1, <1>11, Zenon DEF Placed
  <2>4. \A f \in Granted(q.ready) : Due(q, f.test, f.attempt)
    BY <1>1, <1>10, <1>11, Zenon DEF Placed
  <2>5. \A u \in DOMAIN q.parked : Due(q, u, q.parked[u])
    BY <1>1, <1>11, Zenon DEF Placed
  <2>6. \A i \in DOMAIN q.sched.queue : q.sched.queue[i] \in DOMAIN q.parked
    BY <1>1, <1>7, <1>12, Zenon DEF Placed
  <2> QED
    BY <2>1, <2>2, <2>3, <2>4, <2>5, <2>6, Zenon DEF Placed
<1>14. Apart(q)
  <2>1. Distinct(q.sched.queue)
    BY <1>1, <1>7, <1>12, Zenon DEF Apart, Distinct
  <2>2. \A e, f \in HeldBy(q) : e.test = f.test => e = f
    BY <1>1, <1>10, Zenon DEF Apart
  <2>3. TestsApart(q.ready) /\ \A e \in q.inflight : e \notin Granted(q.ready)
    BY <1>1, <1>10, Zenon DEF Apart
  <2>4. \A e \in HeldBy(q) : e.test \notin DOMAIN q.parked
    BY <1>1, <1>10, Zenon DEF Apart
  <2> QED
    BY <2>1, <2>2, <2>3, <2>4, Zenon DEF Apart
<1>15. lo \in Nat /\ hi \in Nat /\ lo <= hi
  <2>1. lo \in Nat
    BY <1>1 DEF Admits, SchedulerType, Records
  <2>2. hi \in Nat
    BY <1>4 DEF SchedulerType, Records
  <2> QED
    BY <1>3, <2>1, <2>2, Zenon DEF Handed
<1>16. ASSUME Agree(r, 0, 0) PROVE Agree(q, lo, hi)
  <2>1. Fresh(s, z) = lo .. hi - 1
    BY Zenon DEF Fresh
  <2>2. 0 .. 0 - 1 = {}
    OBVIOUS
  <2>3. ASSUME NEW l \in lo .. hi - 1
        PROVE  /\ l \in DOMAIN z.leases
               /\ z.leases[l] \in DOMAIN r.parked
               /\ \A i \in DOMAIN z.queue : z.queue[i] # z.leases[l]
    <3>1. PICK j \in DOMAIN s.queue \ DOMAIN z.queue : z.leases[l] = s.queue[j]
      BY <1>3, <2>1, <2>3, Zenon DEF Handed
    <3>2. l \in DOMAIN z.leases
      BY <1>3, <2>1, <2>3, Zenon DEF Handed
    <3>3. z.leases[l] \in DOMAIN r.parked
      BY <1>1, <3>1, Zenon DEF Placed
    <3>4. \A i \in DOMAIN z.queue : z.queue[i] # z.leases[l]
      <4>1. \A i \in DOMAIN z.queue : i \in DOMAIN s.queue /\ i # j /\ z.queue[i] = s.queue[i]
        BY <1>12, <3>1, Zenon
      <4>2. \A i \in DOMAIN s.queue : s.queue[i] = s.queue[j] => i = j
        BY <1>2, <3>1, Zenon DEF Distinct
      <4> QED
        BY <3>1, <4>1, <4>2, Zenon
    <3> QED
      BY <3>2, <3>3, <3>4, Zenon
  <2>4. \A l, m \in lo .. hi - 1 : z.leases[l] = z.leases[m] => l = m
    BY <1>3, <2>1, Zenon DEF Handed
  <2>5. ASSUME NEW l \in DOMAIN z.leases, l \notin lo .. hi - 1 PROVE \E e \in HeldBy(q) : e.slot = l
    <3>1. l \in DOMAIN s.leases
      BY <1>3, <2>1, <2>5, Zenon DEF Handed
    <3>2. PICK e \in HeldBy(r) : e.slot = l
      BY <1>16, <2>2, <3>1, Zenon DEF Agree
    <3> QED
      BY <3>1, <3>2, Zenon
  <2>6. ASSUME NEW t \in DOMAIN r.parked
        PROVE  \/ \E i \in DOMAIN z.queue : z.queue[i] = t
               \/ \E l \in lo .. hi - 1 : z.leases[l] = t
    <3>1. PICK i \in DOMAIN r.sched.queue : r.sched.queue[i] = t
      BY <1>16, <2>2, Zenon DEF Agree
    <3>2. CASE i \in DOMAIN z.queue
      BY <1>12, <3>1, <3>2, Zenon
    <3>3. CASE i \notin DOMAIN z.queue
      <4>1. i \in DOMAIN s.queue \ DOMAIN z.queue /\ s.queue[i] = t
        BY <3>1, <3>3, Zenon
      <4>2. \E l \in Fresh(s, z) : z.leases[l] = s.queue[i]
        BY <1>3, <4>1, Zenon DEF Handed
      <4> QED
        BY <2>1, <4>1, <4>2, Zenon
    <3> QED
      BY <3>2, <3>3, Zenon
  <2>7. /\ \A l \in lo .. hi - 1 : /\ l \in DOMAIN q.sched.leases
                                  /\ q.sched.leases[l] \in DOMAIN q.parked
                                  /\ \A i \in DOMAIN q.sched.queue : q.sched.queue[i] # q.sched.leases[l]
        /\ \A l, m \in lo .. hi - 1 : q.sched.leases[l] = q.sched.leases[m] => l = m
    BY <1>7, <2>3, <2>4, Zenon
  <2>8. \A l \in DOMAIN q.sched.leases : l \in lo .. hi - 1 \/ \E e \in HeldBy(q) : e.slot = l
    BY <1>7, <2>5, Zenon
  <2>9. \A t \in DOMAIN q.parked : \/ \E i \in DOMAIN q.sched.queue : q.sched.queue[i] = t
                                   \/ \E l \in lo .. hi - 1 : q.sched.leases[l] = t
    BY <1>7, <2>6, Zenon
  <2> QED
    BY <2>7, <2>8, <2>9, Zenon DEF Agree
<1> QED
  BY <1>7, <1>9, <1>13, <1>14, <1>15, <1>16, Zenon DEF Kept

Freed(r, e) == [r EXCEPT !.inflight = @ \ {e}, !.sched = release(@, e.slot)]

LEMMA FreedGood ==
  ASSUME LibraryFacts, NEW r, Kept(r), NEW e \in r.inflight
  PROVE  LET q == Freed(r, e)
             lo == r.sched.next_slot_id
             hi == q.sched.next_slot_id
         IN  /\ Kept(q) /\ Absent(q, e.test)
             /\ q.inflight = r.inflight \ {e} /\ q.tripped = r.tripped /\ q.events = r.events
             /\ Cardinality(q.inflight) + 1 = Cardinality(r.inflight)
             /\ Count(q) + 1 = Count(r)
             /\ \A u : u # e.test => (Absent(q, u) <=> Absent(r, u))
             /\ lo \in Nat /\ hi \in Nat /\ lo <= hi
             /\ Agree(r, 0, 0) => Agree(q, lo, hi)
<1> DEFINE s == give_back(r.sched, e.slot)
           z == schedule_pass(s)
           q == Freed(r, e)
           infl == r.inflight \ {e}
<1>1. /\ RunType(r) /\ Placed(r) /\ Apart(r) /\ Admits(r.sched)
      /\ SchedulerType(r.sched) /\ Books(r.sched)
      /\ r \in RunFields({r.sched}, {r.parked}) /\ r.inflight \in SUBSET Entry
  BY Fields, Zenon DEF Kept, RunType, Admits
<1>2. e \in HeldBy(r) /\ r.inflight \subseteq HeldBy(r)
  BY Zenon DEF HeldBy
<1>3. e.slot \in DOMAIN r.sched.leases /\ r.sched.leases[e.slot] = e.test
  BY <1>1, <1>2, Zenon DEF Placed, Leased
<1>4. /\ SchedulerType(s) /\ s.queue = r.sched.queue
      /\ s.leases = Remove(r.sched.leases, e.slot)
      /\ s.sa_budgets = r.sched.sa_budgets /\ s.next_slot_id = r.sched.next_slot_id
  BY <1>1, <1>3, GiveBackType
<1>5. Books(s)
  BY <1>1, <1>3, GiveBackBooks, Zenon
<1>6. q = [r EXCEPT !.inflight = infl, !.sched = z]
  <2>1. release(r.sched, e.slot) = z
    BY <1>3, Zenon DEF release
  <2> QED
    BY <2>1, Zenon DEF Freed
<1> HIDE DEF s, z, q
<1>7. /\ q \in RunFields({z}, {r.parked})
      /\ q.sched = z /\ q.inflight = infl /\ q.parked = r.parked
      /\ q.ready = r.ready /\ q.stats = r.stats /\ q.tripped = r.tripped
      /\ q.events = r.events
  <2>1. infl \in SUBSET Entry
    BY <1>1, Zenon
  <2> HIDE DEF infl
  <2> QED
    BY <1>1, <1>6, <2>1, Zenon DEF RunFields
<1>8. e \notin Granted(r.ready)
  BY <1>1, Zenon DEF Apart
<1>9. HeldBy(q) = HeldBy(r) \ {e}
  BY <1>7, <1>8, Zenon DEF HeldBy
<1>10. \A f \in HeldBy(q) : f.test # e.test
  BY <1>1, <1>2, <1>9, Zenon DEF Apart
<1>11. DOMAIN s.leases = DOMAIN r.sched.leases \ {e.slot}
       /\ \A l \in DOMAIN s.leases : s.leases[l] = r.sched.leases[l]
  <2>1. s.leases = Remove(r.sched.leases, e.slot)
    BY <1>4
  <2> QED
    BY <2>1 DEF Remove
<1>12. \A f \in HeldBy(q) : Leased(s, f)
  <2> SUFFICES ASSUME NEW f \in HeldBy(q) PROVE Leased(s, f)
    BY Zenon
  <2>1. Leased(r.sched, f)
    BY <1>1, <1>9, Zenon DEF Placed
  <2>2. f.slot # e.slot
    BY <1>3, <1>10, <2>1, Zenon DEF Leased
  <2> QED
    BY <1>11, <2>1, <2>2, Zenon DEF Leased
<1>13. \A l \in DOMAIN s.leases : /\ l \in DOMAIN r.sched.leases
                                  /\ \A f \in HeldBy(r) : f \notin HeldBy(q) => f.slot # l
  BY <1>9, <1>11, Zenon
<1>14. q.sched = schedule_pass(s) /\ q \in RunFields({schedule_pass(s)}, {r.parked})
       /\ q.inflight \subseteq r.inflight
  BY <1>7, Zenon DEF z
<1>15. /\ Kept(q)
       /\ r.sched.next_slot_id \in Nat /\ q.sched.next_slot_id \in Nat
       /\ r.sched.next_slot_id <= q.sched.next_slot_id
       /\ Agree(r, 0, 0) => Agree(q, r.sched.next_slot_id, q.sched.next_slot_id)
  BY <1>4, <1>5, <1>7, <1>12, <1>13, <1>14, PassGood, Zenon
<1>16. Absent(q, e.test)
  BY <1>1, <1>2, <1>7, <1>10, Zenon DEF Absent, Apart
<1>17. \A u : u # e.test => (Absent(q, u) <=> Absent(r, u))
  BY <1>7, <1>9, Zenon DEF Absent
<1>18. Cardinality(q.inflight) + 1 = Cardinality(r.inflight)
  <2> DEFINE F == r.inflight
  <2>1. IsFiniteSet(F) /\ e \in F
    BY <1>1, Zenon DEF RunType
  <2> HIDE DEF F
  <2>2. Cardinality(F \ {e}) = Cardinality(F) - 1 /\ Cardinality(F) \in Nat
    BY <2>1 DEF LibraryFacts, Counting
  <2>3. Cardinality(F \ {e}) + 1 = Cardinality(F)
    BY <2>2
  <2> QED
    BY <1>7, <2>3, Zenon DEF F
<1>19. Count(q) + 1 = Count(r)
  <2> DEFINE a == finished(r.stats)
             b == Cardinality(r.inflight)
             g == Cardinality(q.inflight)
             c == Cardinality(DOMAIN r.parked)
             d == Len(r.ready)
  <2>1. a \in Nat /\ b \in Nat /\ c \in Nat /\ d \in Nat
    BY <1>1, CountType, Zenon
  <2>2. g \in Nat /\ g + 1 = b
    BY <1>15, <1>18, CountType, Zenon DEF Kept
  <2>3. Count(q) = a + g + c + d /\ Count(r) = a + b + c + d
    BY <1>7, Zenon DEF Count
  <2> HIDE DEF a, b, c, d, g
  <2> QED
    BY <2>1, <2>2, <2>3
<1> QED
  BY <1>7, <1>15, <1>16, <1>17, <1>18, <1>19, Zenon DEF q

Moved(r, ceiling) == [r EXCEPT !.sched = reconcile(@, ceiling)]

LEMMA MovedGood ==
  ASSUME LibraryFacts, NEW r, Kept(r), NEW ceiling \in Amount
  PROVE  LET q == Moved(r, ceiling)
             lo == r.sched.next_slot_id
             hi == q.sched.next_slot_id
         IN  /\ Kept(q)
             /\ q.inflight = r.inflight /\ q.tripped = r.tripped /\ q.events = r.events
             /\ Count(q) = Count(r)
             /\ \A u : Absent(q, u) <=> Absent(r, u)
             /\ lo \in Nat /\ hi \in Nat /\ lo <= hi
             /\ Agree(r, 0, 0) => Agree(q, lo, hi)
<1> DEFINE s == [r.sched EXCEPT !.available = ceiling]
           z == schedule_pass(s)
           q == Moved(r, ceiling)
<1>1. /\ RunType(r) /\ Placed(r) /\ Apart(r) /\ Admits(r.sched)
      /\ SchedulerType(r.sched) /\ Books(r.sched)
      /\ r \in RunFields({r.sched}, {r.parked})
  BY Zenon DEF Kept, RunType, Admits
<1>2. /\ SchedulerType(s) /\ s.queue = r.sched.queue /\ s.leases = r.sched.leases
      /\ s.committed = r.sched.committed /\ s.sa_usage = r.sched.sa_usage
      /\ s.sa_budgets = r.sched.sa_budgets /\ s.next_slot_id = r.sched.next_slot_id
  BY <1>1, CeilingType
<1>3. Books(s)
  <2> HIDE DEF s
  <2> QED BY <1>1, <1>2, SameBooks, Zenon
<1>4. q = [r EXCEPT !.sched = z]
  BY Zenon DEF Moved, reconcile
<1> HIDE DEF s, z, q
<1>5. /\ q \in RunFields({z}, {r.parked})
      /\ q.sched = z /\ q.inflight = r.inflight /\ q.parked = r.parked
      /\ q.ready = r.ready /\ q.stats = r.stats /\ q.tripped = r.tripped
      /\ q.events = r.events
  BY <1>1, <1>4 DEF RunFields
<1>6. HeldBy(q) = HeldBy(r)
  BY <1>5, Zenon DEF HeldBy
<1>7. \A f \in HeldBy(q) : Leased(s, f)
  BY <1>1, <1>2, <1>6, Zenon DEF Placed, Leased
<1>8. \A l \in DOMAIN s.leases : /\ l \in DOMAIN r.sched.leases
                                 /\ \A f \in HeldBy(r) : f \notin HeldBy(q) => f.slot # l
  BY <1>2, <1>6, Zenon
<1>9. q.sched = schedule_pass(s) /\ q \in RunFields({schedule_pass(s)}, {r.parked})
      /\ q.inflight \subseteq r.inflight
  BY <1>5, Zenon DEF z
<1>10. /\ Kept(q)
       /\ r.sched.next_slot_id \in Nat /\ q.sched.next_slot_id \in Nat
       /\ r.sched.next_slot_id <= q.sched.next_slot_id
       /\ Agree(r, 0, 0) => Agree(q, r.sched.next_slot_id, q.sched.next_slot_id)
  BY <1>2, <1>3, <1>5, <1>7, <1>8, <1>9, PassGood, Zenon
<1>11. Count(q) = Count(r) /\ \A u : Absent(q, u) <=> Absent(r, u)
  BY <1>5, <1>6, Zenon DEF Count, Absent
<1> QED
  BY <1>5, <1>10, <1>11, Zenon DEF q

-----------------------------------------------------------------------------
(* What becomes of the resolved test, and of the grants. *)

Resulted(r, q, t) ==
  /\ Kept(q) /\ q.inflight = r.inflight /\ (r.tripped => q.tripped)
  /\ \A u \in Tests : Attempts(q, u) = Attempts(r, u)
  /\ \A u \in Tests \ {t} : q.events[u] = r.events[u] /\ (Absent(q, u) <=> Absent(r, u))
  /\ Over(q, t) \/ ~ Absent(q, t)
  /\ Count(q) = Count(r) + 1
  /\ \A lo, hi \in Nat : Agree(r, lo, hi) => Agree(q, lo, hi)

Trip(p, b) == [p EXCEPT !.tripped = @ \/ b]

LEMMA TripGood ==
  ASSUME NEW r, NEW p, NEW t \in Tests, RunType(r), Handled(r, p, t), NEW b \in BOOLEAN
  PROVE  Resulted(r, Trip(p, b), t)
<1> DEFINE trip == p.tripped \/ b
           q == Trip(p, b)
<1>1. Kept(p) /\ RunType(p) /\ Placed(p) /\ Apart(p) /\ p \in RunFields({p.sched}, {p.parked})
  BY Zenon DEF Handled, Kept, RunType
<1>2. q = [p EXCEPT !.tripped = trip] /\ trip \in BOOLEAN
  BY DEF Trip
<1> HIDE DEF q
<1>3. /\ q \in RunFields({p.sched}, {p.parked})
      /\ q.sched = p.sched /\ q.inflight = p.inflight /\ q.parked = p.parked
      /\ q.ready = p.ready /\ q.stats = p.stats /\ q.tripped = trip
      /\ q.events = p.events
  <2> HIDE DEF trip
  <2> QED BY <1>1, <1>2, Zenon DEF RunFields
<1>4. RunType(q)
  BY <1>1, <1>3, Zenon DEF RunType
<1>5. HeldBy(q) = HeldBy(p)
  BY <1>3, Zenon DEF HeldBy
<1>6. /\ \A u : ~ Over(q, u) <=> ~ Over(p, u)
      /\ \A u : Attempts(q, u) = Attempts(p, u)
      /\ \A u, n : Due(q, u, n) <=> Due(p, u, n)
  BY <1>3, SameEvents, Zenon
<1>7. Placed(q)
  BY <1>1, <1>3, <1>5, <1>6, Zenon DEF Placed
<1>8. Apart(q)
  BY <1>1, <1>3, <1>5, Zenon DEF Apart
<1>9. \A u : Absent(q, u) <=> Absent(p, u)
  BY <1>3, <1>5, Zenon DEF Absent
<1>10. Count(q) = Count(p)
  BY <1>3, Zenon DEF Count
<1>11. \A lo, hi \in Nat : Agree(r, lo, hi) => Agree(q, lo, hi)
  BY <1>3, <1>5, AgreeSame, Zenon DEF Handled
<1>12. r.tripped => q.tripped
  BY <1>3, Zenon DEF Handled
<1>13. Kept(q) /\ q.inflight = r.inflight
  BY <1>3, <1>4, <1>7, <1>8, Zenon DEF Kept, Handled
<1>14. \A u \in Tests : Attempts(q, u) = Attempts(r, u)
  BY <1>6, Zenon DEF Handled
<1>15. \A u \in Tests \ {t} : q.events[u] = r.events[u] /\ (Absent(q, u) <=> Absent(r, u))
  BY <1>3, <1>9, Zenon DEF Handled
<1>16. Over(q, t) \/ ~ Absent(q, t)
  BY <1>6, <1>9, Zenon DEF Handled
<1>17. Count(q) = Count(r) + 1
  BY <1>10, Zenon DEF Handled
<1> QED
  BY <1>11, <1>12, <1>13, <1>14, <1>15, <1>16, <1>17, Zenon DEF Resulted, q

LEMMA HandledResulted ==
  ASSUME NEW r, NEW q, NEW t, Handled(r, q, t)
  PROVE  Resulted(r, q, t)
BY Zenon DEF Handled, Resulted

LEMMA RetryGood ==
  ASSUME LibraryFacts, NEW r, Kept(r), NEW t \in Tests, Absent(r, t), ~ Over(r, t),
         NEW n \in Nat \ {0}, n = Attempts(r, t), n <= Retries[t]
  PROVE  Handled(r, submit(emit(r, t, "retrying"), t, n + 1), t)
<1> DEFINE p == emit(r, t, "retrying")
           q == submit(p, t, n + 1)
<1>1. RunType(r)
  BY Zenon DEF Kept
<1>2. /\ RunType(p)
      /\ p.sched = r.sched /\ p.inflight = r.inflight
      /\ p.parked = r.parked /\ p.ready = r.ready
      /\ p.stats = r.stats /\ p.tripped = r.tripped
      /\ p.events = Logged(r, t, "retrying")
  BY <1>1, EventNames, EmitFacts, Zenon
<1> HIDE DEF p
<1>3. /\ Kept(p)
      /\ \A u \in Tests : Attempts(p, u) = Attempts(r, u)
      /\ \A u \in Tests \ {t} : p.events[u] = r.events[u]
      /\ ~ Over(p, t)
      /\ \A u : Absent(p, u) <=> Absent(r, u)
      /\ \A lo, hi \in Nat : Agree(r, lo, hi) => Agree(p, lo, hi)
  <2>1. Noted(r, p, t, "retrying")
    <3>1. "retrying" \in Events /\ "retrying" # "started"
      BY EventNames, Zenon
    <3> QED
      BY <1>2, <3>1, EventGood, Zenon
  <2> QED
    BY <2>1, EventNames, Zenon DEF Noted
<1>4. n + 1 \in Nat \ {0}
  OBVIOUS
<1>5. Due(p, t, n + 1)
  BY <1>3, Zenon DEF Due
<1>6. Handled(p, q, t)
  BY <1>3, <1>4, <1>5, SubmitGood, Zenon
<1> HIDE DEF q
<1>7. Count(p) = Count(r)
  BY <1>2, Zenon DEF Count
<1>8. Kept(q) /\ q.inflight = r.inflight /\ q.tripped = r.tripped
  BY <1>2, <1>6, Zenon DEF Handled
<1>9. \A u \in Tests : Attempts(q, u) = Attempts(r, u)
  BY <1>3, <1>6, Zenon DEF Handled
<1>10. \A u \in Tests \ {t} : q.events[u] = r.events[u] /\ (Absent(q, u) <=> Absent(r, u))
  BY <1>3, <1>6, Zenon DEF Handled
<1>11. (Over(q, t) \/ ~ Absent(q, t)) /\ Count(q) = Count(r) + 1
  BY <1>6, <1>7, Zenon DEF Handled
<1>12. \A lo, hi \in Nat : Agree(r, lo, hi) => Agree(q, lo, hi)
  BY <1>3, <1>6, Zenon DEF Handled
<1> QED
  BY <1>8, <1>9, <1>10, <1>11, <1>12, Zenon DEF Handled, q, p

LEMMA OutcomeGood ==
  ASSUME LibraryFacts, NEW r, Kept(r), NEW e \in Entry, Absent(r, e.test), ~ Over(r, e.test),
         e.attempt = Attempts(r, e.test), cfg.fail_fast \in BOOLEAN,
         NEW v, NEW retry, retry => e.attempt <= Retries[e.test]
  PROVE  Resulted(r, outcome(r, e, v, retry), e.test)
<1> DEFINE t == e.test
           q == outcome(r, e, v, retry)
<1>1. t \in Tests /\ e.attempt \in Nat \ {0}
  BY DEF Entry
<1>2. RunType(r)
  BY Zenon DEF Kept
<1>3. \A field \in Terminal : Handled(r, settle(r, t, field), t)
  BY <1>1, SettleGood, Zenon
<1>4. CASE v = "Pass"
  BY <1>3, <1>4, EventNames, HandledResulted, Zenon DEF outcome
<1>5. CASE v # "Pass" /\ retryable(v) /\ retry
  <2>1. q = submit(emit(r, t, "retrying"), t, e.attempt + 1)
    BY <1>5, Zenon DEF outcome
  <2>2. Handled(r, q, t)
    BY <1>1, <1>5, <2>1, RetryGood, Zenon
  <2> QED
    BY <2>2, HandledResulted, Zenon
<1>6. CASE v # "Pass" /\ ~ (retryable(v) /\ retry) /\ v = "Terminated"
  BY <1>3, <1>6, EventNames, HandledResulted, Zenon DEF outcome
<1>7. CASE v # "Pass" /\ ~ (retryable(v) /\ retry) /\ v # "Terminated"
  <2>1. q = Trip(settle(r, t, "failed"), cfg.fail_fast)
    BY <1>7, Zenon DEF outcome, Trip
  <2>2. Handled(r, settle(r, t, "failed"), t)
    BY <1>3, EventNames, Zenon
  <2> QED
    BY <1>1, <1>2, <2>1, <2>2, TripGood, Zenon
<1> QED
  BY <1>4, <1>5, <1>6, <1>7, Zenon

Admitted(r, q, c) ==
  /\ Kept(q) /\ q.tripped = r.tripped /\ Count(q) = Count(r)
  /\ \A u : Absent(q, u) <=> Absent(r, u)
  /\ Cardinality(q.inflight) <= cfg.max_inflight
  /\ \A t \in Tests : AsBefore(r, q, t) \/ (Launch(r, q, t) /\ ~ r.tripped /\ ~ c)
  /\ ~ r.tripped /\ ~ c =>
       /\ Agree(q, 0, 0)
       /\ q.ready # <<>> => Cardinality(q.inflight) = cfg.max_inflight

(* Admission is gated; when it takes place the loop and the core agree.    *)
LEMMA AdmitGood ==
  ASSUME LibraryFacts, NEW r, Kept(r), cfg.max_inflight \in Nat \ {0},
         Cardinality(r.inflight) <= cfg.max_inflight,
         NEW lo \in Nat, NEW hi \in Nat, lo <= hi, NEW c \in BOOLEAN,
         ~ r.tripped /\ ~ c => Agree(r, lo, hi)
  PROVE  Admitted(r, admit_grants(r, lo, hi, c), c)
<1> DEFINE q == admit_grants(r, lo, hi, c)
           p == take_grants(r, lo, hi)
<1>1. CASE r.tripped \/ c
  <2>1. q = r
    BY <1>1, Zenon DEF admit_grants
  <2>2. \A t \in Tests : AsBefore(r, r, t)
    BY Zenon DEF AsBefore
  <2> QED
    BY <1>1, <2>1, <2>2, Zenon DEF Admitted
<1>2. CASE ~ r.tripped /\ ~ c
  <2>1. q = pump(p)
    BY <1>2, Zenon DEF admit_grants
  <2>2. Taken(r, p) /\ Agree(p, 0, 0)
    BY <1>2, TakeGrantsGood, Zenon
  <2> HIDE DEF p
  <2>3. Kept(p) /\ p.inflight = r.inflight /\ p.events = r.events /\ p.tripped = r.tripped
        /\ Count(p) = Count(r) /\ \A u : Absent(p, u) <=> Absent(r, u)
    BY <2>2, Zenon DEF Taken
  <2>4. Cardinality(p.inflight) <= cfg.max_inflight
    BY <2>3, Zenon
  <2>5. /\ Spawned(p, q)
        /\ Cardinality(q.inflight) <= cfg.max_inflight
        /\ q.ready # <<>> => Cardinality(q.inflight) = cfg.max_inflight
    BY <2>1, <2>3, <2>4, PumpGood, Zenon
  <2> HIDE DEF q
  <2>6. Agree(q, 0, 0)
    BY <2>2, <2>5, AgreeSame, Zenon DEF Spawned
  <2>7. \A u : Absent(q, u) <=> Absent(p, u)
    BY <2>5, Zenon DEF Spawned, Absent
  <2>8. \A t \in Tests : AsBefore(r, q, t) \/ Launch(r, q, t)
    <3>1. \A t \in Tests : AsBefore(p, q, t) \/ Launch(p, q, t)
      BY <2>5, Zenon DEF Spawned
    <3>2. \A t : /\ Attempts(p, t) = Attempts(r, t) /\ (Over(p, t) <=> Over(r, t))
                 /\ (Flies(p, t) <=> Flies(r, t))
      BY <2>3, SameEvents, Zenon DEF Flies
    <3>3. \A t \in Tests : AsBefore(p, q, t) => AsBefore(r, q, t)
      BY <3>2, Zenon DEF AsBefore
    <3>4. \A t \in Tests : Launch(p, q, t) => Launch(r, q, t)
      BY <3>2, Zenon DEF Launch
    <3> QED
      BY <3>1, <3>3, <3>4, Zenon
  <2>9. Kept(q) /\ q.tripped = r.tripped /\ Count(q) = Count(r)
    BY <2>3, <2>5, Zenon DEF Spawned
  <2>10. \A u : Absent(q, u) <=> Absent(r, u)
    BY <2>3, <2>7, Zenon
  <2> QED
    BY <1>2, <2>5, <2>6, <2>8, <2>9, <2>10, Zenon DEF q, Admitted
<1> QED
  BY <1>1, <1>2, Zenon

-----------------------------------------------------------------------------
(* The demand a run reports is an amount. *)

IsDemand(f, s, n) ==
  f = [i \in 0 .. n |-> IF i = 0 THEN s.committed
                        ELSE IF i - 1 \in DOMAIN s.queue
                        THEN saturating_add(f[i - 1], Footprint[s.queue[i - 1]])
                        ELSE f[i - 1]]

LEMMA DemandExists ==
  ASSUME LibraryFacts, NEW s, NEW n \in Nat
  PROVE  \E f : IsDemand(f, s, n)
<1> DEFINE A == {m \in Nat : \E f : IsDemand(f, s, m)}
           step(x, i) == IF i - 1 \in DOMAIN s.queue
                         THEN saturating_add(x, Footprint[s.queue[i - 1]]) ELSE x
<1>1. 0 \in A
  <2> DEFINE f == [i \in 0 .. 0 |-> s.committed]
  <2>1. IsDemand(f, s, 0)
    BY DEF IsDemand
  <2> QED
    BY <2>1
<1>2. ASSUME NEW m \in 0 .. n - 1, m \in A PROVE m + 1 \in A
  <2>1. PICK f : IsDemand(f, s, m)
    BY <1>2
  <2> DEFINE g == [i \in 0 .. m + 1 |-> IF i = m + 1 THEN step(f[m], m + 1) ELSE f[i]]
  <2>2. IsDemand(g, s, m + 1)
    <3>1. \A i \in 0 .. m : f[i] = IF i = 0 THEN s.committed ELSE step(f[i - 1], i)
      BY <2>1 DEF IsDemand
    <3>2. \A i \in 0 .. m + 1 : g[i] = IF i = 0 THEN s.committed ELSE step(g[i - 1], i)
      <4> HIDE DEF step
      <4> QED BY <3>1
    <3>3. g = [i \in 0 .. m + 1 |-> IF i = 0 THEN s.committed ELSE step(g[i - 1], i)]
      <4> HIDE DEF step
      <4> QED BY <3>2
    <3> QED
      BY <3>3, Zenon DEF IsDemand
  <2> QED
    BY <2>2
<1>3. \A i \in 0 .. n : i \in A
  <2> HIDE DEF A
  <2> QED BY <1>1, <1>2, IntervalInduction
<1> QED
  BY <1>3

LEMMA DemandType ==
  ASSUME LibraryFacts, NEW s, SchedulerType(s)
  PROVE  Demand(s) \in [committed : Amount, demand : Amount]
<1> DEFINE n == s.next_seq
           f == CHOOSE f : IsDemand(f, s, n)
<1>1. n \in Nat /\ s.committed \in Amount /\ s.queue \in [DOMAIN s.queue -> Tests]
  BY DEF SchedulerType, Records
<1>2. IsDemand(f, s, n)
  <2> HIDE DEF n
  <2> QED BY <1>1, DemandExists
<1>3. demand(s) = f[n]
  BY DEF demand, IsDemand
<1> HIDE DEF f, n
<1>4. /\ f[0] = s.committed
      /\ \A i \in 0 .. n - 1 :
           /\ i \in DOMAIN s.queue => f[i + 1] = saturating_add(f[i], Footprint[s.queue[i]])
           /\ i \notin DOMAIN s.queue => f[i + 1] = f[i]
  <2>1. f[0] = s.committed
    BY <1>1, <1>2 DEF IsDemand
  <2>2. ASSUME NEW i \in 0 .. n - 1
        PROVE  f[i + 1] = IF i \in DOMAIN s.queue
                          THEN saturating_add(f[i], Footprint[s.queue[i]]) ELSE f[i]
    <3>1. i + 1 \in 0 .. n /\ i + 1 # 0 /\ (i + 1) - 1 = i
      BY <1>1
    <3> QED
      BY <1>2, <3>1, Zenon DEF IsDemand
  <2> QED
    BY <2>1, <2>2
<1> DEFINE A == {i \in 0 .. n : f[i] \in Amount}
<1>5. 0 \in A
  BY <1>1, <1>4
<1>6. ASSUME NEW i \in 0 .. n - 1, i \in A PROVE i + 1 \in A
  <2>1. f[i] \in Amount
    BY <1>6, Zenon
  <2>2. CASE i \in DOMAIN s.queue
    <3>1. Footprint[s.queue[i]] \in Amount
      BY <1>1, <2>2, SchedulerAssumption, Zenon
    <3> QED
      BY <1>1, <1>4, <2>1, <2>2, <3>1, AmountClosed, SMTT(30)
  <2>3. CASE i \notin DOMAIN s.queue
    BY <1>1, <1>4, <2>1, <2>3
  <2> QED
    BY <2>2, <2>3, Zenon
<1>7. \A i \in 0 .. n : i \in A
  <2> HIDE DEF A
  <2> QED BY <1>1, <1>5, <1>6, IntervalInduction
<1>8. demand(s) \in Amount
  BY <1>1, <1>3, <1>7
<1> QED
  BY <1>1, <1>8 DEF Demand

-----------------------------------------------------------------------------
(* The invariant.  Beside the types it says where each test is: none is    *)
(* kept in two places, each one kept has the lease and the attempt number  *)
(* its events account for (Kept), and every test of the suite is settled   *)
(* or kept (Covered), once (Count).  While the run admits, the loop's      *)
(* tables are the core's (Agreed).  Once it is stopped they drift apart,   *)
(* because grants are then dropped.                                        *)

Agreed == /\ Agree(run, 0, 0)
          /\ run.ready # <<>> => Cardinality(run.inflight) = cfg.max_inflight

LoopInv ==
  /\ pc \in {"start", "top", "select", "done"}
  /\ cancelled \in BOOLEAN /\ cancel \in BOOLEAN
  /\ reported \in [committed : Amount, demand : Amount]
  /\ cap_rx \in Amount \cup {NoCeiling}
  /\ published \in 0 .. MaxPublished
  /\ cfg \in Configs
  /\ Kept(run)
  /\ Cardinality(run.inflight) <= cfg.max_inflight
  /\ pc = "start" => Swept(run, 0)
  /\ pc # "start" => Count(run) = Len(Items) /\ Covered(run, Len(Items))
  /\ pc # "start" /\ ~ Stopped => Agreed
  /\ pc = "done" => run.inflight = {}

LEMMA ConfigType ==
  ASSUME cfg \in Configs
  PROVE  cfg.max_inflight \in Nat \ {0} /\ cfg.fail_fast \in BOOLEAN /\ cfg.ceiling \in Amount
BY RunLoopAssumption

LEMMA InitHolds ==
  ASSUME LibraryFacts
  PROVE  LoopInit => LoopInv
<1> SUFFICES ASSUME LoopInit PROVE LoopInv
  OBVIOUS
<1> DEFINE s == new(cfg.ceiling, [a \in ServiceAccounts |-> Unlimited])
           ev == [t \in Tests |-> <<>>]
           stats == [passed |-> 0, failed |-> 0, terminated |-> 0, skipped |-> 0]
<1>1. cfg \in Configs /\ cfg.max_inflight \in Nat \ {0} /\ cfg.ceiling \in Amount
  BY ConfigType, Zenon DEF LoopInit
<1>2. run = [sched |-> s, inflight |-> {}, parked |-> EmptyMap, ready |-> <<>>,
             stats |-> stats, tripped |-> FALSE, events |-> ev]
  BY Zenon DEF LoopInit
<1>3. [a \in ServiceAccounts |-> Unlimited] \in [ServiceAccounts -> Budgets]
  BY DEF Budgets
<1>4. SchedulerType(s) /\ Books(s)
  BY <1>1, <1>3, NewBooks, Zenon
<1>5. s.queue = EmptyMap /\ s.leases = EmptyMap /\ s.sa_budgets = [a \in ServiceAccounts |-> Unlimited]
  BY DEF new
<1>6. DOMAIN EmptyMap = {} /\ EmptyMap \in [{} -> Nat \ {0}]
  BY DEF EmptyMap
<1>7. Admits(s)
  <2> HIDE DEF s
  <2> QED BY <1>4, <1>5, <1>6, Zenon DEF Admits, NoneFits
<1>8. stats \in Tally /\ finished(stats) = 0
  BY DEF Tally, finished
<1>9. ev \in [Tests -> Seq(Events)] /\ \A t \in Tests : ev[t] = <<>>
  OBVIOUS
<1> HIDE DEF s, ev, stats
<1>10. /\ run \in RunFields({s}, {EmptyMap})
       /\ run.sched = s /\ run.inflight = {} /\ run.parked = EmptyMap /\ run.ready = <<>>
       /\ run.stats = stats /\ run.tripped = FALSE /\ run.events = ev
  BY <1>2, <1>8, <1>9 DEF RunFields
<1>11. IsFiniteSet({}) /\ Cardinality({}) = 0 /\ Len(<<>>) = 0 /\ 1 .. 0 = {}
  BY DEF LibraryFacts, Counting
<1>12. RunType(run)
  BY <1>6, <1>7, <1>10, <1>11, Zenon DEF RunType
<1>13. Granted(run.ready) = {} /\ HeldBy(run) = {} /\ TestsApart(run.ready)
  BY <1>10, <1>11, Zenon DEF Granted, HeldBy, TestsApart
<1>14. Placed(run)
  BY <1>5, <1>6, <1>10, <1>13, Zenon DEF Placed
<1>15. Apart(run)
  BY <1>5, <1>6, <1>10, <1>13, Zenon DEF Apart, Distinct
<1>16. Agree(run, 0, 0)
  <2>1. 0 .. 0 - 1 = {}
    OBVIOUS
  <2> QED
    BY <1>5, <1>6, <1>10, <2>1, Zenon DEF Agree
<1>17. Count(run) = 0
  <2>1. Count(run) = 0 + 0 + 0 + 0
    BY <1>6, <1>8, <1>10, <1>11, Zenon DEF Count
  <2> QED
    BY <2>1
<1>18. \A t \in Tests : Attempts(run, t) = 0 /\ Absent(run, t) /\ run.events[t] = <<>>
  BY <1>6, <1>9, <1>10, <1>13, NoHistory, Zenon DEF Attempts, Absent
<1>19. Covered(run, 0)
  BY <1>11, Zenon DEF Covered
<1>20. Swept(run, 0)
  BY <1>10, <1>12, <1>14, <1>15, <1>16, <1>17, <1>18, <1>19, Zenon DEF Swept, Kept
<1>21. Cardinality(run.inflight) <= cfg.max_inflight
  <2>1. 0 <= cfg.max_inflight
    BY <1>1
  <2> QED
    BY <1>10, <1>11, <2>1, Zenon
<1>22. reported \in [committed : Amount, demand : Amount]
  BY ZeroIsAmount DEF LoopInit
<1>23. published \in 0 .. MaxPublished
  BY RunLoopAssumption DEF LoopInit
<1>24. pc = "start" /\ cancelled = FALSE /\ cancel = FALSE /\ cap_rx = NoCeiling
  BY Zenon DEF LoopInit
<1>25. pc # "done"
  BY <1>24
<1> QED
  BY <1>1, <1>20, <1>21, <1>22, <1>23, <1>24, <1>25, Zenon DEF LoopInv, Swept

-----------------------------------------------------------------------------
(* What each step of the loop does to the tests. *)

LEMMA CoveredKept ==
  ASSUME NEW r, NEW q, NEW i,
         \A u \in Tests : Over(r, u) \/ ~ Absent(r, u) => Over(q, u) \/ ~ Absent(q, u),
         i = Len(Items), Covered(r, i)
  PROVE  Covered(q, i)
<1>1. \A j \in 1 .. i : Items[j] \in Tests
  BY RunLoopAssumption
<1> QED
  BY <1>1, Zenon DEF Covered

(* The state after a step that leaves the start behind.                    *)
Turned ==
  /\ Kept(run') /\ Cardinality(run'.inflight) <= cfg.max_inflight
  /\ Count(run') = Len(Items) /\ Covered(run', Len(Items))
  /\ ~ Stopped' => Agreed'

StartsOrNot(t) == AsBefore(run, run', t) \/ (Launch(run, run', t) /\ ~ Stopped')

LEMMA StartStep ==
  ASSUME LibraryFacts, LoopInv, Start
  PROVE  /\ Turned
         /\ \A t \in Tests :
              /\ Attempts(run, t) = 0 /\ ~ Over(run, t) /\ ~ Flies(run, t)
              /\ \/ Attempts(run', t) = 0 /\ ~ Flies(run', t)
                 \/ Attempts(run', t) = 1 /\ Flies(run', t) /\ ~ Over(run', t)
<1> DEFINE z == sweep(run)
           q == pump(z)
           n == Len(Items)
<1>1. Swept(run, 0) /\ cfg \in Configs
  BY Zenon DEF LoopInv, Start
<1>2. run' = q /\ cfg' = cfg
  BY Zenon DEF Start
<1>3. Swept(z, n)
  BY <1>1, SweepGood, Zenon
<1>4. cfg.max_inflight \in Nat \ {0}
  BY <1>1, ConfigType, Zenon
<1> HIDE DEF z
<1>5. Kept(z) /\ z.inflight = {} /\ Count(z) = n /\ Covered(z, n) /\ Agree(z, 0, 0)
      /\ \A t \in Tests : Attempts(z, t) = 0
  BY <1>3, Zenon DEF Swept
<1>6. Cardinality(z.inflight) <= cfg.max_inflight
  <2>1. Cardinality({}) = 0
    BY DEF LibraryFacts, Counting
  <2>2. 0 <= cfg.max_inflight
    BY <1>4
  <2> QED
    BY <1>5, <2>1, <2>2, Zenon
<1>7. /\ Spawned(z, q)
      /\ Cardinality(q.inflight) <= cfg.max_inflight
      /\ q.ready # <<>> => Cardinality(q.inflight) = cfg.max_inflight
  BY <1>4, <1>5, <1>6, PumpGood, Zenon
<1> HIDE DEF q
<1>8. Kept(q) /\ Count(q) = n /\ q.sched = z.sched /\ q.parked = z.parked /\ HeldBy(q) = HeldBy(z)
      /\ \A t \in Tests : AsBefore(z, q, t) \/ Launch(z, q, t)
  BY <1>5, <1>7, Zenon DEF Spawned
<1>9. Agree(q, 0, 0)
  BY <1>5, <1>8, AgreeSame, Zenon
<1>10. \A u : Absent(q, u) <=> Absent(z, u)
  BY <1>8, Zenon DEF Absent
<1>11. \A u \in Tests : Over(z, u) \/ ~ Absent(z, u) => Over(q, u) \/ ~ Absent(q, u)
  BY <1>8, <1>10, Zenon DEF AsBefore, Launch
<1>12. Covered(q, n)
  BY <1>5, <1>11, CoveredKept, Zenon
<1>13. Agreed'
  BY <1>2, <1>7, <1>9, Zenon DEF Agreed
<1>14. Turned
  BY <1>2, <1>7, <1>8, <1>12, <1>13, Zenon DEF Turned
<1>15. ASSUME NEW t \in Tests
       PROVE  /\ Attempts(run, t) = 0 /\ ~ Over(run, t) /\ ~ Flies(run, t)
              /\ \/ Attempts(q, t) = 0 /\ ~ Flies(q, t)
                 \/ Attempts(q, t) = 1 /\ Flies(q, t) /\ ~ Over(q, t)
  <2>1. \A j \in 1 .. 0 : Items[j] # t
    OBVIOUS
  <2>2. run.events[t] = <<>> /\ run.inflight = {}
    BY <1>1, <2>1, Zenon DEF Swept
  <2>3. Attempts(run, t) = 0 /\ ~ Over(run, t) /\ ~ Flies(run, t)
    BY <2>2, NoHistory, Zenon DEF Attempts, Over, Flies
  <2>4. Attempts(z, t) = 0 /\ ~ Flies(z, t)
    BY <1>5, Zenon DEF Flies
  <2>5. CASE AsBefore(z, q, t)
    BY <2>3, <2>4, <2>5, Zenon DEF AsBefore
  <2>6. CASE Launch(z, q, t)
    <3>1. 0 + 1 = 1
      OBVIOUS
    <3> QED
      BY <2>3, <2>4, <2>6, <3>1, Zenon DEF Launch
  <2> QED
    BY <1>8, <2>5, <2>6, Zenon
<1> QED
  BY <1>2, <1>14, <1>15, Zenon

(* The resolved test leaves the flight, or starts its next attempt.        *)
Again(t) ==
  /\ Attempts(run', t) = Attempts(run, t) + 1 /\ Attempts(run, t) <= Retries[t]
  /\ Flies(run', t) /\ ~ Over(run', t) /\ ~ Stopped'

LEMMA CompleteStep ==
  ASSUME LibraryFacts, LoopInv, NEW e \in run.inflight, NEW v, Complete(e, v)
  PROVE  /\ Turned /\ (Stopped => Stopped')
         /\ e.test \in Tests /\ Flies(run, e.test) /\ ~ Over(run, e.test)
         /\ \/ Attempts(run', e.test) = Attempts(run, e.test) /\ ~ Flies(run', e.test)
            \/ Again(e.test)
         /\ \A t \in Tests \ {e.test} : StartsOrNot(t)
<1> DEFINE t == e.test
           f == Freed(run, e)
           lo == run.sched.next_slot_id
           hi == f.sched.next_slot_id
<1>1. PICK first \in BOOLEAN, second \in BOOLEAN :
        /\ cancel => first
        /\ first => second
        /\ cancel' = second
        /\ LET freed == [run EXCEPT !.inflight = @ \ {e}, !.sched = release(@, e.slot)]
               retry == /\ e.attempt <= Retries[e.test]
                        /\ ~ run.tripped
                        /\ ~ first
           IN  run' = admit_grants(outcome(freed, e, v, retry),
                                   run.sched.next_slot_id, freed.sched.next_slot_id, second)
  BY Zenon DEF Complete
<1> DEFINE retry == e.attempt <= Retries[t] /\ ~ run.tripped /\ ~ first
           o == outcome(f, e, v, retry)
           q == admit_grants(o, lo, hi, second)
<1>2. run' = q /\ cancel' = second /\ cfg' = cfg /\ (cancel => second) /\ pc = "select"
  BY <1>1, Zenon DEF Freed, Complete
<1>3. Kept(run) /\ RunType(run) /\ Placed(run) /\ cfg \in Configs
      /\ Count(run) = Len(Items) /\ Covered(run, Len(Items))
      /\ Cardinality(run.inflight) <= cfg.max_inflight
      /\ (~ Stopped => Agree(run, 0, 0))
  <2>1. pc # "start"
    BY <1>2
  <2> QED
    BY <2>1, Zenon DEF LoopInv, Kept, Agreed
<1>4. cfg.max_inflight \in Nat \ {0} /\ cfg.fail_fast \in BOOLEAN
  BY <1>3, ConfigType, Zenon
<1>5. e \in HeldBy(run) /\ e \in Entry /\ t \in Tests
  <2>1. e \in HeldBy(run)
    BY Zenon DEF HeldBy
  <2> QED
    BY <1>3, <2>1, Fields, Zenon
<1>6. Flies(run, t) /\ ~ Over(run, t) /\ e.attempt = Attempts(run, t)
  BY <1>3, <1>5, Zenon DEF Flies, Placed
<1>7. /\ Kept(f) /\ Absent(f, t)
      /\ f.inflight = run.inflight \ {e} /\ f.tripped = run.tripped /\ f.events = run.events
      /\ Cardinality(f.inflight) + 1 = Cardinality(run.inflight)
      /\ Count(f) + 1 = Count(run)
      /\ \A u : u # t => (Absent(f, u) <=> Absent(run, u))
      /\ lo \in Nat /\ hi \in Nat /\ lo <= hi
      /\ Agree(run, 0, 0) => Agree(f, lo, hi)
  BY <1>3, FreedGood, Zenon
<1> HIDE DEF f, lo, hi
<1>8. \A u : Attempts(f, u) = Attempts(run, u) /\ (Over(f, u) <=> Over(run, u))
  BY <1>7, SameEvents, Zenon
<1>9. retry => e.attempt <= Retries[e.test]
  OBVIOUS
<1> HIDE DEF retry
<1>10. Resulted(f, o, t)
  BY <1>4, <1>5, <1>6, <1>7, <1>8, <1>9, OutcomeGood, Zenon
<1> HIDE DEF o
<1>11. Kept(o) /\ o.inflight = f.inflight /\ (f.tripped => o.tripped)
       /\ (\A u \in Tests : Attempts(o, u) = Attempts(f, u))
       /\ (\A u \in Tests \ {t} : o.events[u] = f.events[u] /\ (Absent(o, u) <=> Absent(f, u)))
       /\ (Over(o, t) \/ ~ Absent(o, t))
       /\ Count(o) = Count(f) + 1
       /\ (Agree(f, lo, hi) => Agree(o, lo, hi))
  BY <1>7, <1>10, Zenon DEF Resulted
<1>12. Cardinality(o.inflight) <= cfg.max_inflight
  <2>1. Cardinality(f.inflight) \in Nat
    BY <1>7, CountType, Zenon DEF Kept
  <2>2. Cardinality(f.inflight) <= cfg.max_inflight
    <3> DEFINE x == Cardinality(f.inflight)
               y == Cardinality(run.inflight)
               z == cfg.max_inflight
    <3>1. x \in Nat /\ z \in Nat /\ x + 1 = y /\ y <= z
      BY <1>3, <1>4, <1>7, <2>1, Zenon
    <3> HIDE DEF x, y, z
    <3>2. x <= z
      BY <3>1
    <3> QED
      BY <3>2, Zenon DEF x, z
  <2> QED
    BY <1>11, <2>2, Zenon
<1>13. ~ o.tripped /\ ~ second => Agree(o, lo, hi)
  BY <1>2, <1>3, <1>7, <1>11, Zenon DEF Stopped
<1>14. /\ Kept(q) /\ q.tripped = o.tripped /\ Count(q) = Count(o)
       /\ \A u : Absent(q, u) <=> Absent(o, u)
       /\ Cardinality(q.inflight) <= cfg.max_inflight
       /\ \A u \in Tests : AsBefore(o, q, u) \/ (Launch(o, q, u) /\ ~ o.tripped /\ ~ second)
       /\ ~ o.tripped /\ ~ second =>
            /\ Agree(q, 0, 0)
            /\ q.ready # <<>> => Cardinality(q.inflight) = cfg.max_inflight
  <2>1. Admitted(o, q, second)
    <3>1. lo \in Nat /\ hi \in Nat /\ lo <= hi /\ Kept(o) /\ cfg.max_inflight \in Nat \ {0}
      BY <1>4, <1>7, <1>11, Zenon
    <3> QED
      BY <1>12, <1>13, <3>1, AdmitGood, Zenon
  <2> QED
    BY <2>1, Zenon DEF Admitted
<1> HIDE DEF q
<1>15. Stopped' <=> o.tripped \/ second
  BY <1>2, <1>14, Zenon DEF Stopped
<1>16. Stopped => Stopped'
  BY <1>2, <1>7, <1>11, <1>15, Zenon DEF Stopped
<1>17. ~ Stopped' => Agreed'
  BY <1>2, <1>14, <1>15, Zenon DEF Agreed
<1>18. Count(q) = Len(Items)
  BY <1>3, <1>7, <1>11, <1>14, Zenon
<1>19. \A u \in Tests : Over(run, u) \/ ~ Absent(run, u) => Over(q, u) \/ ~ Absent(q, u)
  <2>1. \A u \in Tests : Over(o, u) \/ ~ Absent(o, u) => Over(q, u) \/ ~ Absent(q, u)
    BY <1>14, Zenon DEF AsBefore, Launch
  <2>2. \A u \in Tests \ {t} : Over(o, u) <=> Over(f, u)
    BY <1>11, Zenon DEF Over
  <2>3. \A u \in Tests \ {t} : Over(run, u) \/ ~ Absent(run, u) => Over(o, u) \/ ~ Absent(o, u)
    BY <1>7, <1>8, <1>11, <2>2, Zenon
  <2> QED
    BY <1>11, <2>1, <2>3, Zenon
<1>20. Covered(q, Len(Items))
  BY <1>3, <1>19, CoveredKept, Zenon
<1>21. Turned
  BY <1>2, <1>14, <1>17, <1>18, <1>20, Zenon DEF Turned
<1>22. ASSUME NEW u \in Tests \ {t} PROVE StartsOrNot(u)
  <2>1. Flies(o, u) <=> Flies(run, u)
    BY <1>7, <1>11, Zenon DEF Flies
  <2>2. Over(o, u) <=> Over(run, u)
    BY <1>8, <1>11, Zenon DEF Over
  <2>3. Attempts(o, u) = Attempts(run, u)
    BY <1>8, <1>11, Zenon
  <2>4. CASE AsBefore(o, q, u)
    BY <1>2, <2>1, <2>2, <2>3, <2>4, Zenon DEF AsBefore, StartsOrNot
  <2>5. CASE Launch(o, q, u) /\ ~ o.tripped /\ ~ second
    BY <1>2, <1>15, <2>1, <2>2, <2>3, <2>5, Zenon DEF Launch, StartsOrNot
  <2> QED
    BY <1>14, <2>4, <2>5, Zenon
<1>23. \/ Attempts(q, t) = Attempts(run, t) /\ ~ Flies(q, t)
       \/ Again(t)
  <2>1. ~ Flies(o, t)
    BY <1>7, <1>11, Zenon DEF Flies, Absent, HeldBy
  <2>2. Attempts(o, t) = Attempts(run, t)
    BY <1>5, <1>8, <1>11, Zenon
  <2>3. CASE AsBefore(o, q, t)
    BY <2>1, <2>2, <2>3, Zenon DEF AsBefore
  <2>4. CASE Launch(o, q, t) /\ ~ o.tripped /\ ~ second
    BY <1>2, <1>15, <2>2, <2>4, Zenon DEF Launch, Again
  <2> QED
    BY <1>5, <1>14, <2>3, <2>4, Zenon
<1> QED
  BY <1>2, <1>5, <1>6, <1>16, <1>21, <1>22, <1>23, Zenon

LEMMA CeilingStep ==
  ASSUME LibraryFacts, LoopInv, OnCeiling
  PROVE  /\ Turned /\ (Stopped => Stopped')
         /\ \A t \in Tests : StartsOrNot(t)
<1> DEFINE f == Moved(run, cap_rx)
           lo == run.sched.next_slot_id
           hi == f.sched.next_slot_id
<1>1. PICK second \in BOOLEAN :
        /\ cancel => second
        /\ cancel' = second
        /\ LET moved == [run EXCEPT !.sched = reconcile(@, cap_rx)]
           IN  run' = admit_grants(moved, run.sched.next_slot_id,
                                   moved.sched.next_slot_id, second)
  BY Zenon DEF OnCeiling
<1> DEFINE q == admit_grants(f, lo, hi, second)
<1>2. run' = q /\ cancel' = second /\ cfg' = cfg /\ (cancel => second) /\ pc = "select"
  BY <1>1, Zenon DEF Moved, OnCeiling
<1>3. Kept(run) /\ cfg \in Configs
      /\ Count(run) = Len(Items) /\ Covered(run, Len(Items))
      /\ Cardinality(run.inflight) <= cfg.max_inflight
      /\ (~ Stopped => Agree(run, 0, 0))
  <2>1. pc # "start"
    BY <1>2
  <2> QED
    BY <2>1, Zenon DEF LoopInv, Agreed
<1>4. cfg.max_inflight \in Nat \ {0} /\ cap_rx \in Amount
  BY <1>3, ConfigType, Zenon DEF LoopInv, OnCeiling
<1>5. /\ Kept(f)
      /\ f.inflight = run.inflight /\ f.tripped = run.tripped /\ f.events = run.events
      /\ Count(f) = Count(run)
      /\ \A u : Absent(f, u) <=> Absent(run, u)
      /\ lo \in Nat /\ hi \in Nat /\ lo <= hi
      /\ Agree(run, 0, 0) => Agree(f, lo, hi)
  BY <1>3, <1>4, MovedGood
<1> HIDE DEF f, lo, hi
<1>6. \A u : Attempts(f, u) = Attempts(run, u) /\ (Over(f, u) <=> Over(run, u))
  BY <1>5, SameEvents, Zenon
<1>7. ~ f.tripped /\ ~ second => Agree(f, lo, hi)
  BY <1>2, <1>3, <1>5, Zenon DEF Stopped
<1>8. Cardinality(f.inflight) <= cfg.max_inflight
  BY <1>3, <1>5, Zenon
<1>9. /\ Kept(q) /\ q.tripped = f.tripped /\ Count(q) = Count(f)
      /\ \A u : Absent(q, u) <=> Absent(f, u)
      /\ Cardinality(q.inflight) <= cfg.max_inflight
      /\ \A u \in Tests : AsBefore(f, q, u) \/ (Launch(f, q, u) /\ ~ f.tripped /\ ~ second)
      /\ ~ f.tripped /\ ~ second =>
           /\ Agree(q, 0, 0)
           /\ q.ready # <<>> => Cardinality(q.inflight) = cfg.max_inflight
  <2>1. Admitted(f, q, second)
    <3>1. lo \in Nat /\ hi \in Nat /\ lo <= hi /\ Kept(f) /\ cfg.max_inflight \in Nat \ {0}
      BY <1>4, <1>5, Zenon
    <3> QED
      BY <1>7, <1>8, <3>1, AdmitGood, Zenon
  <2> QED
    BY <2>1, Zenon DEF Admitted
<1> HIDE DEF q
<1>10. Stopped' <=> f.tripped \/ second
  BY <1>2, <1>9, Zenon DEF Stopped
<1>11. Stopped => Stopped'
  BY <1>2, <1>5, <1>10, Zenon DEF Stopped
<1>12. ~ Stopped' => Agreed'
  BY <1>2, <1>9, <1>10, Zenon DEF Agreed
<1>13. \A u \in Tests : Over(run, u) \/ ~ Absent(run, u) => Over(q, u) \/ ~ Absent(q, u)
  BY <1>5, <1>6, <1>9, Zenon DEF AsBefore, Launch
<1>14. Covered(q, Len(Items))
  BY <1>3, <1>13, CoveredKept, Zenon
<1>15. Turned
  BY <1>2, <1>3, <1>5, <1>9, <1>12, <1>14, Zenon DEF Turned
<1>16. ASSUME NEW u \in Tests PROVE StartsOrNot(u)
  <2>1. Flies(f, u) <=> Flies(run, u)
    BY <1>5, Zenon DEF Flies
  <2>2. CASE AsBefore(f, q, u)
    BY <1>2, <1>6, <2>1, <2>2, Zenon DEF AsBefore, StartsOrNot
  <2>3. CASE Launch(f, q, u) /\ ~ f.tripped /\ ~ second
    BY <1>2, <1>6, <1>10, <2>1, <2>3, Zenon DEF Launch, StartsOrNot
  <2> QED
    BY <1>9, <2>2, <2>3, Zenon
<1> QED
  BY <1>11, <1>15, <1>16, Zenon

-----------------------------------------------------------------------------
LEMMA ReportType ==
  ASSUME LibraryFacts, NEW q, RunType(q), reported \in [committed : Amount, demand : Amount]
  PROVE  publish_demand(q) \in [committed : Amount, demand : Amount]
<1>1. SchedulerType(q.sched)
  BY Fields, Zenon
<1>2. Demand(q.sched) \in [committed : Amount, demand : Amount]
  BY <1>1, DemandType, Zenon
<1>3. CASE cfg.reservation
  BY <1>2, <1>3, Zenon DEF publish_demand
<1>4. CASE ~ cfg.reservation
  BY <1>4, Zenon DEF publish_demand
<1> QED
  BY <1>3, <1>4, Zenon

LEMMA TurnedInv ==
  ASSUME LibraryFacts, LoopInv, Turned, pc' = "top", cancelled' \in BOOLEAN, cancel' \in BOOLEAN,
         cap_rx' \in Amount \cup {NoCeiling}, published' = published, cfg' = cfg,
         reported' = publish_demand(run')
  PROVE  LoopInv'
<1>1. reported' \in [committed : Amount, demand : Amount]
  BY ReportType, Zenon DEF LoopInv, Turned, Kept
<1>2. pc' \in {"start", "top", "select", "done"} /\ pc' # "start" /\ pc' # "done"
  OBVIOUS
<1>3. published' \in 0 .. MaxPublished /\ cfg' \in Configs
  BY Zenon DEF LoopInv
<1> QED
  BY <1>1, <1>2, <1>3, Zenon DEF LoopInv, Turned

LEMMA SameRunInv ==
  ASSUME LoopInv, run' = run, cfg' = cfg,
         pc' \in {"start", "top", "select", "done"}, pc' = "start" <=> pc = "start",
         pc' = "done" => run.inflight = {},
         cancelled' \in BOOLEAN, cancel' \in BOOLEAN, cancel => cancel',
         cap_rx' \in Amount \cup {NoCeiling}, published' \in 0 .. MaxPublished,
         reported' = reported
  PROVE  LoopInv'
<1>1. ~ Stopped' => ~ Stopped
  BY Zenon DEF Stopped
<1>2. Agreed => Agreed'
  BY Zenon DEF Agreed
<1> QED
  BY <1>1, <1>2, Zenon DEF LoopInv

LEMMA MinMaxType ==
  ASSUME NEW a \in Amount, NEW b \in Amount
  PROVE  max(a, b) \in Amount /\ min(a, b) \in Amount
BY DEF Amount, max, min

LEMMA InvStep ==
  ASSUME LibraryFacts
  PROVE  LoopInv /\ [LoopNext]_vars => LoopInv'
<1> SUFFICES ASSUME LoopInv, [LoopNext]_vars PROVE LoopInv'
  OBVIOUS
<1>0. /\ pc \in {"start", "top", "select", "done"}
      /\ cancelled \in BOOLEAN /\ cancel \in BOOLEAN
      /\ cap_rx \in Amount \cup {NoCeiling} /\ published \in 0 .. MaxPublished
      /\ reported \in [committed : Amount, demand : Amount]
      /\ pc = "done" => run.inflight = {}
  BY Zenon DEF LoopInv
<1>1. CASE Start
  <2>1. Turned
    BY <1>1, StartStep, Zenon
  <2> QED
    BY <1>0, <1>1, <2>1, TurnedInv, Zenon DEF Start
<1>2. CASE LoopTop
  <2>1. /\ pc = "top" /\ (pc' = "done" => run.inflight = {}) /\ pc' \in {"select", "done"}
        /\ cancelled' \in BOOLEAN
    BY <1>0, <1>2 DEF LoopTop
  <2>2. pc' \in {"start", "top", "select", "done"} /\ (pc' = "start" <=> pc = "start")
    BY <2>1
  <2> QED
    BY <1>0, <1>2, <2>1, <2>2, SameRunInv, Zenon DEF LoopTop
<1>3. CASE CancelArm
  <2>1. pc = "select" /\ pc' = "top"
    BY <1>3, Zenon DEF CancelArm
  <2>2. pc' \in {"start", "top", "select", "done"} /\ (pc' = "start" <=> pc = "start") /\ pc' # "done"
    BY <2>1
  <2> QED
    BY <1>0, <1>3, <2>2, SameRunInv, Zenon DEF CancelArm
<1>4. CASE Resolve
  <2>1. PICK e \in run.inflight, v \in Verdicts : Complete(e, v)
    BY <1>4, Zenon DEF Resolve
  <2>2. Turned
    BY <2>1, CompleteStep, Zenon
  <2>3. cancel' \in BOOLEAN
    BY <2>1, Zenon DEF Complete
  <2> QED
    BY <1>0, <2>1, <2>2, <2>3, TurnedInv, Zenon DEF Complete
<1>5. CASE OnCeiling
  <2>1. Turned
    BY <1>5, CeilingStep, Zenon
  <2>2. cancel' \in BOOLEAN /\ cap_rx' \in Amount \cup {NoCeiling}
    BY <1>5, Zenon DEF OnCeiling
  <2> QED
    BY <1>0, <1>5, <2>1, <2>2, TurnedInv, Zenon DEF OnCeiling
<1>6. CASE Tick
  <2>1. pc = "select" /\ pc' = "top"
    BY <1>6, Zenon DEF Tick
  <2>2. pc' \in {"start", "top", "select", "done"} /\ (pc' = "start" <=> pc = "start") /\ pc' # "done"
    BY <2>1
  <2> QED
    BY <1>0, <1>6, <2>2, SameRunInv, Zenon DEF Tick
<1>7. CASE CtrlC
  <2>1. cancel' = TRUE /\ pc' = pc
    BY <1>7, Zenon DEF CtrlC
  <2>2. cancel' \in BOOLEAN /\ (cancel => cancel')
    BY <2>1
  <2> QED
    BY <1>0, <1>7, <2>1, <2>2, SameRunInv, Zenon DEF CtrlC
<1>8. ASSUME NEW share \in Shares, PublishCeiling(share) PROVE LoopInv'
  <2>1. share \in Amount
    BY RunLoopAssumption, Zenon
  <2>2. reported.demand \in Amount /\ reported.committed \in Amount
    BY <1>0
  <2>3. cap_rx' \in Amount
    BY <1>8, <2>1, <2>2, MinMaxType, Zenon DEF PublishCeiling
  <2>4. published' \in 0 .. MaxPublished
    BY <1>0, <1>8, RunLoopAssumption DEF PublishCeiling
  <2> QED
    BY <1>0, <1>8, <2>3, <2>4, SameRunInv, Zenon DEF PublishCeiling
<1>9. CASE UNCHANGED vars
  <2>1. /\ run' = run /\ pc' = pc /\ cancelled' = cancelled /\ cancel' = cancel
        /\ reported' = reported /\ cap_rx' = cap_rx /\ published' = published /\ cfg' = cfg
    BY <1>9 DEF vars
  <2> QED
    BY <1>0, <2>1, SameRunInv, Zenon
<1> QED
  BY <1>1, <1>2, <1>3, <1>4, <1>5, <1>6, <1>7, <1>8, <1>9, Zenon DEF LoopNext, Finished

-----------------------------------------------------------------------------
(* Safety. *)

LEMMA SameWords ==
  /\ Held = HeldBy(run)
  /\ \A t : (Settled(t) <=> Over(run, t)) /\ Started(t) = Attempts(run, t)
BY Zenon DEF Held, HeldBy, Granted, Settled, Over, EndsIn, Started, Attempts, StartsIn

LEMMA InvMatches ==
  ASSUME LibraryFacts
  PROVE  LoopInv => LoopMatchesScheduler
<1> SUFFICES ASSUME LoopInv, pc # "start" PROVE LoopMatchesScheduler
  BY Zenon DEF LoopMatchesScheduler
<1>1. RunType(run) /\ Placed(run) /\ Apart(run) /\ Count(run) = Len(Items)
  BY Zenon DEF LoopInv, Kept
<1>2. /\ \A e \in Held : e.slot \in DOMAIN run.sched.leases /\ run.sched.leases[e.slot] = e.test
      /\ \A e, f \in Held : e.test = f.test => e = f
  BY <1>1, SameWords, Zenon DEF Placed, Leased, Apart
<1>3. ASSUME ~ Stopped
      PROVE  /\ DOMAIN run.sched.leases = {e.slot : e \in Held}
             /\ DOMAIN run.parked = {run.sched.queue[i] : i \in DOMAIN run.sched.queue}
             /\ not_run(run.stats) - Cardinality(run.inflight)
                  = Cardinality(DOMAIN run.parked) + Len(run.ready)
             /\ run.ready # <<>> => Cardinality(run.inflight) = cfg.max_inflight
  <2>1. Agree(run, 0, 0) /\ (run.ready # <<>> => Cardinality(run.inflight) = cfg.max_inflight)
    BY <1>3, Zenon DEF LoopInv, Agreed
  <2>2. 0 .. 0 - 1 = {}
    OBVIOUS
  <2>3. \A l \in DOMAIN run.sched.leases : \E e \in Held : e.slot = l
    BY <2>1, <2>2, SameWords, Zenon DEF Agree
  <2>4. DOMAIN run.sched.leases = {e.slot : e \in Held}
    BY <1>2, <2>3, Zenon
  <2>5. \A t \in DOMAIN run.parked : \E i \in DOMAIN run.sched.queue : run.sched.queue[i] = t
    BY <2>1, <2>2, Zenon DEF Agree
  <2>6. DOMAIN run.parked = {run.sched.queue[i] : i \in DOMAIN run.sched.queue}
    BY <1>1, <2>5, Zenon DEF Placed
  <2>7. not_run(run.stats) - Cardinality(run.inflight) = Cardinality(DOMAIN run.parked) + Len(run.ready)
    <3> DEFINE a == finished(run.stats)
               b == Cardinality(run.inflight)
               c == Cardinality(DOMAIN run.parked)
               d == Len(run.ready)
               n == Len(Items)
    <3>1. a \in Nat /\ b \in Nat /\ c \in Nat /\ d \in Nat
      BY <1>1, CountType, Zenon
    <3>2. a + b + c + d = n
      BY <1>1, Zenon DEF Count
    <3>3. not_run(run.stats) = n - a
      BY Zenon DEF not_run
    <3> HIDE DEF a, b, c, d, n
    <3>4. (n - a) - b = c + d
      BY <3>1, <3>2
    <3> QED
      BY <3>3, <3>4, Zenon DEF b, c, d
  <2> QED
    BY <2>1, <2>4, <2>6, <2>7, Zenon
<1> QED
  BY <1>2, <1>3, Zenon DEF LoopMatchesScheduler

LEMMA InvTyped ==
  ASSUME LibraryFacts
  PROVE  LoopInv => LoopTypeOK
<1> SUFFICES ASSUME LoopInv PROVE LoopTypeOK
  OBVIOUS
<1>1. RunType(run) /\ run \in RunFields({run.sched}, {run.parked}) /\ SchedulerType(run.sched)
  BY Zenon DEF LoopInv, Kept, RunType, Admits
<1>2. /\ run.inflight \subseteq Entry /\ run.ready \in Seq(Entry) /\ run.stats \in Tally
      /\ run.tripped \in BOOLEAN /\ run.events \in [Tests -> Seq(Events)]
  BY <1>1, Fields, Zenon
<1>3. {run.tripped, cancelled, cancel} \subseteq BOOLEAN
  BY <1>2, Zenon DEF LoopInv
<1>4. run.parked \in [DOMAIN run.parked -> Nat \ {0}] /\ DOMAIN run.parked \subseteq Tests
  BY <1>1, Zenon DEF RunType
<1> QED
  BY <1>1, <1>2, <1>3, <1>4, Zenon DEF LoopTypeOK, LoopInv, Events

LEMMA RoomWhenIdle ==
  ASSUME NEW t \in Tests, NEW cap \in Amount, fits_within(Footprint[t], cap)
  PROVE  Room(t, cap, ZERO)
<1>1. Footprint[t] \in Amount
  BY SchedulerAssumption, Zenon
<1> SUFFICES ASSUME NEW d \in Dims PROVE Footprint[t][d] <= saturating_sub(cap, ZERO)[d]
  BY Zenon DEF Room, fits_within
<1> DEFINE x == Footprint[t][d]
           y == cap[d]
<1>2. x \in 0 .. U64Max /\ y \in 0 .. U64Max
  BY <1>1, Zenon DEF Amount
<1>3. x <= y
  BY Zenon DEF fits_within
<1>4. saturating_sub(cap, ZERO)[d] = IF y <= 0 THEN 0 ELSE y - 0
  BY DEF saturating_sub, ZERO
<1> HIDE DEF x, y
<1>5. x <= IF y <= 0 THEN 0 ELSE y - 0
  BY <1>2, <1>3, ResourcesAssumption
<1> QED
  BY <1>4, <1>5 DEF x

LEMMA InvOversized ==
  ASSUME LibraryFacts
  PROVE  LoopInv => OnlyOversizedLeftBehind
<1> SUFFICES ASSUME LoopInv, pc = "done", ~ Stopped, NEW i \in 1 .. Len(Items), ~ Settled(Items[i])
             PROVE  Items[i] \in DOMAIN run.parked /\ ExceedsClusterCapacity(run.sched, Items[i])
  BY Zenon DEF OnlyOversizedLeftBehind
<1> DEFINE t == Items[i]
           s == run.sched
<1>1. t \in Tests
  BY RunLoopAssumption
<1>2. pc # "start"
  OBVIOUS
<1>3. /\ RunType(run) /\ Placed(run) /\ run.inflight = {} /\ Agree(run, 0, 0)
      /\ run.ready # <<>> => Cardinality(run.inflight) = cfg.max_inflight
      /\ Covered(run, Len(Items)) /\ cfg \in Configs
  BY <1>2, Zenon DEF LoopInv, Kept, Agreed
<1>4. run.ready = <<>>
  <2>1. Cardinality(run.inflight) = 0
    BY <1>3 DEF LibraryFacts, Counting
  <2>2. cfg.max_inflight # 0
    BY <1>3, ConfigType
  <2> QED
    BY <1>3, <2>1, <2>2, Zenon
<1>5. HeldBy(run) = {}
  <2>1. Granted(<<>>) = {}
    BY DEF Granted
  <2> QED
    BY <1>3, <1>4, <2>1, Zenon DEF HeldBy
<1>6. 0 .. 0 - 1 = {}
  OBVIOUS
<1>7. t \in DOMAIN run.parked
  BY <1>3, <1>5, SameWords, Zenon DEF Covered, Absent
<1>8. PICK k \in DOMAIN s.queue : s.queue[k] = t
  BY <1>3, <1>6, <1>7, Zenon DEF Agree
<1>9. DOMAIN s.leases = {}
  BY <1>3, <1>5, <1>6, Zenon DEF Agree
<1>10. SchedulerType(s) /\ Books(s) /\ NoneFits(s) /\ s.sa_budgets = [a \in ServiceAccounts |-> Unlimited]
  BY <1>3, Zenon DEF RunType, Admits
<1>11. s.committed = ZERO
  BY <1>9, <1>10, NothingCommitted, Zenon
<1>12. ~ fits_now(s, t)
  BY <1>8, <1>10, Zenon DEF NoneFits
<1>13. s.sa_budgets[Sa[t]] = Unlimited
  <2>1. Sa[t] \in ServiceAccounts
    BY <1>1, SchedulerAssumption, Zenon
  <2> QED
    BY <1>10, <2>1, Zenon
<1>14. s.available \in Amount
  BY <1>10 DEF SchedulerType, Records
<1> HIDE DEF t, s
<1>15. ASSUME ~ ExceedsClusterCapacity(s, t) PROVE FALSE
  <2>1. fits_within(Footprint[t], s.available)
    BY <1>15, Zenon DEF ExceedsClusterCapacity
  <2>2. Room(t, s.available, s.committed)
    BY <1>1, <1>11, <1>14, <2>1, RoomWhenIdle, Zenon
  <2>3. ~ rejected(s, t)
    BY <1>13, <1>15, Zenon DEF rejected, ExceedsSaBudget
  <2> QED
    BY <1>12, <1>13, <2>2, <2>3, Zenon DEF fits_now
<1> QED
  BY <1>7, <1>15, Zenon DEF s, t

LEMMA CancelStep ==
  ASSUME LibraryFacts, LoopInv, [LoopNext]_vars, cancel, pc # "start", NEW t \in Tests
  PROVE  Started(t)' = Started(t)
<1> SUFFICES Attempts(run', t) = Attempts(run, t)
  <2>1. Started(t)' = Attempts(run', t)
    BY Zenon DEF Started, Attempts, StartsIn
  <2> QED
    BY <2>1, SameWords, Zenon
<1>1. Stopped
  BY Zenon DEF Stopped
<1>2. CASE run' = run
  BY <1>2, Zenon
<1>3. CASE Resolve
  <2>1. PICK e \in run.inflight, v \in Verdicts : Complete(e, v)
    BY <1>3, Zenon DEF Resolve
  <2>2. /\ Stopped'
        /\ \/ Attempts(run', e.test) = Attempts(run, e.test) /\ ~ Flies(run', e.test)
           \/ Again(e.test)
        /\ \A u \in Tests \ {e.test} : StartsOrNot(u)
    BY <1>1, <2>1, CompleteStep, Zenon
  <2>3. CASE t = e.test
    BY <2>2, <2>3, Zenon DEF Again
  <2>4. CASE t # e.test
    BY <2>2, <2>4, Zenon DEF StartsOrNot, AsBefore
  <2> QED
    BY <2>3, <2>4, Zenon
<1>4. CASE OnCeiling
  <2>1. Stopped' /\ StartsOrNot(t)
    BY <1>1, <1>4, CeilingStep, Zenon
  <2> QED
    BY <2>1, Zenon DEF StartsOrNot, AsBefore
<1>5. UNCHANGED vars => run' = run
  BY DEF vars
<1>6. \A share : PublishCeiling(share) => run' = run
  BY Zenon DEF PublishCeiling
<1>7. ~ Start
  BY Zenon DEF Start
<1>8. LoopTop \/ CancelArm \/ Tick \/ CtrlC => run' = run
  BY Zenon DEF LoopTop, CancelArm, Tick, CtrlC
<1> QED
  BY <1>2, <1>3, <1>4, <1>5, <1>6, <1>7, <1>8, Zenon DEF LoopNext, Finished

-----------------------------------------------------------------------------
(* The run loop implements TestLifecycle. *)

PhaseOf(r, t) == IF Over(r, t) THEN "settled" ELSE IF Flies(r, t) THEN "running" ELSE "waiting"

Phases(r) == [t \in Tests |-> PhaseOf(r, t)]
Starts(r) == [t \in Tests |-> Attempts(r, t)]

LEMMA PhaseIs ==
  ASSUME NEW r, NEW t
  PROVE  /\ PhaseOf(r, t) \in {"waiting", "running", "settled"}
         /\ PhaseOf(r, t) = "settled" <=> Over(r, t)
         /\ PhaseOf(r, t) = "running" <=> ~ Over(r, t) /\ Flies(r, t)
         /\ PhaseOf(r, t) = "waiting" <=> ~ Over(r, t) /\ ~ Flies(r, t)
BY DEF PhaseOf

LEMMA Mapped ==
  /\ [t \in Tests |-> Phase(t)] = Phases(run)
  /\ [t \in Tests |-> Started(t)] = Starts(run)
  /\ [t \in Tests |-> Phase(t)]' = Phases(run')
  /\ [t \in Tests |-> Started(t)]' = Starts(run')
<1>1. \A t : Phase(t) = PhaseOf(run, t) /\ Started(t) = Attempts(run, t)
  BY Zenon DEF Phase, PhaseOf, Flies, Settled, Over, EndsIn, Started, Attempts, StartsIn
<1>2. \A t : Phase(t)' = PhaseOf(run', t) /\ Started(t)' = Attempts(run', t)
  BY Zenon DEF Phase, PhaseOf, Flies, Settled, Over, EndsIn, Started, Attempts, StartsIn
<1> QED
  BY <1>1, <1>2, Zenon DEF Phases, Starts

(* A turn of TestLifecycle, in the loop's terms.                           *)
MayStart(t) ==
  /\ ~ Stopped' /\ Attempts(run, t) <= Retries[t]
  /\ Attempts(run', t) = Attempts(run, t) + 1 /\ PhaseOf(run', t) = "running"

MayLeave(t) ==
  PhaseOf(run', t) \in {"waiting", "settled"} /\ Attempts(run', t) = Attempts(run, t)

Same(t) == PhaseOf(run', t) = PhaseOf(run, t) /\ Attempts(run', t) = Attempts(run, t)

LEMMA TurnMaps ==
  ASSUME LibraryFacts, NEW done \in {{}} \cup {{t} : t \in Tests},
         RunType(run'), pc # "done", pc' # "done", Stopped => Stopped',
         \A t \in done : PhaseOf(run, t) = "running" /\ (MayLeave(t) \/ MayStart(t)),
         \A t \in Tests \ done : Same(t) \/ (PhaseOf(run, t) = "waiting" /\ MayStart(t))
  PROVE  Lifecycle!Turn(done)
<1>1. /\ Phases(run') \in [Tests -> {"waiting", "running", "settled"}]
      /\ Starts(run') \in [Tests -> Nat]
  <2>1. \A t \in Tests : PhaseOf(run', t) \in {"waiting", "running", "settled"}
    BY PhaseIs, Zenon
  <2>2. \A t \in Tests : Attempts(run', t) \in Nat
    BY Fields, Zenon
  <2> QED
    BY <2>1, <2>2, Zenon DEF Phases, Starts
<1>2. \A t \in Tests : /\ Phases(run)[t] = PhaseOf(run, t) /\ Starts(run)[t] = Attempts(run, t)
                       /\ Phases(run')[t] = PhaseOf(run', t) /\ Starts(run')[t] = Attempts(run', t)
  BY Zenon DEF Phases, Starts
<1>3. done \subseteq Tests
  OBVIOUS
<1>4. \A t \in Tests : MayStart(t) => Lifecycle!Starts(t)
  BY <1>2, Mapped, Zenon DEF MayStart, Lifecycle!Starts
<1>5. \A t \in Tests : MayLeave(t) => Lifecycle!Leaves(t)
  BY <1>2, Mapped, Zenon DEF MayLeave, Lifecycle!Leaves
<1>6. \A t \in Tests : Same(t) => Lifecycle!Stays(t)
  BY <1>2, Mapped, Zenon DEF Same, Lifecycle!Stays
<1>7. \A t \in Tests : [u \in Tests |-> Phase(u)][t] = PhaseOf(run, t)
  BY <1>2, Mapped, Zenon
<1>8. \A t \in done : [u \in Tests |-> Phase(u)][t] = "running" /\ (Lifecycle!Leaves(t) \/ Lifecycle!Starts(t))
  BY <1>3, <1>4, <1>5, <1>7, Zenon
<1>9. \A t \in Tests \ done :
        \/ Lifecycle!Stays(t)
        \/ [u \in Tests |-> Phase(u)][t] = "waiting" /\ Lifecycle!Starts(t)
  BY <1>4, <1>6, <1>7, Zenon
<1>10. /\ [u \in Tests |-> Phase(u)]' \in [Tests -> {"waiting", "running", "settled"}]
       /\ [u \in Tests |-> Started(u)]' \in [Tests -> Nat]
  BY <1>1, Mapped, Zenon
<1> QED
  BY <1>8, <1>9, <1>10, Zenon DEF Lifecycle!Turn

LEMMA StutterMaps ==
  ASSUME run' = run, cancel' = cancel, pc' = "done" <=> pc = "done"
  PROVE  UNCHANGED Lifecycle!lifecycle
<1>1. /\ [t \in Tests |-> Phase(t)]' = [t \in Tests |-> Phase(t)]
      /\ [t \in Tests |-> Started(t)]' = [t \in Tests |-> Started(t)]
  BY Mapped, Zenon
<1>2. Stopped' = Stopped /\ (pc = "done")' = (pc = "done")
  BY DEF Stopped
<1> QED
  BY <1>1, <1>2 DEF Lifecycle!lifecycle

LEMMA LifecycleStep ==
  ASSUME LibraryFacts, LoopInv, LoopInv', [LoopNext]_vars
  PROVE  Lifecycle!Next \/ UNCHANGED Lifecycle!lifecycle
<1>0. RunType(run') /\ {} \in {{}} \cup {{t} : t \in Tests}
      /\ pc \in {"start", "top", "select", "done"} /\ cancel \in BOOLEAN
  BY Zenon DEF LoopInv, Kept
<1>1. CASE Start
  <2>1. \A t \in Tests :
          /\ Attempts(run, t) = 0 /\ ~ Over(run, t) /\ ~ Flies(run, t)
          /\ \/ Attempts(run', t) = 0 /\ ~ Flies(run', t)
             \/ Attempts(run', t) = 1 /\ Flies(run', t) /\ ~ Over(run', t)
    BY <1>1, StartStep, Zenon
  <2>2. \A t \in Tests : /\ Phases(run)[t] = PhaseOf(run, t) /\ Starts(run)[t] = Attempts(run, t)
                         /\ Phases(run')[t] = PhaseOf(run', t) /\ Starts(run')[t] = Attempts(run', t)
    BY Zenon DEF Phases, Starts
  <2>3. \A t \in Tests : PhaseOf(run, t) = "waiting"
    BY <2>1, PhaseIs, Zenon
  <2>4. ASSUME NEW t \in Tests
        PROVE  \/ Same(t)
               \/ Attempts(run', t) = 1 /\ PhaseOf(run', t) = "running"
               \/ Attempts(run', t) = 0 /\ PhaseOf(run', t) = "settled"
    <3>1. CASE Attempts(run', t) = 0 /\ ~ Flies(run', t) /\ Over(run', t)
      BY <3>1, PhaseIs, Zenon
    <3>2. CASE Attempts(run', t) = 0 /\ ~ Flies(run', t) /\ ~ Over(run', t)
      <4>1. PhaseOf(run', t) = "waiting"
        BY <3>2, PhaseIs, Zenon
      <4> QED
        BY <2>1, <2>3, <3>2, <4>1, Zenon DEF Same
    <3>3. CASE Attempts(run', t) = 1 /\ Flies(run', t) /\ ~ Over(run', t)
      BY <3>3, PhaseIs, Zenon
    <3> QED
      BY <2>1, <3>1, <3>2, <3>3, Zenon
  <2>5. pc # "done" /\ pc' # "done"
    BY <1>1 DEF Start
  <2>6. Stopped' \in BOOLEAN
    BY DEF Stopped
  <2>7. \A t \in Tests : Same(t) => Lifecycle!Stays(t)
    <3>1. ASSUME NEW t \in Tests, Same(t) PROVE Lifecycle!Stays(t)
      <4>1. /\ [u \in Tests |-> Phase(u)][t] = PhaseOf(run, t)
            /\ [u \in Tests |-> Started(u)][t] = Attempts(run, t)
        BY <2>2, Mapped, Zenon
      <4>2. /\ [u \in Tests |-> Phase(u)]'[t] = PhaseOf(run', t)
            /\ [u \in Tests |-> Started(u)]'[t] = Attempts(run', t)
        BY <2>2, Mapped, Zenon
      <4>3. PhaseOf(run', t) = PhaseOf(run, t) /\ Attempts(run', t) = Attempts(run, t)
        BY <3>1, Zenon DEF Same
      <4> QED
        BY <4>1, <4>2, <4>3, Zenon DEF Lifecycle!Stays
    <3> QED
      BY <3>1, Zenon
  <2>8. /\ \A t \in Tests : [u \in Tests |-> Phase(u)][t] = "waiting" /\ [u \in Tests |-> Started(u)][t] = 0
        /\ \A t \in Tests : [u \in Tests |-> Phase(u)]'[t] = PhaseOf(run', t)
        /\ \A t \in Tests : [u \in Tests |-> Started(u)]'[t] = Attempts(run', t)
    BY <2>1, <2>2, <2>3, Mapped, Zenon
  <2>9. Lifecycle!Sweep
    BY <2>4, <2>5, <2>6, <2>7, <2>8, Zenon DEF Lifecycle!Sweep
  <2> QED
    BY <2>9, Zenon DEF Lifecycle!Next
<1>2. CASE LoopTop
  <2>1. CASE run.inflight = {}
    <3>1. run' = run /\ cancel' = cancel /\ pc = "top" /\ pc' = "done"
      BY <1>2, <2>1, Zenon DEF LoopTop
    <3>2. /\ [t \in Tests |-> Phase(t)]' = [t \in Tests |-> Phase(t)]
          /\ [t \in Tests |-> Started(t)]' = [t \in Tests |-> Started(t)]
      BY <3>1, Mapped, Zenon
    <3>3. \A t \in Tests : [u \in Tests |-> Phase(u)][t] # "running"
      <4>1. \A t \in Tests : PhaseOf(run, t) # "running"
        BY <2>1, PhaseIs, Zenon DEF Flies
      <4> QED
        BY <4>1, Mapped, Zenon DEF Phases
    <3>4. Stopped' = Stopped /\ ~ (pc = "done") /\ (pc = "done")' = TRUE
      BY <3>1 DEF Stopped
    <3>5. Lifecycle!Close
      BY <3>2, <3>3, <3>4 DEF Lifecycle!Close
    <3> QED
      BY <3>5, Zenon DEF Lifecycle!Next
  <2>2. CASE run.inflight # {}
    <3>1. run' = run /\ cancel' = cancel /\ pc = "top" /\ pc' = "select"
      BY <1>2, <2>2, Zenon DEF LoopTop
    <3>2. pc' = "done" <=> pc = "done"
      BY <3>1
    <3> QED
      BY <3>1, <3>2, StutterMaps, Zenon
  <2> QED
    BY <2>1, <2>2, Zenon
<1>3. CASE CancelArm \/ Tick
  <2>1. run' = run /\ cancel' = cancel /\ pc = "select" /\ pc' = "top"
    BY <1>3, Zenon DEF CancelArm, Tick
  <2>2. pc' = "done" <=> pc = "done"
    BY <2>1
  <2> QED
    BY <2>1, <2>2, StutterMaps, Zenon
<1>4. CASE Resolve
  <2>1. PICK e \in run.inflight, v \in Verdicts : Complete(e, v)
    BY <1>4, Zenon DEF Resolve
  <2>2. /\ (Stopped => Stopped')
        /\ e.test \in Tests /\ Flies(run, e.test) /\ ~ Over(run, e.test)
        /\ \/ Attempts(run', e.test) = Attempts(run, e.test) /\ ~ Flies(run', e.test)
           \/ Again(e.test)
        /\ \A t \in Tests \ {e.test} : StartsOrNot(t)
    BY <2>1, CompleteStep, Zenon
  <2>3. pc # "done" /\ pc' # "done"
    BY <2>1 DEF Complete
  <2>4. {e.test} \in {{}} \cup {{t} : t \in Tests}
    BY <2>2, Zenon
  <2>5. PhaseOf(run, e.test) = "running" /\ (MayLeave(e.test) \/ MayStart(e.test))
    <3>1. CASE Attempts(run', e.test) = Attempts(run, e.test) /\ ~ Flies(run', e.test)
      BY <2>2, <3>1, PhaseIs, Zenon DEF MayLeave
    <3>2. CASE Again(e.test)
      BY <2>2, <3>2, PhaseIs, Zenon DEF Again, MayStart
    <3> QED
      BY <2>2, <3>1, <3>2, Zenon
  <2>6. ASSUME NEW t \in Tests \ {e.test}
        PROVE  Same(t) \/ (PhaseOf(run, t) = "waiting" /\ MayStart(t))
    <3>1. CASE AsBefore(run, run', t)
      <4>1. PhaseOf(run', t) = PhaseOf(run, t)
        BY <3>1, Zenon DEF AsBefore, PhaseOf
      <4> QED
        BY <3>1, <4>1, Zenon DEF AsBefore, Same
    <3>2. CASE Launch(run, run', t) /\ ~ Stopped'
      BY <3>2, PhaseIs, Zenon DEF Launch, MayStart
    <3> QED
      BY <2>2, <3>1, <3>2, Zenon DEF StartsOrNot
  <2>7. Lifecycle!Turn({e.test})
    BY <1>0, <2>2, <2>3, <2>4, <2>5, <2>6, TurnMaps, Zenon
  <2> QED
    BY <2>4, <2>7, Zenon DEF Lifecycle!Next
<1>5. CASE OnCeiling
  <2>1. (Stopped => Stopped') /\ \A t \in Tests : StartsOrNot(t)
    BY <1>5, CeilingStep, Zenon
  <2>2. pc # "done" /\ pc' # "done"
    BY <1>5 DEF OnCeiling
  <2>3. ASSUME NEW t \in Tests
        PROVE  Same(t) \/ (PhaseOf(run, t) = "waiting" /\ MayStart(t))
    <3>1. CASE AsBefore(run, run', t)
      <4>1. PhaseOf(run', t) = PhaseOf(run, t)
        BY <3>1, Zenon DEF AsBefore, PhaseOf
      <4> QED
        BY <3>1, <4>1, Zenon DEF AsBefore, Same
    <3>2. CASE Launch(run, run', t) /\ ~ Stopped'
      BY <3>2, PhaseIs, Zenon DEF Launch, MayStart
    <3> QED
      BY <2>1, <3>1, <3>2, Zenon DEF StartsOrNot
  <2>4. Lifecycle!Turn({})
    BY <1>0, <2>1, <2>2, <2>3, TurnMaps, Zenon
  <2> QED
    BY <1>0, <2>4, Zenon DEF Lifecycle!Next
<1>6. CASE CtrlC
  <2>1. run' = run /\ cancel' = TRUE /\ pc' = pc /\ pc # "done"
    BY <1>6, Zenon DEF CtrlC
  <2>2. Stopped => Stopped'
    BY <2>1, Zenon DEF Stopped
  <2>3. \A t \in Tests : Same(t)
    BY <2>1, Zenon DEF Same
  <2>4. pc' # "done"
    BY <2>1, Zenon
  <2>5. Lifecycle!Turn({})
    BY <1>0, <2>1, <2>2, <2>3, <2>4, TurnMaps, Zenon
  <2> QED
    BY <1>0, <2>5, Zenon DEF Lifecycle!Next
<1>7. ASSUME NEW share \in Shares, PublishCeiling(share)
      PROVE  UNCHANGED Lifecycle!lifecycle
  BY <1>7, StutterMaps, Zenon DEF PublishCeiling
<1>8. CASE UNCHANGED vars
  <2>1. run' = run /\ pc' = pc /\ cancel' = cancel
    BY <1>8 DEF vars
  <2> QED
    BY <2>1, StutterMaps, Zenon
<1> QED
  BY <1>1, <1>2, <1>3, <1>4, <1>5, <1>6, <1>7, <1>8, Zenon DEF LoopNext, Finished

LEMMA LifecycleInit ==
  ASSUME LibraryFacts
  PROVE  LoopInit => Lifecycle!Init
<1> SUFFICES ASSUME LoopInit PROVE Lifecycle!Init
  OBVIOUS
<1>1. run.inflight = {} /\ run.events = [t \in Tests |-> <<>>] /\ run.tripped = FALSE
      /\ pc = "start" /\ cancel = FALSE
  BY DEF LoopInit
<1>2. \A t \in Tests : run.events[t] = <<>>
  BY <1>1, Zenon
<1>3. \A t \in Tests : Attempts(run, t) = 0 /\ ~ Over(run, t) /\ ~ Flies(run, t)
  BY <1>1, <1>2, NoHistory, Zenon DEF Attempts, Over, Flies
<1>4. \A t \in Tests : PhaseOf(run, t) = "waiting"
  BY <1>3, PhaseIs, Zenon
<1>5. [t \in Tests |-> Phase(t)] = [t \in Tests |-> "waiting"]
  BY <1>4, Mapped, Zenon DEF Phases
<1>6. [t \in Tests |-> Started(t)] = [t \in Tests |-> 0]
  BY <1>3, Mapped, Zenon DEF Starts
<1>7. Stopped = FALSE /\ (pc = "done") = FALSE
  BY <1>1 DEF Stopped
<1> QED
  BY <1>5, <1>6, <1>7, Zenon DEF Lifecycle!Init

-----------------------------------------------------------------------------
(* What the lifecycle gives a test. *)

LEMMA LifecycleKeeps ==
  ASSUME Lifecycle!Next \/ UNCHANGED Lifecycle!lifecycle, NEW t \in Tests
  PROVE  /\ Settled(t) => Settled(t)' /\ Started(t)' = Started(t)
         /\ \/ Started(t)' = Started(t)
            \/ Started(t)' = Started(t) + 1 /\ Started(t) <= Retries[t]
<1> DEFINE ph == [u \in Tests |-> Phase(u)]
           at == [u \in Tests |-> Started(u)]
<1>1. ph[t] = Phase(t) /\ at[t] = Started(t) /\ ph'[t] = Phase(t)' /\ at'[t] = Started(t)'
  OBVIOUS
<1>2. (Settled(t) => Phase(t) = "settled" /\ Phase(t) # "waiting" /\ Phase(t) # "running")
      /\ (Phase(t)' = "settled" => Settled(t)')
  BY DEF Phase
<1>3. ASSUME Lifecycle!Stays(t) PROVE Phase(t)' = Phase(t) /\ Started(t)' = Started(t)
  BY <1>1, <1>3, Zenon DEF Lifecycle!Stays
<1>4. ASSUME Lifecycle!Starts(t) PROVE Started(t)' = Started(t) + 1 /\ Started(t) <= Retries[t]
  BY <1>1, <1>4, Zenon DEF Lifecycle!Starts
<1>5. ASSUME Lifecycle!Leaves(t) PROVE Started(t)' = Started(t)
  BY <1>1, <1>5, Zenon DEF Lifecycle!Leaves
<1>6. ASSUME NEW done \in {{}} \cup {{u} : u \in Tests}, Lifecycle!Turn(done)
      PROVE  \/ Phase(t)' = Phase(t) /\ Started(t)' = Started(t)
             \/ /\ Phase(t) \in {"waiting", "running"}
                /\ \/ Started(t)' = Started(t)
                   \/ Started(t)' = Started(t) + 1 /\ Started(t) <= Retries[t]
  <2>1. CASE t \in done
    <3>1. ph[t] = "running" /\ (Lifecycle!Leaves(t) \/ Lifecycle!Starts(t))
      BY <1>6, <2>1, Zenon DEF Lifecycle!Turn
    <3> QED
      BY <1>1, <1>4, <1>5, <3>1, Zenon
  <2>2. CASE t \notin done
    <3>1. Lifecycle!Stays(t) \/ (ph[t] = "waiting" /\ Lifecycle!Starts(t))
      BY <1>6, <2>2, Zenon DEF Lifecycle!Turn
    <3> QED
      BY <1>1, <1>3, <1>4, <3>1, Zenon
  <2> QED
    BY <2>1, <2>2, Zenon
<1>7. ASSUME Lifecycle!Sweep
      PROVE  /\ Phase(t) = "waiting"
             /\ \/ Started(t)' = Started(t)
                \/ Started(t)' = Started(t) + 1 /\ Started(t) <= Retries[t]
  <2>1. ph[t] = "waiting" /\ at[t] = 0 /\ (Lifecycle!Stays(t) \/ at'[t] = 1 \/ at'[t] = 0)
    BY <1>7, Zenon DEF Lifecycle!Sweep
  <2>2. Retries[t] \in Nat
    BY RunLoopAssumption
  <2>3. Started(t)' = 1 /\ Started(t) = 0 => Started(t)' = Started(t) + 1 /\ Started(t) <= Retries[t]
    BY <2>2
  <2> QED
    BY <1>1, <1>3, <2>1, <2>3, Zenon
<1>8. ASSUME Lifecycle!Close \/ UNCHANGED Lifecycle!lifecycle
      PROVE  Phase(t)' = Phase(t) /\ Started(t)' = Started(t)
  <2>1. ph' = ph /\ at' = at
    BY <1>8 DEF Lifecycle!Close, Lifecycle!lifecycle
  <2> HIDE DEF ph, at
  <2> QED
    BY <1>1, <2>1, Zenon
<1> HIDE DEF ph, at
<1> QED
  BY <1>2, <1>6, <1>7, <1>8, Zenon DEF Lifecycle!Next

-----------------------------------------------------------------------------
(* The library facts the lemmas assume, from the libraries. *)

Lib == INSTANCE FiniteSetTheorems

LEMMA SameCardinality ==
  \A S : Lib!Cardinality(S) = Cardinality(S) /\ (Lib!IsFiniteSet(S) <=> IsFiniteSet(S))
BY Zenon DEF Lib!Cardinality, Cardinality, Lib!IsFiniteSet, IsFiniteSet

LEMMA LibraryFactsHold == LibraryFacts
<1>1. WellOrdered
  <2> SUFFICES ASSUME NEW S \in SUBSET Nat, S # {}
               PROVE  \E m \in S : \A k \in S : m <= k
    BY DEF WellOrdered
  <2> DEFINE R == Lib!OpToRel(<, Nat)
  <2>1. R = {p \in Nat \X Nat : p[1] < p[2]}
    BY DEF Lib!OpToRel
  <2>2. Lib!IsWellFoundedOn(R, Nat)
    BY Lib!NatLessThanWellFounded, Zenon
  <2> HIDE DEF R
  <2>3. PICK m \in S : \A k \in S : ~ (<<k, m>> \in R)
    BY <2>2, Lib!WFMin, Zenon
  <2>4. ASSUME NEW k \in S PROVE m <= k
    <3>1. k \in Nat /\ m \in Nat
      OBVIOUS
    <3>2. k < m => <<k, m>> \in R
      BY <2>1, <3>1, SMTT(30)
    <3> QED
      BY <2>3, <3>1, <3>2, SMTT(30)
  <2> QED
    BY <2>4, SMTT(30)
<1>2. IsFiniteSet({}) /\ Cardinality({}) = 0
  BY SameCardinality, Lib!FS_EmptySet, Zenon
<1>3. ASSUME NEW n \in Nat PROVE IsFiniteSet(1 .. n)
  <2>1. 1 \in Int /\ n \in Int
    OBVIOUS
  <2> QED
    BY <2>1, SameCardinality, Lib!FS_Interval, Zenon
<1>4. ASSUME NEW S, IsFiniteSet(S), NEW x
      PROVE  /\ Cardinality(S) \in Nat
             /\ Cardinality(S) = 0 => S = {}
             /\ \A T \in SUBSET S : IsFiniteSet(T)
             /\ IsFiniteSet(S \cup {x}) /\ IsFiniteSet(S \ {x})
             /\ x \notin S => Cardinality(S \cup {x}) = Cardinality(S) + 1
             /\ x \in S => Cardinality(S \ {x}) = Cardinality(S) - 1
  <2>1. Lib!IsFiniteSet(S)
    BY <1>4, SameCardinality, Zenon
  <2>2. Cardinality(S) \in Nat
    BY <2>1, SameCardinality, Lib!FS_CardinalityType, Zenon
  <2>3. Cardinality(S) = 0 => S = {}
    BY <2>1, SameCardinality, Lib!FS_EmptySet, Zenon
  <2>4. \A T \in SUBSET S : IsFiniteSet(T)
    BY <2>1, SameCardinality, Lib!FS_Subset, Zenon
  <2>5. /\ IsFiniteSet(S \cup {x})
        /\ x \notin S => Cardinality(S \cup {x}) = Cardinality(S) + 1
    BY <2>1, SameCardinality, Lib!FS_AddElement, Zenon
  <2>6. /\ IsFiniteSet(S \ {x})
        /\ x \in S => Cardinality(S \ {x}) = Cardinality(S) - 1
    BY <2>1, SameCardinality, Lib!FS_RemoveElement, Zenon
  <2> QED
    BY <2>2, <2>3, <2>4, <2>5, <2>6, Zenon
<1>5. Counting
  BY <1>2, <1>3, <1>4, Zenon DEF Counting
<1> QED
  BY <1>1, <1>5, Zenon DEF LibraryFacts

-----------------------------------------------------------------------------
(* The admission core. *)

LEMMA InvHolds == Spec => []InductiveInv
<1>1. Init => InductiveInv
  BY InitType DEF Init, new, EmptyMap, InductiveInv, NoQueuedFits
<1>2. QED
  BY <1>1, LibraryFactsHold, InvPreserved, PTL DEF Spec

(* The fields of the scheduler have their types in every reachable state. *)
THEOREM TypeCorrect == Spec => []TypeOK
<1>1. InductiveInv => TypeOK
  BY SMTT(30) DEF InductiveInv
<1>2. QED
  BY <1>1, InvHolds, PTL

(* Work conservation: after every operation of the scheduler no request is *)
(* left queued that the free capacity and its budget would admit.          *)
THEOREM WorkConserving == Spec => []NoQueuedFits
<1>1. InductiveInv => NoQueuedFits
  BY DEF InductiveInv
<1>2. QED
  BY <1>1, InvHolds, PTL

(* No operation of the scheduler commits more of a dimension than the      *)
(* ceiling it leaves behind, even after the ceiling shrank under running   *)
(* tests: the assertion of `admit` over whole passes.                      *)
THEOREM NeverOverloads == Spec => NoOverload
<1>1. InductiveInv /\ [Next]_sched
        => [\A d \in Dims : sched'.committed[d] > sched.committed[d]
                              => sched'.committed[d] <= sched'.available[d]]_sched
  BY LibraryFactsHold, NoOverloadStep, SMTT(30) DEF InductiveInv
<1>2. QED
  BY <1>1, InvHolds, PTL DEF Spec, NoOverload

(* A request that joins the queue is the only one its pass may admit: the  *)
(* assertion of `request` never fires.                                     *)
THEOREM FreshEnqueue == Spec => FreshEnqueueAdmitsOnlyItself
<1>1. InductiveInv /\ [Next]_sched
        => [sched'.next_seq # sched.next_seq =>
              /\ sched'.next_slot_id <= sched.next_slot_id + 1
              /\ \A i \in DOMAIN sched.queue : i \in DOMAIN sched'.queue]_sched
  BY LibraryFactsHold, FreshStep, SMTT(30) DEF InductiveInv
<1>2. QED
  BY <1>1, InvHolds, PTL DEF Spec, FreshEnqueueAdmitsOnlyItself

(* First fit in arrival order: an operation admits a request past an       *)
(* earlier one it leaves queued only when the earlier one is charged to    *)
(* another service account or asks for more in some dimension.             *)
THEOREM ArrivalOrder == Spec => NoOvertaking
<1> DEFINE A == \A slot \in Grants(sched, sched'),
                   i \in DOMAIN sched.queue \cap DOMAIN sched'.queue :
                  LET t == sched'.leases[slot]
                      earlier == sched.queue[i]
                  IN  /\ \A j \in DOMAIN sched.queue : sched.queue[j] = t => i < j
                      /\ Sa[earlier] = Sa[t]
                      => ~ fits_within(Footprint[earlier], Footprint[t])
<1>1. InductiveInv /\ [Next]_sched => [A]_sched
  BY LibraryFactsHold, OrderStep, SMTT(30) DEF InductiveInv
<1>2. QED
  BY <1>1, InvHolds, PTL DEF Spec, NoOvertaking

(* The books balance for any tests and clients: `committed` is the sum of  *)
(* the live leases and each account's usage the sum of its own             *)
(* (CommittedIsTheSumOfLeases).  `admit` and `release` saturate, and the   *)
(* proof shows that they never do: what is granted fits what is free, and  *)
(* an account holds no more than the pool.                                 *)
THEOREM BooksBalance == Spec => []CommittedIsTheSumOfLeases
<1>1. Init => Books(sched)
  <2> SUFFICES ASSUME NEW ceiling \in Ceilings,
                      sched = new(ceiling, [a \in ServiceAccounts |-> Unlimited])
               PROVE  Books(sched)
    BY DEF Init
  <2>1. ceiling \in Amount /\ [a \in ServiceAccounts |-> Unlimited] \in [ServiceAccounts -> Budgets]
    BY DriverAssumption DEF Budgets
  <2> QED
    BY <2>1, LibraryFactsHold, NewBooks, Zenon
<1>2. InductiveInv /\ Books(sched) /\ [Next]_sched => Books(sched)'
  BY LibraryFactsHold, BooksStep, SMTT(30) DEF InductiveInv
<1>3. Books(sched) => CommittedIsTheSumOfLeases
  BY Zenon DEF Books, CommittedIsTheSumOfLeases
<1> QED
  BY <1>1, <1>2, <1>3, InvHolds, PTL DEF Spec

-----------------------------------------------------------------------------
(* The run loop. *)

LEMMA LoopInvHolds == LoopSpec => []LoopInv
BY LibraryFactsHold, InitHolds, InvStep, PTL DEF LoopSpec

(* Whatever completed, was retried or re-ceilinged, in whatever order, the *)
(* loop's tables and the admission core's agree.                           *)
THEOREM LoopAgreesWithCore == LoopSpec => []LoopMatchesScheduler
BY LibraryFactsHold, LoopInvHolds, InvMatches, PTL

(* Whatever completed, was retried or re-ceilinged, the loop's locals keep *)
(* their types, the admission core's included.                             *)
THEOREM LoopWellTyped == LoopSpec => []LoopTypeOK
BY LibraryFactsHold, LoopInvHolds, InvTyped, PTL

Capped == Cardinality(run.inflight) <= cfg.max_inflight

(* `pump!` is the only gate of a serialized run: no arm of the loop puts   *)
(* more than max_inflight tests in flight.                                 *)
THEOREM WithinMaxInflight == LoopSpec => []Capped
<1>1. LoopInv => Capped
  BY Zenon DEF LoopInv, Capped
<1> QED
  BY <1>1, LoopInvHolds, PTL

(* A run that was neither cancelled nor tripped leaves behind only tests   *)
(* larger than its ceiling.                                                *)
THEOREM NothingElseLeftBehind == LoopSpec => []OnlyOversizedLeftBehind
BY LibraryFactsHold, LoopInvHolds, InvOversized, PTL

(* Once the cancel flag is set no test starts.                             *)
THEOREM NothingStartsAfterCancel == LoopSpec => NoStartAfterCancel
<1>1. LoopInv /\ [LoopNext]_vars
        => [cancel /\ pc # "start" => \A t \in Tests : Started(t)' = Started(t)]_vars
  BY LibraryFactsHold, CancelStep, Zenon
<1> QED
  BY <1>1, LoopInvHolds, PTL DEF LoopSpec, NoStartAfterCancel

(* The run loop keeps the promises of TestLifecycle, for every suite and   *)
(* whatever the ceilings: at most retries + 1 attempts, one settlement,    *)
(* nothing started once it is closing.                                     *)
THEOREM LoopImplementsLifecycle == LoopSpec => ImplementsLifecycle
<1>1. LoopInv /\ LoopInv' /\ [LoopNext]_vars => [Lifecycle!Next]_(Lifecycle!lifecycle)
  BY LibraryFactsHold, LifecycleStep, Zenon
<1> QED
  BY <1>1, LibraryFactsHold, LifecycleInit, LoopInvHolds, PTL DEF LoopSpec, ImplementsLifecycle, Lifecycle!Spec

Bounded == \A t \in Tests : Started(t) <= Retries[t] + 1

(* A test is started at most retries + 1 times, however often its retries  *)
(* were parked, granted or refused in between (schedule.rs `retryable`).   *)
THEOREM RetriesBounded == LoopSpec => []Bounded
<1>1. LoopInv => \A t \in Tests : Started(t) \in Nat /\ Retries[t] \in Nat
  <2>1. LoopInv => \A t \in Tests : Started(t) \in Nat
    BY LibraryFactsHold, Fields, SameWords, Zenon DEF LoopInv, Kept
  <2>2. \A t \in Tests : Retries[t] \in Nat
    BY RunLoopAssumption
  <2> QED
    BY <2>1, <2>2, Zenon
<1>2. LoopInit => Bounded
  <2> SUFFICES ASSUME LoopInit PROVE Bounded
    OBVIOUS
  <2>1. \A t \in Tests : Started(t) = 0 /\ Retries[t] \in Nat
    <3>1. LoopInv /\ pc = "start"
      BY LibraryFactsHold, InitHolds, Zenon DEF LoopInit
    <3> QED
      BY <1>1, <3>1, SameWords, Zenon DEF LoopInv, Swept
  <2> QED
    BY <2>1 DEF Bounded
<1>3. LoopInv /\ LoopInv' /\ [LoopNext]_vars /\ Bounded => Bounded'
  <2> SUFFICES ASSUME LoopInv, LoopInv', [LoopNext]_vars, Bounded, NEW t \in Tests
               PROVE  Started(t)' <= Retries[t] + 1
    BY Zenon DEF Bounded
  <2> DEFINE a == Started(t)
             b == Started(t)'
             r == Retries[t]
  <2>1. a \in Nat /\ r \in Nat /\ a <= r + 1
    BY <1>1, Zenon DEF Bounded
  <2>2. b = a \/ (b = a + 1 /\ a <= r)
    BY LibraryFactsHold, LifecycleStep, LifecycleKeeps, Zenon
  <2> HIDE DEF a, b, r
  <2>3. b <= r + 1
    BY <2>1, <2>2, SMTT(30)
  <2> QED
    BY <2>3, Zenon DEF b, r
<1> QED
  BY <1>2, <1>3, LoopInvHolds, PTL DEF LoopSpec

(* The event that settles a test is its last word: it stays settled and is *)
(* not started again (events.rs `TestEvent`).                              *)
THEOREM SettledForGood ==
  LoopSpec => [][\A t \in Tests : Settled(t) => Settled(t)' /\ Started(t)' = Started(t)]_vars
<1>1. LoopInv /\ LoopInv' /\ [LoopNext]_vars
        => [\A t \in Tests : Settled(t) => Settled(t)' /\ Started(t)' = Started(t)]_vars
  BY LibraryFactsHold, LifecycleStep, LifecycleKeeps, Zenon
<1> QED
  BY <1>1, LoopInvHolds, PTL DEF LoopSpec
=============================================================================
