--------------------------- MODULE SchedulerProofs ---------------------------
(***************************************************************************)
(* Lemmas about the admission core, for every set of tests, footprints,    *)
(* budgets and ceilings; then what each of the run loop's calls on the     *)
(* core does to the loop's own tables.  RunLoopProofs has the theorems.    *)
(***************************************************************************)
EXTENDS Scheduler, RunLoop, TLAPS

(* What the proofs take from the libraries: naturals are well ordered, and *)
(* how Cardinality counts.  The lemmas assume it, which keeps the          *)
(* libraries out of their context; RunLoopProofs proves it from            *)
(* FiniteSetTheorems, and the theorems it closes with assume nothing.      *)
WellOrdered == \A S \in SUBSET Nat : S # {} => \E m \in S : \A k \in S : m <= k

Counting ==
  /\ IsFiniteSet({}) /\ Cardinality({}) = 0
  /\ \A n \in Nat : IsFiniteSet(1 .. n)
  /\ \A S : IsFiniteSet(S) =>
       /\ Cardinality(S) \in Nat
       /\ Cardinality(S) = 0 => S = {}
       /\ \A T \in SUBSET S : IsFiniteSet(T)
       /\ \A x : /\ IsFiniteSet(S \cup {x}) /\ IsFiniteSet(S \ {x})
                 /\ x \notin S => Cardinality(S \cup {x}) = Cardinality(S) + 1
                 /\ x \in S => Cardinality(S \ {x}) = Cardinality(S) - 1

LibraryFacts == WellOrdered /\ Counting

(* A set of indices that holds 0 and is closed under successor up to n     *)
(* holds the whole interval.                                               *)
LEMMA IntervalInduction ==
  ASSUME LibraryFacts, NEW n \in Nat, NEW A,
         0 \in A,
         \A i \in 0 .. n - 1 : i \in A => i + 1 \in A
  PROVE  \A i \in 0 .. n : i \in A
<1> DEFINE Out == {i \in 0 .. n : i \notin A}
<1> SUFFICES ASSUME Out # {} PROVE FALSE
  OBVIOUS
<1>1. PICK m \in Out : \A k \in Out : m <= k
  <2>1. Out \in SUBSET Nat
    OBVIOUS
  <2> HIDE DEF Out
  <2>2. QED
    BY <2>1 DEF LibraryFacts, WellOrdered
<1>2. m # 0 /\ m - 1 \in 0 .. n - 1
  OBVIOUS
<1>3. m - 1 \in A
  BY <1>1, <1>2
<1>4. QED
  BY <1>2, <1>3

-----------------------------------------------------------------------------
(* The loop of schedule_pass has a trace: the scheduler before the first   *)
(* iteration, then after each one, and the pass returns the last.          *)
IsTrace(f, s, n) ==
  f = [i \in 0 .. n |-> IF i = 0 THEN s ELSE visit(f[i - 1], i - 1)]

LEMMA TraceExists ==
  ASSUME LibraryFacts, NEW s, NEW n \in Nat
  PROVE  \E f : IsTrace(f, s, n)
<1> DEFINE A == {m \in Nat : \E f : IsTrace(f, s, m)}
<1>1. 0 \in A
  <2> DEFINE f == [i \in 0 .. 0 |-> s]
  <2>1. IsTrace(f, s, 0)
    BY DEF IsTrace
  <2>2. QED
    BY <2>1
<1>2. ASSUME NEW m \in 0 .. n - 1, m \in A
      PROVE  m + 1 \in A
  <2>1. PICK f : IsTrace(f, s, m)
    BY <1>2
  <2> DEFINE g == [i \in 0 .. m + 1 |-> IF i = m + 1 THEN visit(f[m], m) ELSE f[i]]
  <2>2. IsTrace(g, s, m + 1)
    <3>1. \A i \in 0 .. m : f[i] = IF i = 0 THEN s ELSE visit(f[i - 1], i - 1)
      BY <2>1 DEF IsTrace
    <3>2. \A i \in 0 .. m + 1 : g[i] = IF i = 0 THEN s ELSE visit(g[i - 1], i - 1)
      BY <3>1
    <3>3. QED
      BY <3>2 DEF IsTrace
  <2>3. QED
    BY <2>2
<1>3. \A i \in 0 .. n : i \in A
  <2> HIDE DEF A
  <2>1. QED
    BY <1>1, <1>2, IntervalInduction
<1>4. QED
  BY <1>3

LEMMA PassTrace ==
  ASSUME LibraryFacts, NEW s, s.next_seq \in Nat
  PROVE  \E f : /\ IsTrace(f, s, s.next_seq)
                /\ schedule_pass(s) = f[s.next_seq]
<1> DEFINE f == CHOOSE f : IsTrace(f, s, s.next_seq)
<1>1. IsTrace(f, s, s.next_seq)
  BY TraceExists
<1>2. schedule_pass(s) = f[s.next_seq]
  BY DEF schedule_pass, IsTrace
<1>3. QED
  BY <1>1, <1>2, Zenon

-----------------------------------------------------------------------------
(* Amounts. *)

LEMMA AmountClosed ==
  ASSUME NEW a \in Amount, NEW b \in Amount
  PROVE  saturating_add(a, b) \in Amount /\ saturating_sub(a, b) \in Amount
BY ResourcesAssumption DEF Amount, saturating_add, saturating_sub

LEMMA ZeroIsAmount == ZERO \in Amount
BY ResourcesAssumption DEF Amount, ZERO

(* Adding never lowers a dimension, and subtracting more leaves less. *)
LEMMA AddGrows ==
  ASSUME NEW a \in Amount, NEW b \in Amount
  PROVE  fits_within(a, saturating_add(a, b))
BY ResourcesAssumption DEF Amount, saturating_add, fits_within

LEMMA RoomShrinks ==
  ASSUME NEW t \in Tests, NEW cap \in Amount, NEW a \in Amount, NEW b \in Amount,
         fits_within(a, b), Room(t, cap, b)
  PROVE  Room(t, cap, a)
<1> SUFFICES ASSUME NEW d \in Dims
             PROVE  Footprint[t][d] <= saturating_sub(cap, a)[d]
  BY Zenon DEF Room, fits_within
<1>1. /\ a[d] \in Nat /\ b[d] \in Nat /\ cap[d] \in Nat /\ Footprint[t][d] \in Nat
      /\ a[d] <= b[d]
  BY ResourcesAssumption, SchedulerAssumption DEF Amount, fits_within
<1>2. Footprint[t][d] <= (IF cap[d] <= b[d] THEN 0 ELSE cap[d] - b[d])
  BY DEF Room, fits_within, saturating_sub
<1>3. Footprint[t][d] <= (IF cap[d] <= a[d] THEN 0 ELSE cap[d] - a[d])
  BY <1>1, <1>2
<1>4. QED
  BY <1>3 DEF saturating_sub

LEMMA FitsTransitive ==
  ASSUME NEW a \in Amount, NEW b \in Amount, NEW c \in Amount,
         fits_within(a, b), fits_within(b, c)
  PROVE  fits_within(a, c)
<1> SUFFICES ASSUME NEW d \in Dims PROVE a[d] <= c[d]
  BY Zenon DEF fits_within
<1>1. a[d] \in Int /\ b[d] \in Int /\ c[d] \in Int
  BY ResourcesAssumption DEF Amount
<1>2. a[d] <= b[d] /\ b[d] <= c[d]
  BY DEF fits_within
<1>3. QED
  BY <1>1, <1>2

-----------------------------------------------------------------------------
(* One iteration of the loop. *)

LEMMA ChargeType ==
  ASSUME NEW usage \in [ServiceAccounts -> Amount], NEW t \in Tests
  PROVE  /\ charge(usage, t) \in [ServiceAccounts -> Amount]
         /\ credit(usage, t) \in [ServiceAccounts -> Amount]
BY SchedulerAssumption, AmountClosed DEF charge, credit

LEMMA AdmitType ==
  ASSUME NEW s, SchedulerType(s), NEW i \in DOMAIN s.queue
  PROVE  /\ SchedulerType(admit(s, i))
         /\ admit(s, i).available = s.available
         /\ admit(s, i).sa_budgets = s.sa_budgets
         /\ admit(s, i).next_seq = s.next_seq
         /\ admit(s, i).next_slot_id = s.next_slot_id + 1
         /\ admit(s, i).queue = Remove(s.queue, i)
         /\ admit(s, i).leases = Insert(s.leases, s.next_slot_id, s.queue[i])
         /\ admit(s, i).committed = saturating_add(s.committed, Footprint[s.queue[i]])
         /\ admit(s, i).sa_usage = charge(s.sa_usage, s.queue[i])
<1> DEFINE t == s.queue[i]
           committed == saturating_add(s.committed, Footprint[t])
           usage == charge(s.sa_usage, t)
           slot == s.next_slot_id + 1
           leases == Insert(s.leases, s.next_slot_id, t)
           queue == Remove(s.queue, i)
           r == [s EXCEPT !.committed = committed,
                          !.sa_usage = usage,
                          !.leases = leases,
                          !.next_slot_id = slot,
                          !.queue = queue]
<1>1. /\ s \in Records({s.leases}, {s.queue})
      /\ s.committed \in Amount
      /\ s.sa_usage \in [ServiceAccounts -> Amount]
      /\ s.next_slot_id \in Nat
  BY DEF SchedulerType, Records
<1>2. t \in Tests /\ Footprint[t] \in Amount
  BY SchedulerAssumption DEF SchedulerType
<1>3. committed \in Amount /\ usage \in [ServiceAccounts -> Amount] /\ slot \in Nat
  BY <1>1, <1>2, AmountClosed, ChargeType
<1>4. admit(s, i) = r
  BY DEF admit
<1>5. queue \in [DOMAIN queue -> Tests] /\ DOMAIN queue \subseteq 0 .. s.next_seq - 1
  BY DEF SchedulerType, Remove
<1>6. leases \in [DOMAIN leases -> Tests] /\ DOMAIN leases \subseteq 0 .. slot - 1
  BY <1>1, <1>2 DEF SchedulerType, Insert
<1>7. /\ r \in Records({leases}, {queue})
      /\ r.available = s.available
      /\ r.sa_budgets = s.sa_budgets
      /\ r.next_seq = s.next_seq
      /\ r.next_slot_id = slot
      /\ r.queue = queue
      /\ r.leases = leases
      /\ r.committed = committed
      /\ r.sa_usage = usage
  <2> HIDE DEF committed, usage, slot, leases, queue
  <2> QED BY <1>1, <1>3, Zenon DEF Records
<1>8. SchedulerType(r)
  <2> HIDE DEF r, committed, usage, slot, leases, queue
  <2> QED BY <1>5, <1>6, <1>7 DEF SchedulerType
<1>9. QED
  BY <1>4, <1>7, <1>8

-----------------------------------------------------------------------------
(* What fits: less load and a smaller request can only help. *)

Grown(s, r) ==
  /\ fits_within(s.committed, r.committed)
  /\ \A a \in ServiceAccounts : fits_within(s.sa_usage[a], r.sa_usage[a])

LEMMA FitsMonotone ==
  ASSUME NEW s, SchedulerType(s), NEW r, SchedulerType(r),
         r.available = s.available, r.sa_budgets = s.sa_budgets, Grown(s, r),
         NEW t \in Tests, fits_now(r, t)
  PROVE  fits_now(s, t)
<1>1. /\ s.available \in Amount /\ s.committed \in Amount /\ r.committed \in Amount
      /\ s.sa_usage \in [ServiceAccounts -> Amount]
      /\ r.sa_usage \in [ServiceAccounts -> Amount]
      /\ s.sa_budgets \in [ServiceAccounts -> Budgets]
  BY DEF SchedulerType, Records
<1>2. Sa[t] \in ServiceAccounts
  BY SchedulerAssumption
<1>3. ~ rejected(s, t)
  BY DEF fits_now, rejected, ExceedsClusterCapacity, ExceedsSaBudget
<1>4. Room(t, s.available, s.committed)
  BY <1>1, RoomShrinks DEF fits_now, Grown
<1>5. ASSUME s.sa_budgets[Sa[t]] # Unlimited
      PROVE  Room(t, s.sa_budgets[Sa[t]], s.sa_usage[Sa[t]])
  <2>1. s.sa_budgets[Sa[t]] \in Amount
    BY <1>1, <1>2, <1>5 DEF Budgets
  <2>2. /\ s.sa_usage[Sa[t]] \in Amount /\ r.sa_usage[Sa[t]] \in Amount
        /\ fits_within(s.sa_usage[Sa[t]], r.sa_usage[Sa[t]])
    BY <1>1, <1>2 DEF Grown
  <2>3. Room(t, s.sa_budgets[Sa[t]], r.sa_usage[Sa[t]])
    BY <1>5 DEF fits_now
  <2>4. QED
    BY <2>1, <2>2, <2>3, RoomShrinks
<1>6. QED
  BY <1>3, <1>4, <1>5 DEF fits_now

LEMMA FitsSmaller ==
  ASSUME NEW s, SchedulerType(s), NEW t \in Tests, NEW e \in Tests, Sa[e] = Sa[t],
         fits_within(Footprint[e], Footprint[t]), fits_now(s, t)
  PROVE  fits_now(s, e)
<1>1. /\ s.available \in Amount /\ s.committed \in Amount
      /\ s.sa_usage \in [ServiceAccounts -> Amount]
      /\ s.sa_budgets \in [ServiceAccounts -> Budgets]
  BY DEF SchedulerType, Records
<1>2. Sa[t] \in ServiceAccounts /\ Footprint[e] \in Amount /\ Footprint[t] \in Amount
  BY SchedulerAssumption
<1>3. ASSUME NEW cap \in Amount, fits_within(Footprint[t], cap)
      PROVE  fits_within(Footprint[e], cap)
  BY <1>2, <1>3, FitsTransitive
<1>4. ~ ExceedsClusterCapacity(s, e) /\ Room(e, s.available, s.committed)
  BY <1>1, <1>3, AmountClosed DEF fits_now, rejected, ExceedsClusterCapacity, Room
<1>5. ASSUME s.sa_budgets[Sa[t]] # Unlimited
      PROVE  /\ fits_within(Footprint[e], s.sa_budgets[Sa[t]])
             /\ Room(e, s.sa_budgets[Sa[t]], s.sa_usage[Sa[t]])
  <2>1. s.sa_budgets[Sa[t]] \in Amount /\ s.sa_usage[Sa[t]] \in Amount
    BY <1>1, <1>2, <1>5 DEF Budgets
  <2>2. /\ fits_within(Footprint[t], s.sa_budgets[Sa[t]])
        /\ fits_within(Footprint[t], saturating_sub(s.sa_budgets[Sa[t]], s.sa_usage[Sa[t]]))
    BY <1>5 DEF fits_now, rejected, ExceedsSaBudget, Room
  <2>3. QED
    BY <2>1, <2>2, <1>3, AmountClosed DEF Room
<1>6. QED
  BY <1>4, <1>5 DEF fits_now, rejected, ExceedsSaBudget

-----------------------------------------------------------------------------
(* The loop invariant of schedule_pass: s is the scheduler before the      *)
(* pass, r the one before the visit of arrival number i.                   *)

Frame(s, r) ==
  /\ SchedulerType(r)
  /\ r.available = s.available
  /\ r.sa_budgets = s.sa_budgets
  /\ r.next_seq = s.next_seq
  /\ DOMAIN r.queue \subseteq DOMAIN s.queue
  /\ \A k \in DOMAIN r.queue : r.queue[k] = s.queue[k]

NoneFitsBelow(r, i) == \A k \in DOMAIN r.queue : k < i => ~ fits_now(r, r.queue[k])

NotOverloaded(s, r) ==
  \A d \in Dims : r.committed[d] > s.committed[d] => r.committed[d] <= r.available[d]

\* A lease of the pass was queued at some j, behind no entry left queued
\* that could have taken its place.
InOrder(s, r, i) ==
  \A l \in DOMAIN r.leases \ DOMAIN s.leases :
    \E j \in DOMAIN s.queue :
      /\ j < i
      /\ s.queue[j] = r.leases[l]
      /\ \A k \in DOMAIN r.queue :
           k < j /\ Sa[s.queue[k]] = Sa[s.queue[j]]
             => ~ fits_within(Footprint[s.queue[k]], Footprint[s.queue[j]])

PassInv(s, r, i) ==
  /\ Frame(s, r)
  /\ Grown(s, r)
  /\ NoneFitsBelow(r, i)
  /\ NotOverloaded(s, r)
  /\ InOrder(s, r, i)

LEMMA AdmitGrows ==
  ASSUME NEW s, SchedulerType(s), NEW i \in DOMAIN s.queue
  PROVE  Grown(s, admit(s, i))
<1> DEFINE t == s.queue[i]
           r == admit(s, i)
<1>1. t \in Tests /\ Footprint[t] \in Amount /\ Sa[t] \in ServiceAccounts
  BY SchedulerAssumption DEF SchedulerType
<1>2. s.committed \in Amount /\ s.sa_usage \in [ServiceAccounts -> Amount]
  BY DEF SchedulerType, Records
<1>3. /\ r.committed = saturating_add(s.committed, Footprint[t])
      /\ r.sa_usage = charge(s.sa_usage, t)
  BY AdmitType
<1> HIDE DEF t, r
<1>4. fits_within(s.committed, r.committed)
  BY <1>1, <1>2, <1>3, AddGrows
<1>5. ASSUME NEW a \in ServiceAccounts
      PROVE  fits_within(s.sa_usage[a], r.sa_usage[a])
  <2>1. CASE a = Sa[t]
    BY <2>1, <1>1, <1>2, <1>3, AddGrows DEF charge
  <2>2. CASE a # Sa[t]
    <3>1. r.sa_usage[a] = s.sa_usage[a] /\ s.sa_usage[a] \in Amount
      BY <2>2, <1>2, <1>3 DEF charge
    <3>2. QED
      BY <3>1, ResourcesAssumption DEF fits_within, Amount
  <2>3. QED
    BY <2>1, <2>2
<1>6. QED
  BY <1>4, <1>5 DEF Grown, r

\* Admitting what fits keeps every dimension it uses within the ceiling.
LEMMA AdmitWithinCeiling ==
  ASSUME NEW s, SchedulerType(s), NEW i \in DOMAIN s.queue, fits_now(s, s.queue[i]),
         NEW d \in Dims, admit(s, i).committed[d] # s.committed[d]
  PROVE  admit(s, i).committed[d] <= s.available[d]
<1> DEFINE t == s.queue[i]
<1>1. Footprint[t] \in Amount
  BY SchedulerAssumption DEF SchedulerType
<1>2. s.committed \in Amount /\ s.available \in Amount
  BY DEF SchedulerType, Records
<1>3. /\ s.committed[d] \in 0 .. U64Max
      /\ s.available[d] \in 0 .. U64Max
      /\ Footprint[t][d] \in 0 .. U64Max
  BY <1>1, <1>2 DEF Amount
<1>4. Footprint[t][d] <= (IF s.available[d] <= s.committed[d]
                            THEN 0 ELSE s.available[d] - s.committed[d])
  BY DEF fits_now, Room, fits_within, saturating_sub
<1>5. admit(s, i).committed = saturating_add(s.committed, Footprint[t])
  BY AdmitType
<1>6. admit(s, i).committed[d] = IF s.committed[d] + Footprint[t][d] <= U64Max
                                   THEN s.committed[d] + Footprint[t][d] ELSE U64Max
  BY <1>3, <1>5, ResourcesAssumption DEF saturating_add
<1> HIDE DEF t
<1>7. QED
  BY <1>3, <1>4, <1>6, ResourcesAssumption

LEMMA GrownTransitive ==
  ASSUME NEW s, SchedulerType(s), NEW r, SchedulerType(r), NEW q, SchedulerType(q),
         Grown(s, r), Grown(r, q)
  PROVE  Grown(s, q)
<1>1. /\ s.committed \in Amount /\ r.committed \in Amount /\ q.committed \in Amount
      /\ s.sa_usage \in [ServiceAccounts -> Amount]
      /\ r.sa_usage \in [ServiceAccounts -> Amount]
      /\ q.sa_usage \in [ServiceAccounts -> Amount]
  BY DEF SchedulerType, Records
<1>2. fits_within(s.committed, q.committed)
  BY <1>1, FitsTransitive DEF Grown
<1>3. ASSUME NEW a \in ServiceAccounts
      PROVE  fits_within(s.sa_usage[a], q.sa_usage[a])
  <2>1. /\ s.sa_usage[a] \in Amount /\ r.sa_usage[a] \in Amount /\ q.sa_usage[a] \in Amount
        /\ fits_within(s.sa_usage[a], r.sa_usage[a])
        /\ fits_within(r.sa_usage[a], q.sa_usage[a])
    BY <1>1 DEF Grown
  <2>2. QED
    BY <2>1, FitsTransitive
<1>4. QED
  BY <1>2, <1>3 DEF Grown

LEMMA VisitPreserves ==
  ASSUME NEW s, SchedulerType(s), NEW i \in 0 .. s.next_seq - 1,
         NEW r, PassInv(s, r, i)
  PROVE  PassInv(s, visit(r, i), i + 1)
<1> DEFINE q == visit(r, i)
<1>0. SchedulerType(r) /\ i \in Int /\ DOMAIN r.queue \subseteq Int
  BY DEF PassInv, Frame, SchedulerType, Records
<1>1. CASE ~ (i \in DOMAIN r.queue /\ fits_now(r, r.queue[i]))
  <2>1. q = r
    BY <1>1 DEF visit
  <2>2. NoneFitsBelow(r, i + 1)
    BY <1>0, <1>1 DEF PassInv, NoneFitsBelow
  <2>3. InOrder(s, r, i + 1)
    <3> SUFFICES ASSUME NEW l \in DOMAIN r.leases \ DOMAIN s.leases
                 PROVE  \E j \in DOMAIN s.queue :
                          /\ j < i + 1
                          /\ s.queue[j] = r.leases[l]
                          /\ \A k \in DOMAIN r.queue :
                               k < j /\ Sa[s.queue[k]] = Sa[s.queue[j]]
                                 => ~ fits_within(Footprint[s.queue[k]], Footprint[s.queue[j]])
      BY DEF InOrder
    <3>1. PICK j \in DOMAIN s.queue :
            /\ j < i
            /\ s.queue[j] = r.leases[l]
            /\ \A k \in DOMAIN r.queue :
                 k < j /\ Sa[s.queue[k]] = Sa[s.queue[j]]
                   => ~ fits_within(Footprint[s.queue[k]], Footprint[s.queue[j]])
      BY DEF PassInv, InOrder
    <3>2. j < i + 1
      BY <3>1, <1>0 DEF SchedulerType, Records
    <3>3. QED
      BY <3>1, <3>2
  <2>4. QED
    BY <2>1, <2>2, <2>3 DEF PassInv
<1>2. CASE i \in DOMAIN r.queue /\ fits_now(r, r.queue[i])
  <2>1. q = admit(r, i)
    BY <1>2 DEF visit
  <2>2. /\ SchedulerType(q)
        /\ q.available = r.available
        /\ q.sa_budgets = r.sa_budgets
        /\ q.next_seq = r.next_seq
        /\ q.queue = Remove(r.queue, i)
        /\ q.leases = Insert(r.leases, r.next_slot_id, r.queue[i])
    BY <2>1, <1>0, <1>2, AdmitType
  <2>3. Grown(r, q)
    BY <2>1, <1>0, <1>2, AdmitGrows
  <2>4. \A d \in Dims : q.committed[d] # r.committed[d] => q.committed[d] <= r.available[d]
    BY <2>1, <1>0, <1>2, AdmitWithinCeiling
  <2> HIDE DEF q
  <2>5. /\ DOMAIN q.queue = DOMAIN r.queue \ {i}
        /\ \A k \in DOMAIN q.queue : q.queue[k] = r.queue[k]
    BY <2>2 DEF Remove
  <2>6. Frame(s, q)
    BY <2>2, <2>5 DEF PassInv, Frame
  <2>7. Grown(s, q)
    BY <1>0, <2>2, <2>3, GrownTransitive DEF PassInv
  <2>8. NoneFitsBelow(q, i + 1)
    <3> SUFFICES ASSUME NEW k \in DOMAIN q.queue, k < i + 1, fits_now(q, q.queue[k])
                 PROVE  FALSE
      BY DEF NoneFitsBelow
    <3>1. k \in DOMAIN r.queue /\ k < i /\ q.queue[k] = r.queue[k]
      BY <1>0, <2>5
    <3>2. r.queue[k] \in Tests
      BY <3>1, <1>0 DEF SchedulerType
    <3>3. fits_now(r, r.queue[k])
      BY <3>1, <3>2, <1>0, <2>2, <2>3, FitsMonotone
    <3>4. QED
      BY <3>1, <3>3 DEF PassInv, NoneFitsBelow
  <2>9. NotOverloaded(s, q)
    <3> SUFFICES ASSUME NEW d \in Dims, q.committed[d] > s.committed[d]
                 PROVE  q.committed[d] <= q.available[d]
      BY DEF NotOverloaded
    <3>1. CASE q.committed[d] # r.committed[d]
      BY <3>1, <2>2, <2>4
    <3>2. CASE q.committed[d] = r.committed[d]
      BY <3>2, <2>2 DEF PassInv, NotOverloaded
    <3>3. QED
      BY <3>1, <3>2
  <2>10. InOrder(s, q, i + 1)
    <3> SUFFICES ASSUME NEW l \in DOMAIN q.leases \ DOMAIN s.leases
                 PROVE  \E j \in DOMAIN s.queue :
                          /\ j < i + 1
                          /\ s.queue[j] = q.leases[l]
                          /\ \A k \in DOMAIN q.queue :
                               k < j /\ Sa[s.queue[k]] = Sa[s.queue[j]]
                                 => ~ fits_within(Footprint[s.queue[k]], Footprint[s.queue[j]])
      BY DEF InOrder
    <3>1. CASE l = r.next_slot_id
      <4>1. i \in DOMAIN s.queue /\ r.queue[i] = s.queue[i] /\ i < i + 1
        BY <1>0, <1>2 DEF PassInv, Frame
      <4>2. q.leases[l] = s.queue[i]
        BY <3>1, <2>2, <4>1 DEF Insert
      <4>3. ASSUME NEW k \in DOMAIN q.queue, k < i, Sa[s.queue[k]] = Sa[s.queue[i]],
                   fits_within(Footprint[s.queue[k]], Footprint[s.queue[i]])
            PROVE  FALSE
        <5>1. k \in DOMAIN r.queue /\ r.queue[k] = s.queue[k]
          BY <2>5 DEF PassInv, Frame
        <5>2. r.queue[k] \in Tests /\ r.queue[i] \in Tests
          BY <5>1, <1>0, <1>2 DEF SchedulerType
        <5>3. fits_now(r, r.queue[k])
          BY <4>1, <4>3, <5>1, <5>2, <1>0, <1>2, FitsSmaller
        <5>4. QED
          BY <4>3, <5>1, <5>3 DEF PassInv, NoneFitsBelow
      <4>4. QED
        BY <4>1, <4>2, <4>3
    <3>2. CASE l # r.next_slot_id
      <4>1. l \in DOMAIN r.leases /\ q.leases[l] = r.leases[l]
        BY <3>2, <2>2 DEF Insert
      <4>2. PICK j \in DOMAIN s.queue :
              /\ j < i
              /\ s.queue[j] = r.leases[l]
              /\ \A k \in DOMAIN r.queue :
                   k < j /\ Sa[s.queue[k]] = Sa[s.queue[j]]
                     => ~ fits_within(Footprint[s.queue[k]], Footprint[s.queue[j]])
        BY <4>1 DEF PassInv, InOrder
      <4>3. j < i + 1
        BY <4>2, <1>0 DEF SchedulerType, Records
      <4>4. QED
        BY <4>1, <4>2, <4>3, <2>5
    <3>3. QED
      BY <3>1, <3>2
  <2>11. QED
    BY <2>6, <2>7, <2>8, <2>9, <2>10 DEF PassInv, q
<1>3. QED
  BY <1>1, <1>2

LEMMA TraceStep ==
  ASSUME NEW f, NEW s, NEW n \in Nat, IsTrace(f, s, n)
  PROVE  /\ f[0] = s
         /\ \A i \in 0 .. n - 1 : f[i + 1] = visit(f[i], i)
BY DEF IsTrace

LEMMA PassInvStart ==
  ASSUME NEW s, SchedulerType(s)
  PROVE  PassInv(s, s, 0)
<1>1. Frame(s, s)
  BY DEF Frame
<1>2. Grown(s, s)
  <2>1. s.committed \in Amount /\ s.sa_usage \in [ServiceAccounts -> Amount]
    BY DEF SchedulerType, Records
  <2>2. \A a \in Amount : fits_within(a, a)
    BY ResourcesAssumption DEF fits_within, Amount
  <2>3. QED
    BY <2>1, <2>2 DEF Grown
<1>3. NoneFitsBelow(s, 0)
  BY DEF NoneFitsBelow, SchedulerType, Records
<1>4. NotOverloaded(s, s)
  <2>1. s.committed \in Amount
    BY DEF SchedulerType, Records
  <2>2. QED
    BY <2>1, ResourcesAssumption DEF NotOverloaded, Amount
<1>5. InOrder(s, s, 0)
  BY DEF InOrder
<1>6. QED
  BY <1>1, <1>2, <1>3, <1>4, <1>5 DEF PassInv

(* A pass establishes the loop invariant at the end of the queue. *)
LEMMA PassResult ==
  ASSUME LibraryFacts, NEW s, SchedulerType(s)
  PROVE  PassInv(s, schedule_pass(s), s.next_seq)
<1>1. s.next_seq \in Nat
  BY DEF SchedulerType, Records
<1>2. PICK f : IsTrace(f, s, s.next_seq) /\ schedule_pass(s) = f[s.next_seq]
  BY <1>1, PassTrace
<1> DEFINE A == {i \in 0 .. s.next_seq : PassInv(s, f[i], i)}
<1>3. f[0] = s /\ \A i \in 0 .. s.next_seq - 1 : f[i + 1] = visit(f[i], i)
  BY <1>1, <1>2, TraceStep
<1>4. 0 \in A
  BY <1>1, <1>3, PassInvStart
<1>5. ASSUME NEW i \in 0 .. s.next_seq - 1, i \in A PROVE i + 1 \in A
  <2>1. PassInv(s, f[i], i)
    BY <1>5
  <2>2. PassInv(s, f[i + 1], i + 1)
    BY <1>3, <2>1, VisitPreserves
  <2>3. QED
    BY <1>1, <2>2
<1>6. \A i \in 0 .. s.next_seq : i \in A
  <2> HIDE DEF A
  <2>1. QED
    BY <1>1, <1>4, <1>5, IntervalInduction
<1>7. QED
  BY <1>1, <1>2, <1>6

(* A pass skips a prefix of the queue in which nothing fits. *)
LEMMA PassSkips ==
  ASSUME LibraryFacts, NEW s, SchedulerType(s), NEW n \in Nat, s.next_seq = n + 1, NoneFitsBelow(s, n)
  PROVE  schedule_pass(s) = visit(s, n)
<1>1. PICK f : IsTrace(f, s, n + 1) /\ schedule_pass(s) = f[n + 1]
  BY PassTrace
<1>2. f[0] = s /\ \A i \in 0 .. n : f[i + 1] = visit(f[i], i)
  <2>1. n + 1 \in Nat /\ (n + 1) - 1 = n
    OBVIOUS
  <2>2. QED
    BY <1>1, <2>1, TraceStep
<1> DEFINE A == {i \in 0 .. n : f[i] = s}
<1>3. 0 \in A
  BY <1>2
<1>4. ASSUME NEW i \in 0 .. n - 1, i \in A PROVE i + 1 \in A
  <2>1. f[i + 1] = visit(s, i)
    BY <1>2, <1>4
  <2>2. visit(s, i) = s
    BY DEF visit, NoneFitsBelow
  <2>3. QED
    BY <2>1, <2>2
<1>5. \A i \in 0 .. n : i \in A
  <2> HIDE DEF A
  <2>1. QED
    BY <1>3, <1>4, IntervalInduction
<1>6. f[n] = s
  BY <1>5
<1>7. QED
  BY <1>1, <1>2, <1>6

-----------------------------------------------------------------------------
(* What each operation does before its pass. *)

LEMMA EnqueueType ==
  ASSUME NEW s, SchedulerType(s), NEW t \in Tests
  PROVE  LET r == enqueue(s, t)
         IN  /\ SchedulerType(r)
             /\ r.next_seq = s.next_seq + 1
             /\ r.queue = Insert(s.queue, s.next_seq, t)
             /\ r.available = s.available
             /\ r.sa_budgets = s.sa_budgets
             /\ r.committed = s.committed
             /\ r.sa_usage = s.sa_usage
             /\ r.leases = s.leases
             /\ r.next_slot_id = s.next_slot_id
<1> DEFINE queue == Insert(s.queue, s.next_seq, t)
           seq == s.next_seq + 1
           r == [s EXCEPT !.queue = queue, !.next_seq = seq]
<1>1. s \in Records({s.leases}, {s.queue}) /\ s.next_seq \in Nat /\ seq \in Nat
  BY DEF SchedulerType, Records
<1>2. enqueue(s, t) = r
  BY DEF enqueue
<1>3. queue \in [DOMAIN queue -> Tests] /\ DOMAIN queue \subseteq 0 .. seq - 1
  BY <1>1 DEF SchedulerType, Insert
<1> HIDE DEF queue, seq
<1>4. /\ r \in Records({s.leases}, {queue})
      /\ r.next_seq = seq
      /\ r.queue = queue
      /\ r.available = s.available
      /\ r.sa_budgets = s.sa_budgets
      /\ r.committed = s.committed
      /\ r.sa_usage = s.sa_usage
      /\ r.leases = s.leases
      /\ r.next_slot_id = s.next_slot_id
  BY <1>1, Zenon DEF Records
<1> HIDE DEF r
<1>5. SchedulerType(r)
  BY <1>3, <1>4 DEF SchedulerType
<1>6. QED
  BY <1>2, <1>4, <1>5 DEF queue, seq

LEMMA GiveBackType ==
  ASSUME NEW s, SchedulerType(s), NEW slot \in DOMAIN s.leases
  PROVE  LET r == give_back(s, slot)
         IN  /\ SchedulerType(r)
             /\ r.next_seq = s.next_seq
             /\ r.queue = s.queue
             /\ r.available = s.available
             /\ r.committed = saturating_sub(s.committed, Footprint[s.leases[slot]])
             /\ r.leases = Remove(s.leases, slot)
             /\ r.sa_usage = credit(s.sa_usage, s.leases[slot])
             /\ r.sa_budgets = s.sa_budgets
             /\ r.next_slot_id = s.next_slot_id
<1> DEFINE t == s.leases[slot]
           leases == Remove(s.leases, slot)
           committed == saturating_sub(s.committed, Footprint[t])
           usage == credit(s.sa_usage, t)
           r == [s EXCEPT !.leases = leases, !.committed = committed, !.sa_usage = usage]
<1>1. /\ s \in Records({s.leases}, {s.queue})
      /\ s.committed \in Amount
      /\ s.sa_usage \in [ServiceAccounts -> Amount]
  BY DEF SchedulerType, Records
<1>2. t \in Tests /\ Footprint[t] \in Amount
  BY SchedulerAssumption DEF SchedulerType
<1>3. committed \in Amount /\ usage \in [ServiceAccounts -> Amount]
  BY <1>1, <1>2, AmountClosed, ChargeType
<1>4. give_back(s, slot) = r
  BY DEF give_back
<1>5. leases \in [DOMAIN leases -> Tests] /\ DOMAIN leases \subseteq 0 .. s.next_slot_id - 1
  BY DEF SchedulerType, Remove
<1> HIDE DEF leases, committed, usage
<1>6. /\ r \in Records({leases}, {s.queue})
      /\ r.next_seq = s.next_seq
      /\ r.queue = s.queue
      /\ r.available = s.available
      /\ r.committed = committed
      /\ r.leases = leases
      /\ r.sa_usage = usage
      /\ r.sa_budgets = s.sa_budgets
      /\ r.next_slot_id = s.next_slot_id
  BY <1>1, <1>3, Zenon DEF Records
<1> HIDE DEF r
<1>7. SchedulerType(r)
  BY <1>5, <1>6 DEF SchedulerType
<1>8. QED
  BY <1>4, <1>6, <1>7 DEF leases, committed, usage, t

LEMMA CeilingType ==
  ASSUME NEW s, SchedulerType(s), NEW ceiling \in Amount
  PROVE  LET r == [s EXCEPT !.available = ceiling]
         IN  /\ SchedulerType(r)
             /\ r.next_seq = s.next_seq
             /\ r.queue = s.queue
             /\ r.committed = s.committed
             /\ r.leases = s.leases
             /\ r.available = ceiling
             /\ r.sa_usage = s.sa_usage
             /\ r.sa_budgets = s.sa_budgets
             /\ r.next_slot_id = s.next_slot_id
<1> DEFINE r == [s EXCEPT !.available = ceiling]
<1>1. /\ r \in Records({s.leases}, {s.queue})
      /\ r.next_seq = s.next_seq
      /\ r.queue = s.queue
      /\ r.committed = s.committed
      /\ r.leases = s.leases
      /\ r.available = ceiling
      /\ r.sa_usage = s.sa_usage
      /\ r.sa_budgets = s.sa_budgets
      /\ r.next_slot_id = s.next_slot_id
  BY DEF SchedulerType, Records
<1> HIDE DEF r
<1>2. SchedulerType(r)
  BY <1>1 DEF SchedulerType
<1>3. QED
  BY <1>1, <1>2 DEF r

LEMMA BudgetType ==
  ASSUME NEW s, SchedulerType(s), NEW a \in ServiceAccounts, NEW budget \in Budgets
  PROVE  LET r == set_sa_budget(s, a, budget)
         IN  /\ SchedulerType(r)
             /\ r.next_seq = s.next_seq
             /\ r.queue = s.queue
             /\ r.committed = s.committed
             /\ r.leases = s.leases
             /\ r.sa_usage = s.sa_usage
             /\ r.next_slot_id = s.next_slot_id
<1> DEFINE budgets == [b \in ServiceAccounts |-> IF b = a THEN budget ELSE s.sa_budgets[b]]
           r == [s EXCEPT !.sa_budgets = budgets]
<1>1. s \in Records({s.leases}, {s.queue}) /\ budgets \in [ServiceAccounts -> Budgets]
  BY DEF SchedulerType, Records
<1>2. set_sa_budget(s, a, budget) = r
  BY DEF set_sa_budget
<1> HIDE DEF budgets
<1>3. /\ r \in Records({s.leases}, {s.queue})
      /\ r.next_seq = s.next_seq
      /\ r.queue = s.queue
      /\ r.committed = s.committed
      /\ r.leases = s.leases
      /\ r.sa_usage = s.sa_usage
      /\ r.next_slot_id = s.next_slot_id
  BY <1>1 DEF Records
<1> HIDE DEF r
<1>4. SchedulerType(r)
  BY <1>3 DEF SchedulerType
<1>5. QED
  BY <1>2, <1>3, <1>4

(* The three kinds of step: one that only sets a budget, before any        *)
(* request; one that changes nothing; and one that prepares s, charging    *)
(* nothing and leasing nothing new, and runs a pass on it.                 *)
BudgetStep ==
  /\ sched.next_seq = 0
  /\ SchedulerType(sched')
  /\ sched'.next_seq = sched.next_seq
  /\ sched'.queue = sched.queue
  /\ sched'.committed = sched.committed
  /\ sched'.leases = sched.leases

Prepared(s) ==
  /\ SchedulerType(s)
  /\ fits_within(s.committed, sched.committed)
  /\ DOMAIN s.leases \subseteq DOMAIN sched.leases
  /\ \/ s.queue = sched.queue /\ s.next_seq = sched.next_seq
     \/ \E t \in Tests : s = enqueue(sched, t)

LEMMA StepKinds ==
  ASSUME TypeOK, [Next]_sched
  PROVE  \/ sched' = sched
         \/ BudgetStep
         \/ \E s : Prepared(s) /\ sched' = schedule_pass(s)
<1> USE DEF TypeOK
<1>0. /\ fits_within(sched.committed, sched.committed)
      /\ sched.committed \in Amount
  <2>1. sched.committed \in Amount
    BY DEF SchedulerType, Records
  <2>2. QED
    BY <2>1, ResourcesAssumption DEF fits_within, Amount
<1>1. ASSUME NEW a \in ServiceAccounts, NEW budget \in BudgetChoices, SetSaBudget(a, budget)
      PROVE  BudgetStep
  BY <1>1, BudgetType, DriverAssumption DEF SetSaBudget, BudgetStep
<1>2. ASSUME NEW t \in Tests, Request(t)
      PROVE  sched' = sched \/ \E s : Prepared(s) /\ sched' = schedule_pass(s)
  <2>1. CASE rejected(sched, t)
    BY <1>2, <2>1 DEF Request, request
  <2>2. CASE ~ rejected(sched, t)
    <3>1. Prepared(enqueue(sched, t))
      BY <1>0, EnqueueType DEF Prepared
    <3>2. QED
      BY <1>2, <2>2, <3>1 DEF Request, request
  <2>3. QED
    BY <2>1, <2>2
<1>3. ASSUME NEW slot, sched' = release(sched, slot)
      PROVE  sched' = sched \/ \E s : Prepared(s) /\ sched' = schedule_pass(s)
  <2>1. CASE slot \notin DOMAIN sched.leases
    BY <1>3, <2>1 DEF release
  <2>2. CASE slot \in DOMAIN sched.leases
    <3> DEFINE s == give_back(sched, slot)
    <3>1. /\ SchedulerType(s)
          /\ s.next_seq = sched.next_seq
          /\ s.queue = sched.queue
          /\ s.committed = saturating_sub(sched.committed, Footprint[sched.leases[slot]])
          /\ s.leases = Remove(sched.leases, slot)
      BY <2>2, GiveBackType
    <3>2. Footprint[sched.leases[slot]] \in Amount
      BY <2>2, SchedulerAssumption DEF SchedulerType
    <3>3. fits_within(s.committed, sched.committed)
      <4> HIDE DEF s
      <4> QED BY <1>0, <3>1, <3>2, ResourcesAssumption DEF fits_within, saturating_sub, Amount
    <3>4. DOMAIN s.leases \subseteq DOMAIN sched.leases
      BY <3>1 DEF Remove
    <3>5. Prepared(s)
      BY <3>1, <3>3, <3>4 DEF Prepared
    <3>6. QED
      BY <1>3, <2>2, <3>5 DEF release
  <2>3. QED
    BY <2>1, <2>2
<1>4. ASSUME NEW ceiling \in Ceilings, Reconcile(ceiling)
      PROVE  \E s : Prepared(s) /\ sched' = schedule_pass(s)
  <2> DEFINE s == [sched EXCEPT !.available = ceiling]
  <2>1. Prepared(s)
    BY <1>0, CeilingType, DriverAssumption DEF Prepared
  <2>2. QED
    BY <1>4, <2>1 DEF Reconcile, reconcile
<1>5. QED
  BY <1>1, <1>2, <1>3, <1>4 DEF Next, Release, Disconnect, disconnect

LEMMA InitType == Init => TypeOK
<1> SUFFICES ASSUME NEW ceiling \in Ceilings,
                    sched = new(ceiling, [a \in ServiceAccounts |-> Unlimited])
             PROVE  SchedulerType(sched)
  BY DEF Init, TypeOK
<1>1. ceiling \in Amount
  BY DriverAssumption
<1>2. sched \in Records({EmptyMap}, {EmptyMap}) /\ sched.leases = EmptyMap /\ sched.queue = EmptyMap
  BY <1>1, ZeroIsAmount DEF new, Records, Budgets
<1>3. DOMAIN EmptyMap = {} /\ EmptyMap \in [{} -> Tests]
  BY DEF EmptyMap
<1>4. QED
  BY <1>2, <1>3, Zenon DEF SchedulerType

-----------------------------------------------------------------------------
(* Every operation of the admission core keeps its fields well typed, and  *)
(* leaves behind no queued request that fits: one first-fit pass is enough *)
(* after a release, a disconnect, a reconcile or a request.                *)
InductiveInv == TypeOK /\ NoQueuedFits

LEMMA PassSettles ==
  ASSUME LibraryFacts, NEW s, SchedulerType(s)
  PROVE  LET r == schedule_pass(s)
         IN  SchedulerType(r) /\ \A i \in DOMAIN r.queue : ~ fits_now(r, r.queue[i])
<1> DEFINE r == schedule_pass(s)
<1>1. PassInv(s, r, s.next_seq)
  BY PassResult
<1> HIDE DEF r
<1>2. SchedulerType(r) /\ r.next_seq = s.next_seq /\ NoneFitsBelow(r, s.next_seq)
  BY <1>1 DEF PassInv, Frame
<1>3. \A i \in DOMAIN r.queue : i < s.next_seq
  BY <1>2 DEF SchedulerType, Records
<1>4. QED
  BY <1>2, <1>3 DEF NoneFitsBelow, r

LEMMA InvPreserved ==
  ASSUME LibraryFacts
  PROVE  InductiveInv /\ [Next]_sched => InductiveInv'
<1> SUFFICES ASSUME TypeOK, NoQueuedFits, [Next]_sched
             PROVE  TypeOK' /\ NoQueuedFits'
  BY DEF InductiveInv
<1>1. CASE sched' = sched
  BY <1>1 DEF TypeOK, NoQueuedFits
<1>2. CASE BudgetStep
  <2>1. DOMAIN sched'.queue = {}
    BY <1>2 DEF BudgetStep, TypeOK, SchedulerType
  <2>2. QED
    BY <1>2, <2>1 DEF BudgetStep, TypeOK, NoQueuedFits
<1>3. ASSUME NEW s, Prepared(s), sched' = schedule_pass(s)
      PROVE  TypeOK' /\ NoQueuedFits'
  BY <1>3, PassSettles DEF Prepared, TypeOK, NoQueuedFits
<1>4. QED
  BY <1>1, <1>2, <1>3, StepKinds

-----------------------------------------------------------------------------
(* The action properties, each from the invariant and the kinds of step. *)

LEMMA NoOverloadStep ==
  ASSUME LibraryFacts, TypeOK, [Next]_sched, NEW d \in Dims, sched'.committed[d] > sched.committed[d]
  PROVE  sched'.committed[d] <= sched'.available[d]
<1>1. sched.committed \in Amount /\ sched.committed[d] \in Int
  <2>1. sched.committed \in Amount
    BY DEF TypeOK, SchedulerType, Records
  <2>2. QED
    BY <2>1, ResourcesAssumption DEF Amount
<1>2. PICK s : Prepared(s) /\ sched' = schedule_pass(s)
  <2>1. ~ (sched' = sched \/ BudgetStep)
    BY <1>1 DEF BudgetStep
  <2>2. QED
    BY <2>1, StepKinds
<1>3. SchedulerType(s) /\ fits_within(s.committed, sched.committed)
  BY <1>2 DEF Prepared
<1>4. PassInv(s, sched', s.next_seq)
  BY <1>2, <1>3, PassResult
<1>5. SchedulerType(sched') /\ NotOverloaded(s, sched')
  BY <1>4 DEF PassInv, Frame
<1>6. s.committed[d] \in Int /\ sched'.committed[d] \in Int
  <2>1. s.committed \in Amount /\ sched'.committed \in Amount
    BY <1>3, <1>5 DEF SchedulerType, Records
  <2>2. QED
    BY <2>1, ResourcesAssumption DEF Amount
<1>7. s.committed[d] <= sched.committed[d]
  BY <1>3 DEF fits_within
<1>8. QED
  BY <1>1, <1>5, <1>6, <1>7 DEF NotOverloaded

LEMMA FreshStep ==
  ASSUME LibraryFacts, TypeOK, NoQueuedFits, Next, sched'.next_seq # sched.next_seq
  PROVE  /\ sched'.next_slot_id <= sched.next_slot_id + 1
         /\ \A i \in DOMAIN sched.queue : i \in DOMAIN sched'.queue
<1>1. PICK s : Prepared(s) /\ sched' = schedule_pass(s)
  <2>1. ~ (sched' = sched \/ BudgetStep)
    BY DEF BudgetStep
  <2>2. QED
    BY <2>1, StepKinds
<1>2. SchedulerType(s) /\ sched'.next_seq = s.next_seq
  BY <1>1, PassResult DEF Prepared, PassInv, Frame
<1>3. PICK t \in Tests : s = enqueue(sched, t)
  BY <1>1, <1>2 DEF Prepared
<1> DEFINE n == sched.next_seq
<1>4. /\ n \in Nat
      /\ sched.next_slot_id \in Nat
      /\ DOMAIN sched.queue \subseteq 0 .. n - 1
      /\ sched.queue \in [DOMAIN sched.queue -> Tests]
  BY DEF TypeOK, SchedulerType, Records
<1>5. /\ s.next_seq = n + 1
      /\ s.queue = Insert(sched.queue, n, t)
      /\ s.available = sched.available
      /\ s.sa_budgets = sched.sa_budgets
      /\ s.committed = sched.committed
      /\ s.sa_usage = sched.sa_usage
      /\ s.next_slot_id = sched.next_slot_id
  BY <1>3, EnqueueType DEF TypeOK
<1>6. \A u \in Tests : fits_now(s, u) <=> fits_now(sched, u)
  BY <1>5 DEF fits_now, rejected, ExceedsClusterCapacity, ExceedsSaBudget
<1>7. NoneFitsBelow(s, n)
  <2> SUFFICES ASSUME NEW k \in DOMAIN s.queue, k < n PROVE ~ fits_now(s, s.queue[k])
    BY DEF NoneFitsBelow
  <2>1. k \in DOMAIN sched.queue /\ s.queue[k] = sched.queue[k]
    BY <1>4, <1>5, SMTT(30) DEF Insert
  <2>2. QED
    BY <2>1, <1>4, <1>6 DEF NoQueuedFits
<1>8. sched' = visit(s, n)
  BY <1>1, <1>2, <1>4, <1>5, <1>7, PassSkips
<1>9. CASE sched' = s
  BY <1>9, <1>4, <1>5 DEF Insert
<1>10. CASE n \in DOMAIN s.queue /\ sched' = admit(s, n)
  <2>1. sched'.queue = Remove(s.queue, n) /\ sched'.next_slot_id = s.next_slot_id + 1
    BY <1>2, <1>10, AdmitType
  <2>2. QED
    BY <2>1, <1>4, <1>5 DEF Insert, Remove
<1>11. QED
  BY <1>8, <1>9, <1>10 DEF visit

LEMMA OrderStep ==
  ASSUME LibraryFacts, TypeOK, [Next]_sched,
         NEW slot \in Grants(sched, sched'),
         NEW i \in DOMAIN sched.queue \cap DOMAIN sched'.queue,
         \A j \in DOMAIN sched.queue : sched.queue[j] = sched'.leases[slot] => i < j,
         Sa[sched.queue[i]] = Sa[sched'.leases[slot]]
  PROVE  ~ fits_within(Footprint[sched.queue[i]], Footprint[sched'.leases[slot]])
<1>1. PICK s : Prepared(s) /\ sched' = schedule_pass(s)
  <2>1. ~ (sched' = sched \/ BudgetStep)
    BY DEF BudgetStep, Grants
  <2>2. QED
    BY <2>1, StepKinds
<1>2. PassInv(s, sched', s.next_seq)
  BY <1>1, PassResult DEF Prepared
<1>3. slot \in DOMAIN sched'.leases \ DOMAIN s.leases
  BY <1>1 DEF Prepared, Grants
<1>4. PICK j \in DOMAIN s.queue :
        /\ s.queue[j] = sched'.leases[slot]
        /\ \A k \in DOMAIN sched'.queue :
             k < j /\ Sa[s.queue[k]] = Sa[s.queue[j]]
               => ~ fits_within(Footprint[s.queue[k]], Footprint[s.queue[j]])
  BY <1>2, <1>3 DEF PassInv, InOrder
<1>5. s.queue[i] = sched.queue[i] /\ i < j
  <2>1. CASE s.queue = sched.queue
    BY <2>1, <1>4
  <2>2. ASSUME NEW t \in Tests, s = enqueue(sched, t)
        PROVE  s.queue[i] = sched.queue[i] /\ i < j
    <3>1. s.queue = Insert(sched.queue, sched.next_seq, t)
      BY <2>2, EnqueueType DEF TypeOK
    <3>2. i < sched.next_seq /\ i # sched.next_seq
      BY DEF TypeOK, SchedulerType, Records
    <3>3. CASE j = sched.next_seq
      BY <3>1, <3>2, <3>3 DEF Insert
    <3>4. CASE j # sched.next_seq
      <4>1. j \in DOMAIN sched.queue /\ s.queue[j] = sched.queue[j]
        BY <3>1, <3>4 DEF Insert
      <4>2. QED
        BY <4>1, <1>4, <3>1, <3>2 DEF Insert
    <3>5. QED
      BY <3>3, <3>4
  <2>3. QED
    BY <1>1, <2>1, <2>2 DEF Prepared
<1>6. QED
  BY <1>4, <1>5

-----------------------------------------------------------------------------
(* Sums. *)

IsSum(f, w, n) == f = [i \in 0 .. n |-> IF i = 0 THEN 0 ELSE f[i - 1] + w[i - 1]]

LEMMA SumExists ==
  ASSUME LibraryFacts, NEW w, NEW n \in Nat
  PROVE  \E f : IsSum(f, w, n)
<1> DEFINE A == {m \in Nat : \E f : IsSum(f, w, m)}
<1>1. 0 \in A
  <2> DEFINE f == [i \in 0 .. 0 |-> 0]
  <2>1. IsSum(f, w, 0)
    BY DEF IsSum
  <2>2. QED
    BY <2>1
<1>2. ASSUME NEW m \in 0 .. n - 1, m \in A
      PROVE  m + 1 \in A
  <2>1. PICK f : IsSum(f, w, m)
    BY <1>2
  <2> DEFINE g == [i \in 0 .. m + 1 |-> IF i = m + 1 THEN f[m] + w[m] ELSE f[i]]
  <2>2. IsSum(g, w, m + 1)
    <3>1. \A i \in 0 .. m : f[i] = IF i = 0 THEN 0 ELSE f[i - 1] + w[i - 1]
      BY <2>1 DEF IsSum
    <3>2. \A i \in 0 .. m + 1 : g[i] = IF i = 0 THEN 0 ELSE g[i - 1] + w[i - 1]
      BY <3>1
    <3>3. QED
      BY <3>2 DEF IsSum
  <2>3. QED
    BY <2>2
<1>3. \A i \in 0 .. n : i \in A
  <2> HIDE DEF A
  <2>1. QED
    BY <1>1, <1>2, IntervalInduction
<1>4. QED
  BY <1>3

(* The partial sums, which are naturals when the summands are. *)
LEMMA PartialSums ==
  ASSUME LibraryFacts, NEW n \in Nat, NEW w \in [0 .. n - 1 -> Nat]
  PROVE  \E f \in [0 .. n -> Nat] : /\ f[0] = 0
                                    /\ \A i \in 0 .. n - 1 : f[i + 1] = f[i] + w[i]
                                    /\ Sum(w, n) = f[n]
<1> DEFINE f == CHOOSE f : IsSum(f, w, n)
<1>1. IsSum(f, w, n)
  BY SumExists
<1>2. Sum(w, n) = f[n]
  BY DEF Sum, IsSum
<1> HIDE DEF f
<1>3. f = [i \in 0 .. n |-> IF i = 0 THEN 0 ELSE f[i - 1] + w[i - 1]]
  BY <1>1 DEF IsSum
<1>4. f[0] = 0 /\ \A i \in 0 .. n - 1 : f[i + 1] = f[i] + w[i]
  BY <1>3
<1> DEFINE A == {i \in 0 .. n : f[i] \in Nat}
<1>5. 0 \in A
  BY <1>4
<1>6. ASSUME NEW i \in 0 .. n - 1, i \in A PROVE i + 1 \in A
  BY <1>4, <1>6
<1>7. \A i \in 0 .. n : i \in A
  <2> HIDE DEF A
  <2> QED BY <1>5, <1>6, IntervalInduction, Zenon
<1>8. f \in [0 .. n -> Nat]
  BY <1>3, <1>7
<1> QED
  BY <1>2, <1>4, <1>8, Zenon

LEMMA AddMonotone ==
  ASSUME NEW a \in Nat, NEW b \in Nat, NEW x \in Nat, NEW y \in Nat, a <= b, x <= y
  PROVE  a + x <= b + y
OBVIOUS

LEMMA AddSwap ==
  ASSUME NEW a \in Nat, NEW b \in Nat, NEW x \in Nat, NEW y \in Nat, a = b + x
  PROVE  a + y = (b + y) + x
OBVIOUS

(* One summand more. *)
LEMMA SumAppend ==
  ASSUME LibraryFacts, NEW n \in Nat, NEW w \in [0 .. n - 1 -> Nat], NEW v \in [0 .. n -> Nat],
         \A i \in 0 .. n - 1 : v[i] = w[i]
  PROVE  Sum(v, n + 1) = Sum(w, n) + v[n]
<1>1. PICK f \in [0 .. n -> Nat] : /\ f[0] = 0
                                   /\ \A i \in 0 .. n - 1 : f[i + 1] = f[i] + w[i]
                                   /\ Sum(w, n) = f[n]
  BY PartialSums, Zenon
<1> DEFINE m == n + 1
<1>2. m \in Nat /\ m - 1 = n
  OBVIOUS
<1>3. PICK g \in [0 .. m -> Nat] : /\ g[0] = 0
                                   /\ \A i \in 0 .. n : g[i + 1] = g[i] + v[i]
                                   /\ Sum(v, m) = g[m]
  <2> HIDE DEF m
  <2>1. v \in [0 .. m - 1 -> Nat]
    BY <1>2, Zenon
  <2>2. PICK g \in [0 .. m -> Nat] : /\ g[0] = 0
                                     /\ \A i \in 0 .. m - 1 : g[i + 1] = g[i] + v[i]
                                     /\ Sum(v, m) = g[m]
    BY <1>2, <2>1, PartialSums, Zenon
  <2> QED
    BY <1>2, <2>2, Zenon
<1> DEFINE A == {i \in 0 .. n : g[i] = f[i]}
<1>4. 0 \in A
  BY <1>1, <1>3
<1>5. ASSUME NEW i \in 0 .. n - 1, i \in A PROVE i + 1 \in A
  BY <1>1, <1>3, <1>5
<1>6. \A i \in 0 .. n : i \in A
  <2> HIDE DEF A
  <2> QED BY <1>4, <1>5, IntervalInduction, Zenon
<1> QED
  BY <1>1, <1>3, <1>6

(* One summand cleared. *)
LEMMA SumClear ==
  ASSUME LibraryFacts, NEW n \in Nat, NEW w \in [0 .. n - 1 -> Nat], NEW v \in [0 .. n - 1 -> Nat],
         NEW k \in 0 .. n - 1, v[k] = 0, \A i \in 0 .. n - 1 : i # k => v[i] = w[i]
  PROVE  Sum(w, n) = Sum(v, n) + w[k]
<1>1. PICK f \in [0 .. n -> Nat] : /\ f[0] = 0
                                   /\ \A i \in 0 .. n - 1 : f[i + 1] = f[i] + w[i]
                                   /\ Sum(w, n) = f[n]
  BY PartialSums, Zenon
<1>2. PICK g \in [0 .. n -> Nat] : /\ g[0] = 0
                                   /\ \A i \in 0 .. n - 1 : g[i + 1] = g[i] + v[i]
                                   /\ Sum(v, n) = g[n]
  BY PartialSums, Zenon
<1> DEFINE A == {i \in 0 .. n : f[i] = g[i] + (IF k < i THEN w[k] ELSE 0)}
<1>3. 0 \in A
  <2>1. f[0] = 0 /\ g[0] = 0
    BY <1>1, <1>2, Zenon
  <2>2. 0 \in 0 .. n /\ ~ (k < 0) /\ 0 = 0 + 0
    OBVIOUS
  <2> QED
    BY <2>1, <2>2, Zenon
<1>4. ASSUME NEW i \in 0 .. n - 1, i \in A PROVE i + 1 \in A
  <2>1. f[i + 1] = f[i] + w[i] /\ g[i + 1] = g[i] + v[i]
    BY <1>1, <1>2, Zenon
  <2>2. f[i] \in Nat /\ g[i] \in Nat /\ w[i] \in Nat /\ v[i] \in Nat /\ w[k] \in Nat
    OBVIOUS
  <2>3. f[i] = g[i] + (IF k < i THEN w[k] ELSE 0)
    BY <1>4
  <2>4. CASE i = k
    <3>1. f[i] = g[i] /\ v[i] = 0
      BY <2>2, <2>3, <2>4
    <3> QED
      BY <2>1, <2>2, <2>4, <3>1
  <2>5. CASE i < k
    <3>1. f[i] = g[i] /\ v[i] = w[i] /\ ~ (k < i + 1)
      BY <2>2, <2>3, <2>5
    <3> QED
      BY <2>1, <3>1
  <2>6. CASE k < i
    <3>1. f[i] = g[i] + w[k] /\ v[i] = w[i] /\ k < i + 1
      BY <2>2, <2>3, <2>6
    <3>2. f[i + 1] = g[i + 1] + w[k]
      <4>1. f[i] + w[i] = (g[i] + w[i]) + w[k]
        <5> DEFINE a == f[i]
                   b == g[i]
                   x == w[k]
                   y == w[i]
        <5>1. a \in Nat /\ b \in Nat /\ x \in Nat /\ y \in Nat /\ a = b + x
          BY <2>2, <3>1
        <5> HIDE DEF a, b, x, y
        <5>2. a + y = (b + y) + x
          BY <5>1, AddSwap
        <5> QED
          BY <5>2 DEF a, b, x, y
      <4> QED
        BY <2>1, <3>1, <4>1, Zenon
    <3> QED
      BY <3>1, <3>2
  <2> QED
    BY <2>4, <2>5, <2>6
<1>5. \A i \in 0 .. n : i \in A
  <2> HIDE DEF A
  <2> QED BY <1>3, <1>4, IntervalInduction, Zenon
<1>6. f[n] = g[n] + w[k]
  BY <1>5
<1> QED
  BY <1>1, <1>2, <1>6

(* A sum of smaller summands. *)
LEMMA SumSmaller ==
  ASSUME LibraryFacts, NEW n \in Nat, NEW w \in [0 .. n - 1 -> Nat], NEW v \in [0 .. n - 1 -> Nat],
         \A i \in 0 .. n - 1 : v[i] <= w[i]
  PROVE  Sum(v, n) <= Sum(w, n)
<1>1. PICK f \in [0 .. n -> Nat] : /\ f[0] = 0
                                   /\ \A i \in 0 .. n - 1 : f[i + 1] = f[i] + w[i]
                                   /\ Sum(w, n) = f[n]
  BY PartialSums, Zenon
<1>2. PICK g \in [0 .. n -> Nat] : /\ g[0] = 0
                                   /\ \A i \in 0 .. n - 1 : g[i + 1] = g[i] + v[i]
                                   /\ Sum(v, n) = g[n]
  BY PartialSums, Zenon
<1> DEFINE A == {i \in 0 .. n : g[i] <= f[i]}
<1>3. 0 \in A
  BY <1>1, <1>2
<1>4. ASSUME NEW i \in 0 .. n - 1, i \in A PROVE i + 1 \in A
  <2>1. f[i + 1] = f[i] + w[i] /\ g[i + 1] = g[i] + v[i] /\ v[i] <= w[i]
    BY <1>1, <1>2
  <2>2. f[i] \in Nat /\ g[i] \in Nat /\ w[i] \in Nat /\ v[i] \in Nat /\ g[i] <= f[i]
    BY <1>4
  <2>3. g[i] + v[i] <= f[i] + w[i]
    BY <2>1, <2>2, AddMonotone, Zenon
  <2> QED
    BY <2>1, <2>3
<1>5. \A i \in 0 .. n : i \in A
  <2> HIDE DEF A
  <2> QED BY <1>3, <1>4, IntervalInduction, Zenon
<1> QED
  BY <1>1, <1>2, <1>5

-----------------------------------------------------------------------------
(* The books. *)

Weight(s, who, d) ==
  [l \in 0 .. s.next_slot_id - 1 |->
     IF l \in DOMAIN s.leases /\ Sa[s.leases[l]] \in who THEN Footprint[s.leases[l]][d] ELSE 0]

Books(s) ==
  \A d \in Dims :
    /\ s.committed[d] = Charged(s, ServiceAccounts, d)
    /\ \A a \in ServiceAccounts : s.sa_usage[a][d] = Charged(s, {a}, d)

LEMMA WeightType ==
  ASSUME LibraryFacts, NEW s, SchedulerType(s), NEW who, NEW d \in Dims
  PROVE  /\ s.next_slot_id \in Nat
         /\ Weight(s, who, d) \in [0 .. s.next_slot_id - 1 -> Nat]
         /\ Charged(s, who, d) = Sum(Weight(s, who, d), s.next_slot_id)
         /\ Charged(s, who, d) \in Nat
<1>1. s.next_slot_id \in Nat
  BY DEF SchedulerType, Records
<1>2. \A l \in DOMAIN s.leases : Footprint[s.leases[l]][d] \in Nat
  BY SchedulerAssumption, ResourcesAssumption DEF SchedulerType, Amount
<1>3. Weight(s, who, d) \in [0 .. s.next_slot_id - 1 -> Nat]
  BY <1>2 DEF Weight
<1>4. Charged(s, who, d) = Sum(Weight(s, who, d), s.next_slot_id)
  BY DEF Charged, Weight
<1>5. Sum(Weight(s, who, d), s.next_slot_id) \in Nat
  <2> DEFINE w == Weight(s, who, d)
             n == s.next_slot_id
  <2>1. n \in Nat /\ w \in [0 .. n - 1 -> Nat]
    BY <1>1, <1>3
  <2> HIDE DEF w, n
  <2>2. PICK f \in [0 .. n -> Nat] : Sum(w, n) = f[n]
    BY <2>1, PartialSums, Zenon
  <2>3. Sum(w, n) \in Nat
    BY <2>1, <2>2
  <2> QED
    BY <2>3 DEF w, n
<1> QED
  BY <1>1, <1>3, <1>4, <1>5

LEMMA ChargedAdmit ==
  ASSUME LibraryFacts, NEW s, SchedulerType(s), NEW i \in DOMAIN s.queue, NEW who, NEW d \in Dims
  PROVE  /\ Sa[s.queue[i]] \in who
               => Charged(admit(s, i), who, d) = Charged(s, who, d) + Footprint[s.queue[i]][d]
         /\ Sa[s.queue[i]] \notin who => Charged(admit(s, i), who, d) = Charged(s, who, d)
<1> DEFINE r == admit(s, i)
           t == s.queue[i]
           n == s.next_slot_id
           w == Weight(s, who, d)
           v == Weight(r, who, d)
<1>1. /\ SchedulerType(r) /\ r.next_slot_id = n + 1
      /\ r.leases = Insert(s.leases, n, t)
  BY AdmitType
<1>2. /\ n \in Nat /\ w \in [0 .. n - 1 -> Nat] /\ Charged(s, who, d) = Sum(w, n)
  BY WeightType
<1>3. v \in [0 .. n -> Nat] /\ Charged(r, who, d) = Sum(v, n + 1)
  <2>1. v \in [0 .. (n + 1) - 1 -> Nat] /\ Charged(r, who, d) = Sum(v, n + 1)
    <3> HIDE DEF r, n
    <3> QED BY <1>1, WeightType
  <2>2. (n + 1) - 1 = n
    BY <1>2
  <2> QED
    BY <2>1, <2>2, Zenon
<1>4. n \notin DOMAIN s.leases /\ DOMAIN s.leases \subseteq 0 .. n - 1
  BY <1>2 DEF SchedulerType
<1>5. /\ n \in DOMAIN r.leases /\ r.leases[n] = t
      /\ \A l \in 0 .. n - 1 : /\ l \in DOMAIN r.leases <=> l \in DOMAIN s.leases
                               /\ l \in DOMAIN s.leases => r.leases[l] = s.leases[l]
  <2>1. \A l \in 0 .. n - 1 : l # n
    BY <1>2
  <2> HIDE DEF r, t, n
  <2> QED
    BY <1>1, <1>4, <2>1, Zenon DEF Insert
<1>6. v[n] = IF Sa[t] \in who THEN Footprint[t][d] ELSE 0
  <2> HIDE DEF r, t, n
  <2>1. n \in 0 .. r.next_slot_id - 1
    BY <1>1, <1>2
  <2>2. v[n] = IF n \in DOMAIN r.leases /\ Sa[r.leases[n]] \in who THEN Footprint[r.leases[n]][d] ELSE 0
    BY <2>1, Zenon DEF Weight
  <2> QED
    BY <2>2, <1>5, Zenon
<1>7. \A l \in 0 .. n - 1 : v[l] = w[l]
  <2> SUFFICES ASSUME NEW l \in 0 .. n - 1 PROVE v[l] = w[l]
    OBVIOUS
  <2>1. l \in 0 .. r.next_slot_id - 1
    <3> HIDE DEF r, n
    <3> QED BY <1>1, <1>2
  <2>2. v[l] = IF l \in DOMAIN r.leases /\ Sa[r.leases[l]] \in who THEN Footprint[r.leases[l]][d] ELSE 0
    <3> HIDE DEF r
    <3> QED BY <2>1, Zenon DEF Weight
  <2>3. w[l] = IF l \in DOMAIN s.leases /\ Sa[s.leases[l]] \in who THEN Footprint[s.leases[l]][d] ELSE 0
    BY Zenon DEF Weight
  <2>4. /\ l \in DOMAIN r.leases <=> l \in DOMAIN s.leases
        /\ l \in DOMAIN s.leases => r.leases[l] = s.leases[l]
    BY <1>5, Zenon
  <2> HIDE DEF r, w, v, n
  <2>5. CASE l \in DOMAIN s.leases
    BY <2>2, <2>3, <2>4, <2>5, Zenon
  <2>6. CASE l \notin DOMAIN s.leases
    BY <2>2, <2>3, <2>4, <2>6, Zenon
  <2> QED
    BY <2>5, <2>6, Zenon
<1> HIDE DEF r, t, n, w, v
<1>8. Sum(v, n + 1) = Sum(w, n) + v[n]
  BY <1>2, <1>3, <1>7, SumAppend, Zenon
<1>9. Sum(w, n) \in Nat
  BY <1>2, WeightType, Zenon DEF w, n
<1>10. CASE Sa[t] \in who
  BY <1>2, <1>3, <1>6, <1>8, <1>10, Zenon DEF r, t
<1>11. CASE Sa[t] \notin who
  <2>1. v[n] = 0 /\ Sum(v, n + 1) = Sum(w, n)
    BY <1>6, <1>8, <1>9, <1>11
  <2> QED
    BY <1>2, <1>3, <1>11, <2>1, Zenon DEF r, t
<1> QED
  BY <1>10, <1>11, Zenon

LEMMA ChargedGiveBack ==
  ASSUME LibraryFacts, NEW s, SchedulerType(s), NEW slot \in DOMAIN s.leases, NEW who, NEW d \in Dims
  PROVE  /\ Sa[s.leases[slot]] \in who
               => Charged(s, who, d)
                    = Charged(give_back(s, slot), who, d) + Footprint[s.leases[slot]][d]
         /\ Sa[s.leases[slot]] \notin who
               => Charged(s, who, d) = Charged(give_back(s, slot), who, d)
<1> DEFINE r == give_back(s, slot)
           n == s.next_slot_id
           w == Weight(s, who, d)
           v == Weight(r, who, d)
<1>1. SchedulerType(r) /\ r.next_slot_id = n /\ r.leases = Remove(s.leases, slot)
  BY GiveBackType
<1>2. /\ n \in Nat /\ w \in [0 .. n - 1 -> Nat] /\ Charged(s, who, d) = Sum(w, n)
  BY WeightType
<1>3. v \in [0 .. n - 1 -> Nat] /\ Charged(r, who, d) = Sum(v, n)
  <2> HIDE DEF r, n
  <2> QED BY <1>1, WeightType
<1>4. slot \in 0 .. n - 1
  BY DEF SchedulerType
<1>5. DOMAIN r.leases = DOMAIN s.leases \ {slot} /\ \A l \in DOMAIN r.leases : r.leases[l] = s.leases[l]
  <2> HIDE DEF r
  <2> QED BY <1>1, Zenon DEF Remove
<1>6. \A l \in 0 .. n - 1 :
         /\ v[l] = IF l \in DOMAIN r.leases /\ Sa[r.leases[l]] \in who
                   THEN Footprint[r.leases[l]][d] ELSE 0
         /\ w[l] = IF l \in DOMAIN s.leases /\ Sa[s.leases[l]] \in who
                   THEN Footprint[s.leases[l]][d] ELSE 0
  <2> HIDE DEF r, n
  <2>1. \A l \in 0 .. n - 1 : l \in 0 .. r.next_slot_id - 1 /\ l \in 0 .. s.next_slot_id - 1
    BY <1>1, Zenon DEF n
  <2> QED
    BY <2>1, Zenon DEF Weight
<1> HIDE DEF r, n, w, v
<1>7. v[slot] = 0 /\ w[slot] = IF Sa[s.leases[slot]] \in who THEN Footprint[s.leases[slot]][d] ELSE 0
  BY <1>4, <1>5, <1>6, Zenon
<1>8. ASSUME NEW l \in 0 .. n - 1, l # slot PROVE v[l] = w[l]
  <2>1. CASE l \in DOMAIN s.leases
    BY <1>5, <1>6, <1>8, <2>1, Zenon
  <2>2. CASE l \notin DOMAIN s.leases
    BY <1>5, <1>6, <1>8, <2>2, Zenon
  <2> QED
    BY <2>1, <2>2, Zenon
<1>9. Sum(w, n) = Sum(v, n) + w[slot]
  <2>1. \A l \in 0 .. n - 1 : l # slot => v[l] = w[l]
    BY <1>8
  <2>2. v[slot] = 0
    BY <1>7
  <2>3. n \in Nat /\ w \in [0 .. n - 1 -> Nat] /\ v \in [0 .. n - 1 -> Nat]
    BY <1>2, <1>3
  <2>4. \A k \in 0 .. n - 1 :
          v[k] = 0 /\ (\A l \in 0 .. n - 1 : l # k => v[l] = w[l]) => Sum(w, n) = Sum(v, n) + w[k]
    BY <2>3, SumClear, Zenon
  <2> QED
    BY <1>4, <2>1, <2>2, <2>4, Zenon
<1>10. Sum(v, n) \in Nat
  BY <1>1, <1>3, WeightType, Zenon DEF v
<1>11. CASE Sa[s.leases[slot]] \in who
  BY <1>2, <1>3, <1>7, <1>9, <1>11, Zenon DEF r
<1>12. CASE Sa[s.leases[slot]] \notin who
  <2>1. w[slot] = 0 /\ Sum(w, n) = Sum(v, n)
    BY <1>7, <1>9, <1>10, <1>12
  <2> QED
    BY <1>2, <1>3, <1>12, <2>1, Zenon DEF r
<1> QED
  BY <1>11, <1>12, Zenon

(* No account holds more than the whole pool. *)
LEMMA ChargedPart ==
  ASSUME LibraryFacts, NEW s, SchedulerType(s), NEW a \in ServiceAccounts, NEW d \in Dims
  PROVE  Charged(s, {a}, d) <= Charged(s, ServiceAccounts, d)
<1> DEFINE n == s.next_slot_id
           w == Weight(s, ServiceAccounts, d)
           v == Weight(s, {a}, d)
<1>1. /\ n \in Nat /\ w \in [0 .. n - 1 -> Nat] /\ v \in [0 .. n - 1 -> Nat]
      /\ Charged(s, ServiceAccounts, d) = Sum(w, n) /\ Charged(s, {a}, d) = Sum(v, n)
  BY WeightType
<1>2. \A l \in 0 .. n - 1 : v[l] = 0 \/ v[l] = w[l]
  BY Zenon DEF Weight
<1> HIDE DEF n, w, v
<1>3. \A l \in 0 .. n - 1 : v[l] <= w[l]
  BY <1>1, <1>2
<1> QED
  BY <1>1, <1>3, SumSmaller, Zenon

LEMMA AdmitBooks ==
  ASSUME LibraryFacts, NEW s, SchedulerType(s), Books(s), NEW i \in DOMAIN s.queue, fits_now(s, s.queue[i])
  PROVE  Books(admit(s, i))
<1> DEFINE r == admit(s, i)
           t == s.queue[i]
<1>1. /\ r.committed = saturating_add(s.committed, Footprint[t])
      /\ r.sa_usage = charge(s.sa_usage, t)
  BY AdmitType
<1>2. t \in Tests /\ Footprint[t] \in Amount /\ Sa[t] \in ServiceAccounts
  BY SchedulerAssumption DEF SchedulerType
<1>3. s.committed \in Amount /\ s.available \in Amount /\ s.sa_usage \in [ServiceAccounts -> Amount]
  BY DEF SchedulerType, Records
<1>4. fits_within(Footprint[t], saturating_sub(s.available, s.committed))
  BY DEF fits_now, Room
<1>5. \A who : \A d \in Dims :
         /\ Sa[t] \in who => Charged(r, who, d) = Charged(s, who, d) + Footprint[t][d]
         /\ Sa[t] \notin who => Charged(r, who, d) = Charged(s, who, d)
  BY ChargedAdmit, Zenon
<1> HIDE DEF r, t
<1> SUFFICES ASSUME NEW d \in Dims
             PROVE  /\ r.committed[d] = Charged(r, ServiceAccounts, d)
                    /\ \A a \in ServiceAccounts : r.sa_usage[a][d] = Charged(r, {a}, d)
  BY Zenon DEF Books, r
<1>6. s.committed[d] \in 0 .. U64Max /\ s.available[d] \in 0 .. U64Max /\ Footprint[t][d] \in 0 .. U64Max
  BY <1>2, <1>3, Zenon DEF Amount
<1>7. Footprint[t][d] <= (IF s.available[d] <= s.committed[d] THEN 0 ELSE s.available[d] - s.committed[d])
  BY <1>4 DEF fits_within, saturating_sub
<1>8. s.committed[d] + Footprint[t][d] <= U64Max
  BY <1>6, <1>7, ResourcesAssumption
<1>9. r.committed[d] = s.committed[d] + Footprint[t][d]
  BY <1>1, <1>8 DEF saturating_add
<1>10. s.committed[d] = Charged(s, ServiceAccounts, d)
  BY Zenon DEF Books
<1>11. r.committed[d] = Charged(r, ServiceAccounts, d)
  BY <1>2, <1>5, <1>9, <1>10, Zenon
<1>12. ASSUME NEW a \in ServiceAccounts PROVE r.sa_usage[a][d] = Charged(r, {a}, d)
  <2>1. s.sa_usage[a][d] = Charged(s, {a}, d)
    BY Zenon DEF Books
  <2>2. s.sa_usage[a][d] <= s.committed[d]
    BY <1>10, <2>1, ChargedPart
  <2>3. s.sa_usage[a] \in Amount /\ s.sa_usage[a][d] \in 0 .. U64Max
    BY <1>3, Zenon DEF Amount
  <2>4. CASE a = Sa[t]
    <3>1. r.sa_usage[a] = saturating_add(s.sa_usage[a], Footprint[t])
      BY <1>1, <1>3, <2>4, Zenon DEF charge
    <3>2. s.sa_usage[a][d] + Footprint[t][d] <= U64Max
      <4> DEFINE u == s.sa_usage[a][d]
                 c == s.committed[d]
                 p == Footprint[t][d]
      <4>1. u \in Nat /\ c \in Nat /\ p \in Nat /\ u <= c /\ c + p <= U64Max
        BY <1>6, <1>8, <2>2, <2>3, ResourcesAssumption
      <4> HIDE DEF u, c, p
      <4>2. u + p <= U64Max
        BY <4>1, ResourcesAssumption
      <4> QED
        BY <4>2 DEF u, p
    <3>3. r.sa_usage[a][d] = s.sa_usage[a][d] + Footprint[t][d]
      BY <3>1, <3>2 DEF saturating_add
    <3>4. Charged(r, {a}, d) = Charged(s, {a}, d) + Footprint[t][d]
      BY <1>5, <2>4, Zenon
    <3> QED
      BY <2>1, <3>3, <3>4, Zenon
  <2>5. CASE a # Sa[t]
    <3>1. r.sa_usage[a] = s.sa_usage[a]
      BY <1>1, <1>3, <2>5, Zenon DEF charge
    <3>2. Charged(r, {a}, d) = Charged(s, {a}, d)
      BY <1>5, <2>5, Zenon
    <3> QED
      BY <2>1, <3>1, <3>2, Zenon
  <2> QED
    BY <2>4, <2>5
<1> QED
  BY <1>11, <1>12, SMTT(30)

LEMMA TakeOff ==
  ASSUME NEW x \in Nat, NEW d \in Dims, NEW a, NEW b, b[d] \in Nat, a[d] = x + b[d]
  PROVE  saturating_sub(a, b)[d] = x
<1>1. saturating_sub(a, b)[d] = IF x + b[d] <= b[d] THEN 0 ELSE (x + b[d]) - b[d]
  BY Zenon DEF saturating_sub
<1> QED
  BY <1>1

LEMMA GiveBackBooks ==
  ASSUME LibraryFacts, NEW s, SchedulerType(s), Books(s), NEW slot \in DOMAIN s.leases
  PROVE  Books(give_back(s, slot))
<1> DEFINE r == give_back(s, slot)
           t == s.leases[slot]
<1>1. /\ r.committed = saturating_sub(s.committed, Footprint[t])
      /\ r.sa_usage = credit(s.sa_usage, t) /\ SchedulerType(r)
  BY GiveBackType
<1>2. t \in Tests /\ Footprint[t] \in Amount /\ Sa[t] \in ServiceAccounts
  BY SchedulerAssumption DEF SchedulerType
<1>3. s.sa_usage \in [ServiceAccounts -> Amount]
  BY DEF SchedulerType, Records
<1>4. \A who : \A d \in Dims :
         /\ Sa[t] \in who => Charged(s, who, d) = Charged(r, who, d) + Footprint[t][d]
         /\ Sa[t] \notin who => Charged(s, who, d) = Charged(r, who, d)
  BY ChargedGiveBack, Zenon
<1> HIDE DEF r, t
<1>5. \A who : \A d \in Dims : Charged(r, who, d) \in Nat
  BY <1>1, WeightType
<1> SUFFICES ASSUME NEW d \in Dims
             PROVE  /\ r.committed[d] = Charged(r, ServiceAccounts, d)
                    /\ \A a \in ServiceAccounts : r.sa_usage[a][d] = Charged(r, {a}, d)
  BY Zenon DEF Books, r
<1>6. Footprint[t][d] \in Nat
  BY <1>2, ResourcesAssumption DEF Amount
<1>7. s.committed[d] = Charged(r, ServiceAccounts, d) + Footprint[t][d]
  BY <1>2, <1>4, Zenon DEF Books
<1>8. r.committed[d] = Charged(r, ServiceAccounts, d)
  <2>1. saturating_sub(s.committed, Footprint[t])[d] = Charged(r, ServiceAccounts, d)
    BY <1>5, <1>6, <1>7, TakeOff, Zenon
  <2> QED
    BY <1>1, <2>1, Zenon
<1>9. ASSUME NEW a \in ServiceAccounts PROVE r.sa_usage[a][d] = Charged(r, {a}, d)
  <2>1. s.sa_usage[a][d] = Charged(s, {a}, d)
    BY Zenon DEF Books
  <2>2. CASE a = Sa[t]
    <3>1. r.sa_usage[a] = saturating_sub(s.sa_usage[a], Footprint[t])
      BY <1>1, <1>3, <2>2, Zenon DEF credit
    <3>2. s.sa_usage[a][d] = Charged(r, {a}, d) + Footprint[t][d]
      BY <1>4, <2>1, <2>2, Zenon
    <3>3. saturating_sub(s.sa_usage[a], Footprint[t])[d] = Charged(r, {a}, d)
      BY <1>5, <1>6, <3>2, TakeOff, Zenon
    <3> QED
      BY <3>1, <3>3, Zenon
  <2>3. CASE a # Sa[t]
    <3>1. r.sa_usage[a] = s.sa_usage[a]
      BY <1>1, <1>3, <2>3, Zenon DEF credit
    <3>2. Charged(s, {a}, d) = Charged(r, {a}, d)
      BY <1>4, <2>3, Zenon
    <3> QED
      BY <2>1, <3>1, <3>2, Zenon
  <2> QED
    BY <2>2, <2>3
<1> QED
  BY <1>8, <1>9

LEMMA SameBooks ==
  ASSUME NEW s, NEW r, Books(s), r.leases = s.leases, r.next_slot_id = s.next_slot_id,
         r.committed = s.committed, r.sa_usage = s.sa_usage
  PROVE  Books(r)
<1>1. ASSUME NEW who, NEW d PROVE Charged(r, who, d) = Charged(s, who, d)
  BY Zenon DEF Charged
<1>2. ASSUME NEW d \in Dims
      PROVE  /\ r.committed[d] = Charged(r, ServiceAccounts, d)
             /\ \A a \in ServiceAccounts : r.sa_usage[a][d] = Charged(r, {a}, d)
  <2>1. s.committed[d] = Charged(s, ServiceAccounts, d)
    BY Zenon DEF Books
  <2>2. \A a \in ServiceAccounts : s.sa_usage[a][d] = Charged(s, {a}, d)
    BY Zenon DEF Books
  <2>3. Charged(r, ServiceAccounts, d) = Charged(s, ServiceAccounts, d)
    BY <1>1
  <2>4. \A a \in ServiceAccounts : Charged(r, {a}, d) = Charged(s, {a}, d)
    BY <1>1
  <2> QED
    BY <2>1, <2>2, <2>3, <2>4, Zenon
<1> QED
  BY <1>2, Zenon DEF Books

LEMMA VisitBooks ==
  ASSUME LibraryFacts, NEW s, SchedulerType(s), Books(s), NEW i
  PROVE  SchedulerType(visit(s, i)) /\ Books(visit(s, i))
<1>1. CASE i \in DOMAIN s.queue /\ fits_now(s, s.queue[i])
  <2>1. visit(s, i) = admit(s, i)
    BY <1>1, Zenon DEF visit
  <2> QED
    BY <1>1, <2>1, AdmitType, AdmitBooks, Zenon
<1>2. CASE ~ (i \in DOMAIN s.queue /\ fits_now(s, s.queue[i]))
  <2>1. visit(s, i) = s
    BY <1>2, Zenon DEF visit
  <2> QED
    BY <2>1, Zenon
<1> QED
  BY <1>1, <1>2, Zenon

(* A pass keeps the books. *)
LEMMA PassBooks ==
  ASSUME LibraryFacts, NEW s, SchedulerType(s), Books(s)
  PROVE  Books(schedule_pass(s))
<1> DEFINE n == s.next_seq
<1>1. n \in Nat
  BY DEF SchedulerType, Records
<1>2. PICK f : IsTrace(f, s, n) /\ schedule_pass(s) = f[n]
  BY <1>1, PassTrace
<1> HIDE DEF n
<1> DEFINE A == {i \in 0 .. n : SchedulerType(f[i]) /\ Books(f[i])}
<1>3. f[0] = s /\ \A i \in 0 .. n - 1 : f[i + 1] = visit(f[i], i)
  BY <1>1, <1>2, TraceStep
<1>4. 0 \in A
  BY <1>1, <1>3
<1>5. ASSUME NEW i \in 0 .. n - 1, i \in A PROVE i + 1 \in A
  <2>1. SchedulerType(f[i]) /\ Books(f[i])
    BY <1>5
  <2>2. SchedulerType(f[i + 1]) /\ Books(f[i + 1])
    BY <1>3, <2>1, VisitBooks, Zenon
  <2>3. i + 1 \in 0 .. n
    BY <1>1
  <2> QED
    BY <2>2, <2>3
<1>6. \A i \in 0 .. n : i \in A
  <2> HIDE DEF A
  <2> QED BY <1>1, <1>4, <1>5, IntervalInduction
<1> QED
  BY <1>1, <1>2, <1>6

(* A new scheduler: nothing leased, nothing charged. *)
LEMMA NewBooks ==
  ASSUME LibraryFacts, NEW ceiling \in Amount, NEW budgets \in [ServiceAccounts -> Budgets]
  PROVE  SchedulerType(new(ceiling, budgets)) /\ Books(new(ceiling, budgets))
<1> DEFINE s == new(ceiling, budgets)
<1>1. /\ s \in Records({EmptyMap}, {EmptyMap}) /\ s.leases = EmptyMap /\ s.queue = EmptyMap
      /\ s.committed = ZERO /\ s.next_slot_id = 0
      /\ s.sa_usage = [a \in ServiceAccounts |-> ZERO]
  BY ZeroIsAmount DEF new, Records
<1>2. DOMAIN EmptyMap = {} /\ EmptyMap \in [{} -> Tests]
  BY SMTT(30) DEF EmptyMap
<1> HIDE DEF s
<1>3. SchedulerType(s)
  BY <1>1, <1>2 DEF SchedulerType
<1>4. ASSUME NEW who, NEW d \in Dims PROVE Charged(s, who, d) = 0
  <2>1. /\ Weight(s, who, d) \in [0 .. 0 - 1 -> Nat]
        /\ Charged(s, who, d) = Sum(Weight(s, who, d), 0)
    BY <1>1, <1>3, WeightType
  <2> DEFINE w == Weight(s, who, d)
  <2> HIDE DEF w
  <2>2. PICK f \in [0 .. 0 -> Nat] : f[0] = 0 /\ Sum(w, 0) = f[0]
    <3>1. 0 \in Nat /\ w \in [0 .. 0 - 1 -> Nat]
      BY <2>1 DEF w
    <3> QED
      BY <3>1, PartialSums, Zenon
  <2> QED
    BY <2>1, <2>2, Zenon DEF w
<1>5. Books(s)
  BY <1>1, <1>4, ZenonT(60) DEF Books, ZERO
<1> QED
  BY <1>3, <1>5 DEF s

(* When nothing is leased, nothing is committed. *)
LEMMA NothingCommitted ==
  ASSUME LibraryFacts, NEW s, SchedulerType(s), Books(s), DOMAIN s.leases = {}
  PROVE  s.committed = ZERO
<1> DEFINE n == s.next_slot_id
<1>1. s.committed \in Amount
  BY DEF SchedulerType, Records
<1>2. ASSUME NEW d \in Dims PROVE s.committed[d] = 0
  <2> DEFINE w == Weight(s, ServiceAccounts, d)
  <2>1. n \in Nat /\ w \in [0 .. n - 1 -> Nat] /\ s.committed[d] = Sum(w, n)
    BY WeightType, Zenon DEF Books
  <2>2. \A l \in 0 .. n - 1 : w[l] = 0
    BY Zenon DEF Weight
  <2> HIDE DEF w, n
  <2>3. PICK f \in [0 .. n -> Nat] : /\ f[0] = 0
                                     /\ \A i \in 0 .. n - 1 : f[i + 1] = f[i] + w[i]
                                     /\ Sum(w, n) = f[n]
    BY <2>1, PartialSums, Zenon
  <2> DEFINE A == {i \in 0 .. n : f[i] = 0}
  <2>4. 0 \in A
    BY <2>1, <2>3
  <2>5. ASSUME NEW i \in 0 .. n - 1, i \in A PROVE i + 1 \in A
    <3>1. f[i] = 0 /\ f[i + 1] = f[i] + w[i] /\ w[i] = 0
      BY <2>2, <2>3, <2>5
    <3> QED
      BY <2>1, <3>1
  <2>6. \A i \in 0 .. n : i \in A
    <3>1. \A i \in 0 .. n - 1 : i \in A => i + 1 \in A
      BY <2>5
    <3> HIDE DEF A
    <3> QED BY <2>1, <2>4, <3>1, IntervalInduction, Zenon
  <2>7. f[n] = 0
    <3>1. n \in 0 .. n
      BY <2>1
    <3> QED
      BY <2>6, <3>1, Zenon
  <2> QED
    BY <2>1, <2>3, <2>7, Zenon
<1> QED
  BY <1>1, <1>2 DEF Amount, ZERO

LEMMA BooksStep ==
  ASSUME LibraryFacts
  PROVE  TypeOK /\ Books(sched) /\ [Next]_sched => Books(sched')
<1> SUFFICES ASSUME SchedulerType(sched), Books(sched), [Next]_sched PROVE Books(sched')
  BY DEF TypeOK
<1>1. ASSUME NEW a \in ServiceAccounts, NEW budget \in BudgetChoices, SetSaBudget(a, budget)
      PROVE  Books(sched')
  <2>1. budget \in Budgets /\ sched' = set_sa_budget(sched, a, budget)
    BY <1>1, DriverAssumption DEF SetSaBudget
  <2>2. /\ sched'.leases = sched.leases /\ sched'.next_slot_id = sched.next_slot_id
        /\ sched'.committed = sched.committed /\ sched'.sa_usage = sched.sa_usage
    BY <2>1, BudgetType
  <2> QED
    BY <2>2, SameBooks, Zenon
<1>2. ASSUME NEW t \in Tests, Request(t) PROVE Books(sched')
  <2> DEFINE s == enqueue(sched, t)
  <2>1. /\ SchedulerType(s)
        /\ s.leases = sched.leases /\ s.next_slot_id = sched.next_slot_id
        /\ s.committed = sched.committed /\ s.sa_usage = sched.sa_usage
    BY EnqueueType
  <2>2. sched' = sched \/ sched' = schedule_pass(s)
    BY <1>2, Zenon DEF Request, request
  <2> HIDE DEF s
  <2>3. Books(s)
    BY <2>1, SameBooks, Zenon
  <2> QED
    BY <2>1, <2>2, <2>3, PassBooks, Zenon
<1>3. ASSUME NEW slot, sched' = release(sched, slot) PROVE Books(sched')
  <2>1. CASE slot \notin DOMAIN sched.leases
    BY <1>3, <2>1, Zenon DEF release
  <2>2. CASE slot \in DOMAIN sched.leases
    <3>1. SchedulerType(give_back(sched, slot)) /\ Books(give_back(sched, slot))
      BY <2>2, GiveBackType, GiveBackBooks
    <3>2. sched' = schedule_pass(give_back(sched, slot))
      BY <1>3, <2>2, Zenon DEF release
    <3> QED
      BY <3>1, <3>2, PassBooks, Zenon
  <2> QED
    BY <2>1, <2>2, Zenon
<1>4. ASSUME NEW ceiling \in Ceilings, Reconcile(ceiling) PROVE Books(sched')
  <2> DEFINE s == [sched EXCEPT !.available = ceiling]
  <2>1. /\ SchedulerType(s)
        /\ s.leases = sched.leases /\ s.next_slot_id = sched.next_slot_id
        /\ s.committed = sched.committed /\ s.sa_usage = sched.sa_usage
    BY CeilingType, DriverAssumption
  <2>2. sched' = schedule_pass(s)
    BY <1>4 DEF Reconcile, reconcile
  <2> HIDE DEF s
  <2>3. Books(s)
    BY <2>1, SameBooks, Zenon
  <2> QED
    BY <2>1, <2>2, <2>3, PassBooks, Zenon
<1>5. CASE sched' = sched
  BY <1>5, Zenon
<1> QED
  BY <1>1, <1>2, <1>3, <1>4, <1>5, Zenon DEF Next, Release, Disconnect, disconnect

-----------------------------------------------------------------------------
(* The grants of a pass: consecutive slot ids, one for each request that   *)
(* left the queue.                                                         *)

Distinct(q) == \A i, j \in DOMAIN q : q[i] = q[j] => i = j

Fresh(s, r) == s.next_slot_id .. r.next_slot_id - 1

Handed(s, r) ==
  /\ s.next_slot_id <= r.next_slot_id
  /\ DOMAIN r.leases = DOMAIN s.leases \cup Fresh(s, r)
  /\ \A l \in DOMAIN s.leases : r.leases[l] = s.leases[l]
  /\ \A l \in Fresh(s, r) : \E j \in DOMAIN s.queue \ DOMAIN r.queue : r.leases[l] = s.queue[j]
  /\ \A j \in DOMAIN s.queue \ DOMAIN r.queue : \E l \in Fresh(s, r) : r.leases[l] = s.queue[j]
  /\ \A l, m \in Fresh(s, r) : r.leases[l] = r.leases[m] => l = m

LEMMA IntervalGrows ==
  ASSUME NEW a \in Nat, NEW b \in Nat, a <= b
  PROVE  /\ a .. (b + 1) - 1 = (a .. b - 1) \cup {b} /\ b \notin a .. b - 1
         /\ a <= b + 1
OBVIOUS

LEMMA VisitHands ==
  ASSUME NEW s, SchedulerType(s), Distinct(s.queue),
         NEW r, Frame(s, r), Handed(s, r), NEW i
  PROVE  Frame(s, visit(r, i)) /\ Handed(s, visit(r, i))
<1>1. CASE ~ (i \in DOMAIN r.queue /\ fits_now(r, r.queue[i]))
  <2>1. visit(r, i) = r
    BY <1>1, Zenon DEF visit
  <2> QED
    BY <2>1, Zenon
<1>2. CASE i \in DOMAIN r.queue /\ fits_now(r, r.queue[i])
  <2> DEFINE q == visit(r, i)
             t == r.queue[i]
             n == r.next_slot_id
  <2>1. q = admit(r, i)
    BY <1>2, Zenon DEF visit
  <2>2. SchedulerType(r) /\ i \in DOMAIN r.queue
    BY <1>2, Zenon DEF Frame
  <2>3. /\ SchedulerType(q)
        /\ q.available = r.available
        /\ q.sa_budgets = r.sa_budgets
        /\ q.next_seq = r.next_seq
        /\ q.next_slot_id = n + 1
        /\ q.queue = Remove(r.queue, i)
        /\ q.leases = Insert(r.leases, n, t)
    BY <2>1, <2>2, AdmitType
  <2>4. n \in Nat /\ s.next_slot_id \in Nat /\ DOMAIN r.leases \subseteq 0 .. n - 1
    BY <2>2 DEF SchedulerType, Records
  <2>5. n \notin DOMAIN r.leases
    BY <2>4
  <2>6. t = s.queue[i] /\ i \in DOMAIN s.queue
    BY <2>2, Zenon DEF Frame
  <2> HIDE DEF q, t, n
  <2>7. /\ DOMAIN q.queue = DOMAIN r.queue \ {i}
        /\ \A k \in DOMAIN q.queue : q.queue[k] = r.queue[k]
    BY <2>3, Zenon DEF Remove
  <2>8. /\ DOMAIN q.leases = DOMAIN r.leases \cup {n} /\ q.leases[n] = t
        /\ \A l \in DOMAIN r.leases : q.leases[l] = r.leases[l]
    BY <2>3, <2>5, Zenon DEF Insert
  <2>9. Frame(s, q)
    BY <2>3, <2>7, Zenon DEF Frame
  <2>10. s.next_slot_id <= n /\ Fresh(s, r) = s.next_slot_id .. n - 1
    BY Zenon DEF Handed, Fresh, n
  <2>11. Fresh(s, q) = Fresh(s, r) \cup {n} /\ n \notin Fresh(s, r) /\ s.next_slot_id <= q.next_slot_id
    <3>1. Fresh(s, q) = s.next_slot_id .. (n + 1) - 1
      BY <2>3, Zenon DEF Fresh
    <3> QED
      BY <2>3, <2>4, <2>10, <3>1, IntervalGrows, Zenon
  <2>12. DOMAIN q.leases = DOMAIN s.leases \cup Fresh(s, q)
    <3>1. DOMAIN r.leases = DOMAIN s.leases \cup Fresh(s, r)
      BY Zenon DEF Handed
    <3> QED
      BY <2>8, <2>11, <3>1, Zenon
  <2>13. DOMAIN s.leases \subseteq DOMAIN r.leases /\ Fresh(s, r) \subseteq DOMAIN r.leases
    BY Zenon DEF Handed
  <2>14. \A l \in DOMAIN s.leases : q.leases[l] = s.leases[l]
    BY <2>8, <2>13, Zenon DEF Handed
  <2>15. \A l \in Fresh(s, r) : \E j \in DOMAIN s.queue \ DOMAIN r.queue : r.leases[l] = s.queue[j]
    BY Zenon DEF Handed
  <2>16. ASSUME NEW l \in Fresh(s, q)
         PROVE  \E j \in DOMAIN s.queue \ DOMAIN q.queue : q.leases[l] = s.queue[j]
    <3>1. CASE l = n
      BY <2>6, <2>7, <2>8, <3>1, Zenon
    <3>2. CASE l \in Fresh(s, r)
      <4>1. PICK j \in DOMAIN s.queue \ DOMAIN r.queue : r.leases[l] = s.queue[j]
        BY <2>15, <3>2, Zenon
      <4>2. j \in DOMAIN s.queue \ DOMAIN q.queue
        BY <2>7, Zenon
      <4>3. q.leases[l] = s.queue[j]
        BY <2>8, <2>13, <3>2, <4>1, Zenon
      <4> QED
        BY <4>2, <4>3, Zenon
    <3> QED
      BY <2>11, <2>16, <3>1, <3>2, Zenon
  <2>17. ASSUME NEW j \in DOMAIN s.queue \ DOMAIN q.queue
         PROVE  \E l \in Fresh(s, q) : q.leases[l] = s.queue[j]
    <3>1. CASE j = i
      BY <2>6, <2>8, <2>11, <3>1, Zenon
    <3>2. CASE j # i
      <4>1. j \in DOMAIN s.queue \ DOMAIN r.queue
        BY <2>7, <3>2, Zenon
      <4>2. PICK l \in Fresh(s, r) : r.leases[l] = s.queue[j]
        BY <4>1, Zenon DEF Handed
      <4>3. l \in Fresh(s, q) /\ q.leases[l] = s.queue[j]
        BY <2>8, <2>11, <2>13, <4>2, Zenon
      <4> QED
        BY <4>3, Zenon
    <3> QED
      BY <3>1, <3>2, Zenon
  <2>18. ASSUME NEW l \in Fresh(s, r) PROVE q.leases[l] # t /\ q.leases[l] = r.leases[l]
    <3>1. PICK j \in DOMAIN s.queue \ DOMAIN r.queue : r.leases[l] = s.queue[j]
      BY <2>15, Zenon
    <3>2. j # i
      BY <2>2, Zenon
    <3>3. s.queue[j] # t
      BY <2>6, <3>2, Zenon DEF Distinct
    <3> QED
      BY <2>8, <2>13, <3>1, <3>3, Zenon
  <2>19. ASSUME NEW l \in Fresh(s, q), NEW m \in Fresh(s, q), q.leases[l] = q.leases[m]
         PROVE  l = m
    <3>1. CASE l \in Fresh(s, r) /\ m \in Fresh(s, r)
      <4>1. r.leases[l] = r.leases[m]
        BY <2>18, <2>19, <3>1, Zenon
      <4> QED
        BY <3>1, <4>1, Zenon DEF Handed
    <3>2. CASE l = n /\ m = n
      BY <3>2, Zenon
    <3>3. CASE l = n /\ m \in Fresh(s, r)
      BY <2>8, <2>18, <2>19, <3>3, Zenon
    <3>4. CASE m = n /\ l \in Fresh(s, r)
      BY <2>8, <2>18, <2>19, <3>4, Zenon
    <3> QED
      BY <2>11, <2>19, <3>1, <3>2, <3>3, <3>4, Zenon
  <2>20. Handed(s, q)
    BY <2>11, <2>12, <2>14, <2>16, <2>17, <2>19, Zenon DEF Handed
  <2> QED
    BY <2>9, <2>20, Zenon DEF q
<1> QED
  BY <1>1, <1>2, Zenon

LEMMA PassHands ==
  ASSUME LibraryFacts, NEW s, SchedulerType(s), Distinct(s.queue)
  PROVE  Frame(s, schedule_pass(s)) /\ Handed(s, schedule_pass(s))
<1> DEFINE n == s.next_seq
<1>1. n \in Nat
  BY DEF SchedulerType, Records
<1>2. PICK f : IsTrace(f, s, n) /\ schedule_pass(s) = f[n]
  BY <1>1, PassTrace
<1> HIDE DEF n
<1> DEFINE A == {i \in 0 .. n : Frame(s, f[i]) /\ Handed(s, f[i])}
<1>3. f[0] = s /\ \A i \in 0 .. n - 1 : f[i + 1] = visit(f[i], i)
  BY <1>1, <1>2, TraceStep
<1>4. Frame(s, s) /\ Handed(s, s)
  <2>1. s.next_slot_id \in Nat
    BY DEF SchedulerType, Records
  <2>2. Fresh(s, s) = {} /\ s.next_slot_id <= s.next_slot_id
    BY <2>1 DEF Fresh
  <2> QED
    BY <2>2, Zenon DEF Frame, Handed
<1>5. 0 \in A
  BY <1>1, <1>3, <1>4
<1>6. ASSUME NEW i \in 0 .. n - 1, i \in A PROVE i + 1 \in A
  <2>1. Frame(s, f[i]) /\ Handed(s, f[i])
    BY <1>6
  <2>2. Frame(s, f[i + 1]) /\ Handed(s, f[i + 1])
    BY <1>3, <2>1, VisitHands, Zenon
  <2>3. i + 1 \in 0 .. n
    BY <1>1
  <2> QED
    BY <2>2, <2>3
<1>7. \A i \in 0 .. n : i \in A
  <2> HIDE DEF A
  <2> QED BY <1>1, <1>5, <1>6, IntervalInduction
<1> QED
  BY <1>1, <1>2, <1>7

-----------------------------------------------------------------------------
(* The run loop as a client of the admission core: what it knows of its    *)
(* locals and of the core between two calls.                               *)

Events == Terminal \cup {"started", "retrying"}

(* How often a test was started, and whether it has its last event.        *)
StartsIn(h) == Cardinality({i \in 1 .. Len(h) : h[i] = "started"})
EndsIn(h) == \E i \in 1 .. Len(h) : h[i] \in Terminal

Attempts(r, t) == StartsIn(r.events[t])
Over(r, t) == EndsIn(r.events[t])

NoneFits(s) == \A i \in DOMAIN s.queue : ~ fits_now(s, s.queue[i])

(* The admission core between two calls of the loop.                       *)
Admits(s) ==
  /\ SchedulerType(s) /\ Books(s) /\ NoneFits(s)
  /\ s.sa_budgets = [a \in ServiceAccounts |-> Unlimited]

RunFields(scheds, parkeds) ==
  [sched : scheds, inflight : SUBSET Entry, parked : parkeds, ready : Seq(Entry),
   stats : Tally, tripped : BOOLEAN, events : [Tests -> Seq(Events)]]

(* The loop's locals have their types, and the admission core is settled.  *)
RunType(r) ==
  /\ r \in RunFields({r.sched}, {r.parked})
  /\ r.parked \in [DOMAIN r.parked -> Nat \ {0}] /\ DOMAIN r.parked \subseteq Tests
  /\ IsFiniteSet(r.inflight) /\ IsFiniteSet(DOMAIN r.parked)
  /\ Admits(r.sched)

Granted(d) == {d[i] : i \in 1 .. Len(d)}

HeldBy(r) == r.inflight \cup Granted(r.ready)

(* A test that may still be started, as its attempt n.                     *)
Due(r, t, n) == ~ Over(r, t) /\ n = Attempts(r, t) + 1 /\ Attempts(r, t) <= Retries[t]

Leased(s, e) == e.slot \in DOMAIN s.leases /\ s.leases[e.slot] = e.test

(* What is known of a test from where the loop keeps it.                   *)
Placed(r) ==
  /\ \A e \in HeldBy(r) : Leased(r.sched, e) /\ ~ Over(r, e.test)
  /\ \A e \in r.inflight : e.attempt = Attempts(r, e.test)
  /\ \A e \in Granted(r.ready) : Due(r, e.test, e.attempt)
  /\ \A t \in DOMAIN r.parked : Due(r, t, r.parked[t])
  /\ \A i \in DOMAIN r.sched.queue : r.sched.queue[i] \in DOMAIN r.parked

TestsApart(d) == \A i, j \in 1 .. Len(d) : d[i].test = d[j].test => i = j

(* The loop, and the queue, keep a test in one place.                      *)
Apart(r) ==
  /\ \A e, f \in HeldBy(r) : e.test = f.test => e = f
  /\ TestsApart(r.ready)
  /\ \A e \in r.inflight : e \notin Granted(r.ready)
  /\ \A e \in HeldBy(r) : e.test \notin DOMAIN r.parked
  /\ Distinct(r.sched.queue)

Kept(r) == RunType(r) /\ Placed(r) /\ Apart(r)

Absent(r, t) == t \notin DOMAIN r.parked /\ \A e \in HeldBy(r) : e.test # t

(* The loop and the core agree, but for the grants lo .. hi - 1, which the *)
(* loop has yet to take.                                                   *)
Agree(r, lo, hi) ==
  /\ \A l \in lo .. hi - 1 : /\ l \in DOMAIN r.sched.leases
                             /\ r.sched.leases[l] \in DOMAIN r.parked
                             /\ \A i \in DOMAIN r.sched.queue : r.sched.queue[i] # r.sched.leases[l]
  /\ \A l, m \in lo .. hi - 1 : r.sched.leases[l] = r.sched.leases[m] => l = m
  /\ \A l \in DOMAIN r.sched.leases : l \in lo .. hi - 1 \/ \E e \in HeldBy(r) : e.slot = l
  /\ \A t \in DOMAIN r.parked : \/ \E i \in DOMAIN r.sched.queue : r.sched.queue[i] = t
                                \/ \E l \in lo .. hi - 1 : r.sched.leases[l] = t

Count(r) == finished(r.stats) + Cardinality(r.inflight) + Cardinality(DOMAIN r.parked) + Len(r.ready)

-----------------------------------------------------------------------------
(* Sequences. *)

LEMMA HistoryAppend ==
  ASSUME LibraryFacts, NEW h \in Seq(Events), NEW ev \in Events
  PROVE  /\ Append(h, ev) \in Seq(Events)
         /\ StartsIn(h) \in Nat
         /\ ev = "started" => StartsIn(Append(h, ev)) = StartsIn(h) + 1
         /\ ev # "started" => StartsIn(Append(h, ev)) = StartsIn(h)
         /\ EndsIn(Append(h, ev)) <=> EndsIn(h) \/ ev \in Terminal
<1> DEFINE k == Append(h, ev)
           n == Len(h)
           S == {i \in 1 .. n : h[i] = "started"}
           T == {i \in 1 .. Len(k) : k[i] = "started"}
<1>1. n \in Nat /\ k \in Seq(Events) /\ Len(k) = n + 1 /\ k[n + 1] = ev /\ \A i \in 1 .. n : k[i] = h[i]
  OBVIOUS
<1> HIDE DEF k, n
<1>2. 1 .. Len(k) = (1 .. n) \cup {n + 1} /\ n + 1 \notin 1 .. n
  BY <1>1
<1>3. IsFiniteSet(1 .. n)
  BY <1>1 DEF LibraryFacts, Counting
<1>4. IsFiniteSet(S) /\ Cardinality(S) \in Nat
  BY <1>3, Zenon DEF LibraryFacts, Counting
<1>5. n + 1 \notin S
  BY <1>2
<1>6. ev = "started" => T = S \cup {n + 1}
  BY <1>1, <1>2, Zenon
<1>7. ev # "started" => T = S
  BY <1>1, <1>2, Zenon
<1>8. Cardinality(S \cup {n + 1}) = Cardinality(S) + 1
  <2> HIDE DEF S
  <2> QED BY <1>4, <1>5, Zenon DEF LibraryFacts, Counting
<1>9. StartsIn(h) = Cardinality(S) /\ StartsIn(k) = Cardinality(T)
  BY Zenon DEF StartsIn, n
<1>10. EndsIn(k) <=> EndsIn(h) \/ ev \in Terminal
  <2>1. EndsIn(h) <=> \E i \in 1 .. n : h[i] \in Terminal
    BY Zenon DEF EndsIn, n
  <2>2. EndsIn(k) <=> \E i \in (1 .. n) \cup {n + 1} : k[i] \in Terminal
    BY <1>2, Zenon DEF EndsIn
  <2> QED
    BY <1>1, <2>1, <2>2, Zenon
<1> HIDE DEF S, T
<1> QED
  BY <1>1, <1>4, <1>6, <1>7, <1>8, <1>9, <1>10, Zenon DEF k

LEMMA GrantedAppend ==
  ASSUME NEW d \in Seq(Entry), NEW e \in Entry
  PROVE  /\ Append(d, e) \in Seq(Entry)
         /\ Len(Append(d, e)) = Len(d) + 1
         /\ Granted(Append(d, e)) = Granted(d) \cup {e}
         /\ TestsApart(d) /\ (\A x \in Granted(d) : x.test # e.test) => TestsApart(Append(d, e))
<1> DEFINE k == Append(d, e)
           n == Len(d)
<1>1. n \in Nat /\ k \in Seq(Entry) /\ Len(k) = n + 1 /\ k[n + 1] = e /\ \A i \in 1 .. n : k[i] = d[i]
  OBVIOUS
<1>2. 1 .. Len(k) = (1 .. n) \cup {n + 1} /\ n + 1 \notin 1 .. n
  BY <1>1
<1> HIDE DEF k, n
<1>3. Granted(d) = {d[i] : i \in 1 .. n}
  BY Zenon DEF Granted, n
<1>4. Granted(k) = Granted(d) \cup {e}
  <2>1. ASSUME NEW x \in Granted(k) PROVE x \in Granted(d) \cup {e}
    <3>1. PICK i \in (1 .. n) \cup {n + 1} : x = k[i]
      BY <1>2, <2>1, Zenon DEF Granted
    <3> QED
      BY <1>1, <1>3, <3>1, Zenon
  <2>2. ASSUME NEW x \in Granted(d) PROVE x \in Granted(k)
    <3>1. PICK i \in 1 .. n : x = d[i]
      BY <1>3, <2>2, Zenon
    <3>2. i \in 1 .. Len(k) /\ x = k[i]
      BY <1>1, <1>2, <3>1, Zenon
    <3> QED
      BY <3>2, Zenon DEF Granted
  <2>3. e \in Granted(k)
    BY <1>1, <1>2, Zenon DEF Granted
  <2> QED
    BY <2>1, <2>2, <2>3, Zenon
<1>5. ASSUME TestsApart(d), \A x \in Granted(d) : x.test # e.test PROVE TestsApart(k)
  <2> SUFFICES ASSUME NEW i \in 1 .. Len(k), NEW j \in 1 .. Len(k), k[i].test = k[j].test
               PROVE  i = j
    BY Zenon DEF TestsApart
  <2>1. \A a \in 1 .. n : k[a].test # e.test
    BY <1>1, <1>3, <1>5, Zenon
  <2>2. CASE i \in 1 .. n /\ j \in 1 .. n
    BY <1>1, <1>5, <2>2, Zenon DEF TestsApart, n
  <2>3. CASE i = n + 1 /\ j \in 1 .. n
    BY <1>1, <2>1, <2>3, Zenon
  <2>4. CASE j = n + 1 /\ i \in 1 .. n
    BY <1>1, <2>1, <2>4, Zenon
  <2> QED
    BY <1>2, <2>2, <2>3, <2>4, Zenon
<1> QED
  BY <1>1, <1>4, <1>5, Zenon DEF k, n

LEMMA GrantedTail ==
  ASSUME NEW d \in Seq(Entry), d # <<>>, TestsApart(d)
  PROVE  /\ Tail(d) \in Seq(Entry) /\ Len(Tail(d)) = Len(d) - 1
         /\ Head(d) \in Granted(d)
         /\ Granted(Tail(d)) = Granted(d) \ {Head(d)}
         /\ \A x \in Granted(Tail(d)) : x.test # Head(d).test
         /\ TestsApart(Tail(d))
<1> DEFINE k == Tail(d)
           n == Len(d)
           h == Head(d)
<1>1. /\ n \in Nat \ {0} /\ k \in Seq(Entry) /\ Len(k) = n - 1 /\ h = d[1]
      /\ \A i \in 1 .. n - 1 : k[i] = d[i + 1]
  OBVIOUS
<1>2. /\ 1 \in 1 .. n
      /\ \A i \in 1 .. n - 1 : i + 1 \in 1 .. n /\ i + 1 # 1
      /\ \A i \in 1 .. n : i = 1 \/ (i - 1 \in 1 .. n - 1 /\ (i - 1) + 1 = i)
      /\ \A i, j \in 1 .. n - 1 : i + 1 = j + 1 => i = j
  BY <1>1
<1> HIDE DEF k, n, h
<1>3. Granted(d) = {d[i] : i \in 1 .. n} /\ Granted(k) = {k[i] : i \in 1 .. n - 1}
  BY <1>1, Zenon DEF Granted, n
<1>4. \A i, j \in 1 .. n : d[i].test = d[j].test => i = j
  BY Zenon DEF TestsApart, n
<1>5. h \in Granted(d)
  BY <1>1, <1>2, <1>3, Zenon
<1>6. ASSUME NEW x \in Granted(k) PROVE x \in Granted(d) /\ x.test # h.test
  <2>1. PICK i \in 1 .. n - 1 : x = k[i]
    BY <1>3, Zenon
  <2>2. x = d[i + 1] /\ i + 1 \in 1 .. n /\ i + 1 # 1
    BY <1>1, <1>2, <2>1, Zenon
  <2>3. x.test # h.test
    BY <1>1, <1>2, <1>4, <2>2, Zenon
  <2> QED
    BY <1>3, <2>2, <2>3, Zenon
<1>7. ASSUME NEW x \in Granted(d), x # h PROVE x \in Granted(k)
  <2>1. PICK i \in 1 .. n : x = d[i]
    BY <1>3, Zenon
  <2>2. i # 1
    BY <1>1, <1>7, <2>1, Zenon
  <2>3. i - 1 \in 1 .. n - 1 /\ (i - 1) + 1 = i
    BY <1>2, <2>2, Zenon
  <2>4. k[i - 1] = d[(i - 1) + 1]
    BY <1>1, <2>3, Zenon
  <2>5. k[i - 1] = x
    BY <2>1, <2>3, <2>4, Zenon
  <2> QED
    BY <1>3, <2>3, <2>5, Zenon
<1>8. Granted(k) = Granted(d) \ {h}
  BY <1>6, <1>7, Zenon
<1>9. TestsApart(k)
  <2> SUFFICES ASSUME NEW i \in 1 .. n - 1, NEW j \in 1 .. n - 1, k[i].test = k[j].test PROVE i = j
    BY <1>1, Zenon DEF TestsApart
  <2>1. k[i] = d[i + 1] /\ k[j] = d[j + 1] /\ i + 1 \in 1 .. n /\ j + 1 \in 1 .. n
    BY <1>1, <1>2, Zenon
  <2>2. i + 1 = j + 1
    BY <1>4, <2>1, Zenon
  <2> QED
    BY <1>2, <2>2, Zenon
<1> QED
  BY <1>1, <1>5, <1>6, <1>8, <1>9, Zenon DEF k, n, h

-----------------------------------------------------------------------------
(* The loop's locals, and what the events say of a test. *)

LEMMA Fields ==
  ASSUME LibraryFacts, NEW r, RunType(r)
  PROVE  /\ r.inflight \in SUBSET Entry /\ r.ready \in Seq(Entry) /\ r.stats \in Tally
         /\ r.tripped \in BOOLEAN /\ r.events \in [Tests -> Seq(Events)]
         /\ Admits(r.sched) /\ SchedulerType(r.sched)
         /\ r.parked \in [DOMAIN r.parked -> Nat \ {0}] /\ DOMAIN r.parked \subseteq Tests
         /\ Granted(r.ready) \in SUBSET Entry
         /\ \A e \in HeldBy(r) : e \in Entry /\ e.test \in Tests /\ e.slot \in Nat /\ e.attempt \in Nat \ {0}
         /\ \A t \in Tests : Attempts(r, t) \in Nat
<1>1. r \in RunFields({r.sched}, {r.parked})
  BY Zenon DEF RunType
<1>2. /\ r.inflight \in SUBSET Entry /\ r.ready \in Seq(Entry) /\ r.stats \in Tally
      /\ r.tripped \in BOOLEAN /\ r.events \in [Tests -> Seq(Events)]
  BY <1>1 DEF RunFields
<1>3. Granted(r.ready) \in SUBSET Entry
  BY <1>2 DEF Granted
<1>4. \A e \in HeldBy(r) : e \in Entry
  BY <1>2, <1>3, Zenon DEF HeldBy
<1>5. \A e \in Entry : e.test \in Tests /\ e.slot \in Nat /\ e.attempt \in Nat \ {0}
  BY DEF Entry
<1>6. \A t \in Tests : Attempts(r, t) \in Nat
  <2>1. "started" \in Events
    BY Zenon DEF Events
  <2> QED
    BY <1>2, <2>1, HistoryAppend, Zenon DEF Attempts
<1> QED
  BY <1>2, <1>3, <1>4, <1>5, <1>6, Zenon DEF RunType, Admits

Logged(r, t, ev) == [r.events EXCEPT ![t] = Append(@, ev)]

Written(r, q, t, ev) ==
  /\ q.events \in [Tests -> Seq(Events)]
  /\ \A u \in Tests \ {t} : q.events[u] = r.events[u]
  /\ \A u \in Tests \ {t} : Attempts(q, u) = Attempts(r, u) /\ (Over(q, u) <=> Over(r, u))
  /\ ev = "started" => Attempts(q, t) = Attempts(r, t) + 1
  /\ ev # "started" => Attempts(q, t) = Attempts(r, t)
  /\ Over(q, t) <=> Over(r, t) \/ ev \in Terminal

LEMMA EventsFacts ==
  ASSUME LibraryFacts, NEW r, RunType(r), NEW t \in Tests, NEW ev \in Events,
         NEW q, q.events = Logged(r, t, ev)
  PROVE  Written(r, q, t, ev)
<1>1. r.events \in [Tests -> Seq(Events)] /\ r.events[t] \in Seq(Events)
  BY Fields, Zenon
<1>2. q.events[t] = Append(r.events[t], ev) /\ \A u \in Tests \ {t} : q.events[u] = r.events[u]
  BY <1>1, Zenon DEF Logged
<1>3. q.events \in [Tests -> Seq(Events)]
  BY <1>1, HistoryAppend, Zenon DEF Logged
<1>4. \A u \in Tests \ {t} : Attempts(q, u) = Attempts(r, u) /\ (Over(q, u) <=> Over(r, u))
  BY <1>2, Zenon DEF Attempts, Over
<1>5. /\ ev = "started" => Attempts(q, t) = Attempts(r, t) + 1
      /\ ev # "started" => Attempts(q, t) = Attempts(r, t)
      /\ Over(q, t) <=> Over(r, t) \/ ev \in Terminal
  <2> DEFINE h == r.events[t]
             g == Append(h, ev)
  <2>1. h \in Seq(Events)
    BY <1>1
  <2>2. /\ ev = "started" => StartsIn(g) = StartsIn(h) + 1
        /\ ev # "started" => StartsIn(g) = StartsIn(h)
        /\ EndsIn(g) <=> EndsIn(h) \/ ev \in Terminal
    <3> HIDE DEF h
    <3> QED BY <2>1, HistoryAppend, Zenon
  <2>3. q.events[t] = g
    BY <1>2, Zenon
  <2> HIDE DEF g
  <2> QED
    BY <2>2, <2>3, Zenon DEF Attempts, Over, h
<1> QED
  BY <1>2, <1>3, <1>4, <1>5, Zenon DEF Written

LEMMA SameEvents ==
  ASSUME NEW r, NEW q, q.events = r.events
  PROVE  \A t : /\ Attempts(q, t) = Attempts(r, t) /\ (Over(q, t) <=> Over(r, t))
                /\ \A n : Due(q, t, n) <=> Due(r, t, n)
BY Zenon DEF Attempts, Over, Due

LEMMA EventNames ==
  /\ Terminal \subseteq Events /\ "started" \in Events /\ "retrying" \in Events
  /\ "started" \notin Terminal /\ "retrying" \notin Terminal /\ "retrying" # "started"
  /\ "passed" \in Terminal /\ "failed" \in Terminal /\ "terminated" \in Terminal /\ "skipped" \in Terminal
BY DEF Events, Terminal

LEMMA EmitFacts ==
  ASSUME LibraryFacts, NEW r, RunType(r), NEW t \in Tests, NEW ev \in Events
  PROVE  /\ RunType(emit(r, t, ev))
         /\ emit(r, t, ev).sched = r.sched /\ emit(r, t, ev).inflight = r.inflight
         /\ emit(r, t, ev).parked = r.parked /\ emit(r, t, ev).ready = r.ready
         /\ emit(r, t, ev).stats = r.stats /\ emit(r, t, ev).tripped = r.tripped
         /\ emit(r, t, ev).events = Logged(r, t, ev)
<1> DEFINE q == emit(r, t, ev)
           events == Logged(r, t, ev)
<1>1. r \in RunFields({r.sched}, {r.parked}) /\ r.events \in [Tests -> Seq(Events)]
  BY Fields, Zenon DEF RunType
<1>2. events \in [Tests -> Seq(Events)]
  BY <1>1, HistoryAppend, Zenon DEF Logged
<1>3. q = [r EXCEPT !.events = events]
  BY DEF emit, Logged
<1> HIDE DEF q, events
<1>4. /\ q \in RunFields({r.sched}, {r.parked})
      /\ q.sched = r.sched /\ q.inflight = r.inflight /\ q.parked = r.parked /\ q.ready = r.ready
      /\ q.stats = r.stats /\ q.tripped = r.tripped /\ q.events = events
  BY <1>1, <1>2, <1>3, Zenon DEF RunFields
<1>5. RunType(q)
  BY <1>4, Zenon DEF RunType
<1> QED
  BY <1>4, <1>5, Zenon DEF q, events

LEMMA Tallied ==
  ASSUME NEW s \in Tally, NEW field \in Terminal
  PROVE  /\ [s EXCEPT ![field] = @ + 1] \in Tally
         /\ finished(s) \in Nat
         /\ finished([s EXCEPT ![field] = @ + 1]) = finished(s) + 1
<1>1. /\ s.passed \in Nat /\ s.failed \in Nat /\ s.terminated \in Nat /\ s.skipped \in Nat
  BY DEF Tally
<1>2. finished(s) \in Nat
  BY <1>1 DEF finished
<1>3. CASE field = "passed"
  BY <1>1, <1>3 DEF Tally, finished
<1>4. CASE field = "failed"
  BY <1>1, <1>4 DEF Tally, finished
<1>5. CASE field = "terminated"
  BY <1>1, <1>5 DEF Tally, finished
<1>6. CASE field = "skipped"
  BY <1>1, <1>6 DEF Tally, finished
<1> QED
  BY <1>2, <1>3, <1>4, <1>5, <1>6 DEF Terminal

LEMMA SettleFacts ==
  ASSUME LibraryFacts, NEW r, RunType(r), NEW t \in Tests, NEW field \in Terminal
  PROVE  LET q == settle(r, t, field)
         IN  /\ RunType(q)
             /\ q.sched = r.sched /\ q.inflight = r.inflight
             /\ q.parked = r.parked /\ q.ready = r.ready /\ q.tripped = r.tripped
             /\ finished(r.stats) \in Nat /\ finished(q.stats) = finished(r.stats) + 1
             /\ q.events = Logged(r, t, field)
<1> DEFINE p == emit(r, t, field)
           q == settle(r, t, field)
           stats == [r.stats EXCEPT ![field] = @ + 1]
<1>1. field \in Events
  BY EventNames, Zenon
<1>2. /\ RunType(p)
      /\ p.sched = r.sched /\ p.inflight = r.inflight
      /\ p.parked = r.parked /\ p.ready = r.ready
      /\ p.stats = r.stats /\ p.tripped = r.tripped
      /\ p.events = Logged(r, t, field)
  BY <1>1, EmitFacts, Zenon
<1>3. r.stats \in Tally
  BY Fields, Zenon
<1>4. stats \in Tally /\ finished(r.stats) \in Nat /\ finished(stats) = finished(r.stats) + 1
  BY <1>3, Tallied, Zenon
<1>5. q = [p EXCEPT !.stats = stats]
  BY <1>2 DEF settle
<1>6. p \in RunFields({p.sched}, {p.parked})
  BY <1>2, Zenon DEF RunType
<1> HIDE DEF p, q, stats
<1>7. /\ q \in RunFields({p.sched}, {p.parked})
      /\ q.sched = p.sched /\ q.inflight = p.inflight /\ q.parked = p.parked /\ q.ready = p.ready
      /\ q.stats = stats /\ q.tripped = p.tripped /\ q.events = p.events
  BY <1>4, <1>5, <1>6, Zenon DEF RunFields
<1>8. RunType(q)
  BY <1>2, <1>7, Zenon DEF RunType
<1> QED
  BY <1>2, <1>4, <1>7, <1>8, Zenon DEF q

-----------------------------------------------------------------------------
(* A test that was absent is settled or requested. *)

Handled(r, q, t) ==
  /\ Kept(q) /\ q.inflight = r.inflight /\ q.tripped = r.tripped
  /\ \A u \in Tests : Attempts(q, u) = Attempts(r, u)
  /\ \A u \in Tests \ {t} : q.events[u] = r.events[u] /\ (Absent(q, u) <=> Absent(r, u))
  /\ Over(q, t) \/ ~ Absent(q, t)
  /\ Count(q) = Count(r) + 1
  /\ \A lo, hi \in Nat : Agree(r, lo, hi) => Agree(q, lo, hi)

LEMMA AgreeSame ==
  ASSUME NEW r, NEW q, q.sched = r.sched, q.parked = r.parked, HeldBy(q) = HeldBy(r),
         NEW lo, NEW hi, Agree(r, lo, hi)
  PROVE  Agree(q, lo, hi)
BY Zenon DEF Agree

LEMMA CountType ==
  ASSUME LibraryFacts, NEW r, RunType(r)
  PROVE  /\ finished(r.stats) \in Nat /\ Cardinality(r.inflight) \in Nat
         /\ Cardinality(DOMAIN r.parked) \in Nat /\ Len(r.ready) \in Nat
         /\ Count(r) \in Nat
<1>1. r.stats \in Tally /\ r.ready \in Seq(Entry)
  BY Fields, Zenon
<1>2. finished(r.stats) \in Nat
  BY <1>1, Tallied, EventNames, Zenon
<1>3. Cardinality(r.inflight) \in Nat /\ Cardinality(DOMAIN r.parked) \in Nat
  BY Zenon DEF LibraryFacts, Counting, RunType
<1>4. Len(r.ready) \in Nat
  BY <1>1
<1> QED
  BY <1>2, <1>3, <1>4 DEF Count

Noted(r, q, t, ev) ==
  /\ Kept(q)
  /\ \A u \in Tests : Attempts(q, u) = Attempts(r, u)
  /\ \A u \in Tests \ {t} : q.events[u] = r.events[u]
  /\ Over(q, t) <=> Over(r, t) \/ ev \in Terminal
  /\ \A u : Absent(q, u) <=> Absent(r, u)
  /\ \A lo, hi \in Nat : Agree(r, lo, hi) => Agree(q, lo, hi)

(* An event, other than a start, of a test the loop does not keep.         *)
LEMMA EventGood ==
  ASSUME LibraryFacts, NEW r, Kept(r), NEW t \in Tests, Absent(r, t), NEW ev \in Events, ev # "started",
         NEW q, RunType(q), q.sched = r.sched, q.inflight = r.inflight,
         q.parked = r.parked, q.ready = r.ready,
         q.events = Logged(r, t, ev)
  PROVE  Noted(r, q, t, ev)
<1>1. RunType(r) /\ Placed(r) /\ Apart(r)
  BY Zenon DEF Kept
<1>4. /\ \A u \in Tests \ {t} : q.events[u] = r.events[u]
      /\ \A u \in Tests \ {t} : Attempts(q, u) = Attempts(r, u) /\ (Over(q, u) <=> Over(r, u))
      /\ Attempts(q, t) = Attempts(r, t)
      /\ Over(q, t) <=> Over(r, t) \/ ev \in Terminal
  <2>1. Written(r, q, t, ev)
    BY <1>1, EventsFacts, Zenon
  <2> QED
    BY <2>1, Zenon DEF Written
<1>5. HeldBy(q) = HeldBy(r) /\ Granted(q.ready) = Granted(r.ready)
  BY Zenon DEF HeldBy
<1>6. \A u : Absent(q, u) <=> Absent(r, u)
  BY <1>5, Zenon DEF Absent
<1>7. Apart(q)
  BY <1>1, <1>5, Zenon DEF Apart
<1>8. /\ \A e \in HeldBy(r) : e.test \in Tests \ {t}
      /\ \A u \in DOMAIN r.parked : u \in Tests \ {t}
  BY <1>1, Fields, Zenon DEF Absent
<1>9. \A u \in Tests \ {t} : \A n : Due(r, u, n) => Due(q, u, n)
  BY <1>4, Zenon DEF Due
<1>10. r.inflight \subseteq HeldBy(r) /\ Granted(r.ready) \subseteq HeldBy(r)
  BY Zenon DEF HeldBy
<1>11. Placed(q)
  <2>1. \A e \in HeldBy(q) : Leased(q.sched, e) /\ ~ Over(q, e.test)
    BY <1>1, <1>4, <1>5, <1>8, Zenon DEF Placed
  <2>2. \A e \in q.inflight : e.attempt = Attempts(q, e.test)
    BY <1>1, <1>4, <1>8, <1>10, Zenon DEF Placed
  <2>3. \A e \in Granted(q.ready) : Due(q, e.test, e.attempt)
    BY <1>1, <1>5, <1>8, <1>9, <1>10, Zenon DEF Placed
  <2>4. \A u \in DOMAIN q.parked : Due(q, u, q.parked[u])
    BY <1>1, <1>8, <1>9, Zenon DEF Placed
  <2>5. \A i \in DOMAIN q.sched.queue : q.sched.queue[i] \in DOMAIN q.parked
    BY <1>1, Zenon DEF Placed
  <2> QED
    BY <2>1, <2>2, <2>3, <2>4, <2>5, Zenon DEF Placed
<1>13. \A lo, hi \in Nat : Agree(r, lo, hi) => Agree(q, lo, hi)
  BY <1>5, AgreeSame, Zenon
<1>14. \A u \in Tests : Attempts(q, u) = Attempts(r, u)
  BY <1>4, Zenon
<1> QED
  BY <1>4, <1>6, <1>7, <1>11, <1>13, <1>14, Zenon DEF Kept, Noted

LEMMA SettleGood ==
  ASSUME LibraryFacts, NEW r, Kept(r), NEW t \in Tests, Absent(r, t), NEW field \in Terminal
  PROVE  Handled(r, settle(r, t, field), t)
<1> DEFINE q == settle(r, t, field)
<1>1. RunType(r)
  BY Zenon DEF Kept
<1>2. /\ RunType(q)
      /\ q.sched = r.sched /\ q.inflight = r.inflight
      /\ q.parked = r.parked /\ q.ready = r.ready /\ q.tripped = r.tripped
      /\ finished(r.stats) \in Nat /\ finished(q.stats) = finished(r.stats) + 1
      /\ q.events = Logged(r, t, field)
  BY <1>1, SettleFacts
<1> HIDE DEF q
<1>3. field \in Events /\ field # "started"
  BY EventNames, Zenon
<1>4. /\ Kept(q)
      /\ \A u \in Tests : Attempts(q, u) = Attempts(r, u)
      /\ \A u \in Tests \ {t} : q.events[u] = r.events[u]
      /\ Over(q, t)
      /\ \A u : Absent(q, u) <=> Absent(r, u)
      /\ \A lo, hi \in Nat : Agree(r, lo, hi) => Agree(q, lo, hi)
  <2>1. Noted(r, q, t, field)
    BY <1>2, <1>3, EventGood, Zenon
  <2> QED
    BY <2>1, Zenon DEF Noted
<1>5. Count(q) = Count(r) + 1
  <2> DEFINE a == finished(r.stats)
             b == Cardinality(r.inflight)
             c == Cardinality(DOMAIN r.parked)
             d == Len(r.ready)
  <2>1. a \in Nat /\ b \in Nat /\ c \in Nat /\ d \in Nat
    BY <1>1, CountType, Zenon
  <2>2. Count(q) = (a + 1) + b + c + d /\ Count(r) = a + b + c + d
    BY <1>2, Zenon DEF Count
  <2> HIDE DEF a, b, c, d
  <2> QED
    BY <2>1, <2>2
<1> QED
  BY <1>2, <1>4, <1>5, Zenon DEF Handled, q

-----------------------------------------------------------------------------
Inserted(f, m, k, v) ==
  /\ DOMAIN f = DOMAIN m \cup {k} /\ f[k] = v
  /\ \A x \in DOMAIN m : x # k => f[x] = m[x]

LEMMA InsertMakes ==
  ASSUME NEW m, NEW k, NEW v, NEW f, f = Insert(m, k, v)
  PROVE  Inserted(f, m, k, v)
BY DEF Insert, Inserted

LEMMA InsertIs ==
  ASSUME NEW m, NEW k, NEW v
  PROVE  /\ DOMAIN Insert(m, k, v) = DOMAIN m \cup {k} /\ Insert(m, k, v)[k] = v
         /\ \A x \in DOMAIN m : x # k => Insert(m, k, v)[x] = m[x]
BY DEF Insert

LEMMA RemoveIs ==
  ASSUME NEW m, NEW k
  PROVE  /\ DOMAIN Remove(m, k) = DOMAIN m \ {k}
         /\ \A x \in DOMAIN m \ {k} : Remove(m, k)[x] = m[x]
BY DEF Remove

LEMMA InsertRemove ==
  ASSUME NEW S, NEW m, m \in [DOMAIN m -> S], NEW k, k \notin DOMAIN m, NEW v
  PROVE  Remove(Insert(m, k, v), k) = m
<1> DEFINE g == Insert(m, k, v)
           f == Remove(g, k)
<1>a. /\ DOMAIN g = DOMAIN m \cup {k}
      /\ \A x \in DOMAIN m : x # k => g[x] = m[x]
  BY DEF Insert
<1>b. /\ DOMAIN f = DOMAIN g \ {k}
      /\ \A x \in DOMAIN g \ {k} : f[x] = g[x]
  <2> HIDE DEF g
  <2> QED BY RemoveIs, Zenon
<1> HIDE DEF g
<1>1. DOMAIN f = DOMAIN m
  <2> HIDE DEF f
  <2> QED BY <1>a, <1>b, Zenon
<1>2. \A x \in DOMAIN m : f[x] = m[x]
  <2> HIDE DEF f
  <2> QED BY <1>a, <1>b, Zenon
<1>3. f = [x \in DOMAIN f |-> f[x]] /\ m = [x \in DOMAIN m |-> m[x]]
  BY DEF Remove
<1> HIDE DEF f
<1>4. f = m
  BY <1>1, <1>2, <1>3
<1> QED
  BY <1>4 DEF f, g

(* The request of a test that can be admitted in time is granted at once,  *)
(* or queued; no other test is granted.                                    *)
LEMMA RequestFacts ==
  ASSUME LibraryFacts, NEW s, Admits(s), NEW t \in Tests, ~ rejected(s, t)
  PROVE  LET r == request(s, t)
         IN  /\ Admits(r)
             /\ \/ /\ Grants(s, r) # {}
                   /\ r.leases = Insert(s.leases, s.next_slot_id, t)
                   /\ s.next_slot_id \notin DOMAIN s.leases
                   /\ r.queue = s.queue
                \/ /\ Grants(s, r) = {}
                   /\ r.leases = s.leases
                   /\ r.queue = Insert(s.queue, s.next_seq, t)
                   /\ s.next_seq \notin DOMAIN s.queue
<1> DEFINE n == s.next_seq
           l == s.next_slot_id
           e == enqueue(s, t)
           r == request(s, t)
<1>1. SchedulerType(s) /\ Books(s) /\ NoneFits(s) /\ s.sa_budgets = [a \in ServiceAccounts |-> Unlimited]
  BY Zenon DEF Admits
<1>2. /\ n \in Nat /\ l \in Nat
      /\ DOMAIN s.queue \subseteq 0 .. n - 1
      /\ DOMAIN s.leases \subseteq 0 .. l - 1
      /\ s.queue \in [DOMAIN s.queue -> Tests]
  BY <1>1 DEF SchedulerType, Records
<1>3. n \notin DOMAIN s.queue /\ l \notin DOMAIN s.leases
  <2> HIDE DEF n, l
  <2>1. n \notin 0 .. n - 1 /\ l \notin 0 .. l - 1
    BY <1>2, SMTT(30)
  <2> QED
    BY <1>2, <2>1, Zenon
<1>4. /\ SchedulerType(e)
      /\ e.next_seq = n + 1
      /\ e.queue = Insert(s.queue, n, t)
      /\ e.available = s.available
      /\ e.sa_budgets = s.sa_budgets
      /\ e.committed = s.committed
      /\ e.sa_usage = s.sa_usage
      /\ e.leases = s.leases
      /\ e.next_slot_id = l
  BY <1>1, EnqueueType
<1>5. r = schedule_pass(e)
  BY Zenon DEF request
<1> HIDE DEF e, r, n, l
<1>0. /\ DOMAIN e.queue = DOMAIN s.queue \cup {n} /\ e.queue[n] = t
      /\ \A x \in DOMAIN s.queue : x # n => e.queue[x] = s.queue[x]
  <2>1. /\ DOMAIN Insert(s.queue, n, t) = DOMAIN s.queue \cup {n} /\ Insert(s.queue, n, t)[n] = t
        /\ \A x \in DOMAIN s.queue : x # n => Insert(s.queue, n, t)[x] = s.queue[x]
    BY DEF Insert
  <2>2. e.queue = Insert(s.queue, n, t)
    BY <1>4
  <2> QED
    BY <2>1, <2>2
<1>6. \A u : fits_now(e, u) <=> fits_now(s, u)
  BY <1>4, Zenon DEF fits_now, rejected, ExceedsClusterCapacity, ExceedsSaBudget
<1>7. NoneFitsBelow(e, n)
  <2> SUFFICES ASSUME NEW k \in DOMAIN e.queue, k < n PROVE ~ fits_now(e, e.queue[k])
    BY Zenon DEF NoneFitsBelow
  <2>1. k # n
    BY <1>2
  <2>2. k \in DOMAIN s.queue /\ e.queue[k] = s.queue[k]
    BY <1>0, <2>1, Zenon
  <2> QED
    BY <1>1, <1>6, <2>2, Zenon DEF NoneFits
<1>8. r = visit(e, n)
  BY <1>2, <1>4, <1>5, <1>7, PassSkips, Zenon
<1>9. n \in DOMAIN e.queue /\ e.queue[n] = t
  BY <1>0, Zenon
<1>10. SchedulerType(r) /\ NoneFits(r)
  BY <1>4, <1>5, PassSettles, Zenon DEF NoneFits
<1>11. Books(r)
  <2>1. Books(e)
    BY <1>1, <1>4, SameBooks, Zenon DEF l
  <2> QED
    BY <1>4, <1>5, <2>1, PassBooks, Zenon
<1>12. CASE fits_now(e, t)
  <2>1. r = admit(e, n)
    BY <1>8, <1>9, <1>12, Zenon DEF visit
  <2>2. /\ r.sa_budgets = e.sa_budgets
        /\ r.queue = Remove(e.queue, n)
        /\ r.leases = Insert(e.leases, e.next_slot_id, t)
    BY <1>4, <1>9, <2>1, AdmitType, Zenon
  <2>3. r.queue = s.queue
    <3>1. Remove(Insert(s.queue, n, t), n) = s.queue
      BY <1>2, <1>3, InsertRemove, Zenon
    <3> QED
      BY <1>4, <2>2, <3>1
  <2>4. r.leases = Insert(s.leases, l, t)
    BY <1>4, <2>2, Zenon
  <2>5. l \in Grants(s, r)
    <3>1. DOMAIN Insert(s.leases, l, t) = DOMAIN s.leases \cup {l}
      BY InsertIs, Zenon
    <3> QED
      BY <1>3, <2>4, <3>1 DEF Grants
  <2> QED
    BY <1>1, <1>3, <1>4, <1>10, <1>11, <2>2, <2>3, <2>4, <2>5, Zenon DEF Admits, r, l
<1>13. CASE ~ fits_now(e, t)
  <2>1. r = e
    BY <1>8, <1>9, <1>13, Zenon DEF visit
  <2>2. Grants(s, r) = {}
    BY <1>4, <2>1, Zenon DEF Grants
  <2> QED
    BY <1>1, <1>3, <1>4, <1>10, <1>11, <2>1, <2>2, Zenon DEF Admits, r, n
<1> QED
  BY <1>12, <1>13, Zenon

-----------------------------------------------------------------------------
(* A test the loop does not keep becomes ready, or is parked. *)

LEMMA ReadyAdd ==
  ASSUME LibraryFacts, NEW r, Kept(r), NEW e \in Entry, Absent(r, e.test), Due(r, e.test, e.attempt),
         NEW q, RunType(q), q.inflight = r.inflight, q.parked = r.parked,
         q.ready = Append(r.ready, e), q.stats = r.stats, q.events = r.events,
         q.sched.queue = r.sched.queue, Leased(q.sched, e),
         \A f \in HeldBy(r) : Leased(q.sched, f)
  PROVE  /\ Kept(q)
         /\ HeldBy(q) = HeldBy(r) \cup {e}
         /\ \A u : Absent(q, u) <=> Absent(r, u) /\ u # e.test
         /\ Count(q) = Count(r) + 1
<1>1. RunType(r) /\ Placed(r) /\ Apart(r)
  BY Zenon DEF Kept
<1>2. r.ready \in Seq(Entry)
  BY <1>1, Fields, Zenon
<1>3. \A x \in Granted(r.ready) : x.test # e.test
  BY Zenon DEF Absent, HeldBy
<1>4. TestsApart(r.ready)
  BY <1>1, Zenon DEF Apart
<1>5. /\ Len(q.ready) = Len(r.ready) + 1
      /\ Granted(q.ready) = Granted(r.ready) \cup {e}
      /\ TestsApart(q.ready)
  BY <1>2, <1>3, <1>4, GrantedAppend, Zenon
<1>6. HeldBy(q) = HeldBy(r) \cup {e}
  BY <1>5, Zenon DEF HeldBy
<1>7. \A u : Absent(q, u) <=> Absent(r, u) /\ u # e.test
  BY <1>6, Zenon DEF Absent
<1>8. /\ \A u : ~ Over(q, u) <=> ~ Over(r, u)
      /\ \A u : Attempts(q, u) = Attempts(r, u)
      /\ \A u, n : Due(q, u, n) <=> Due(r, u, n)
  BY SameEvents, Zenon
<1>9. ~ Over(r, e.test)
  BY Zenon DEF Due
<1>10. Placed(q)
  <2>1. \A f \in HeldBy(q) : Leased(q.sched, f) /\ ~ Over(q, f.test)
    BY <1>1, <1>6, <1>8, <1>9, Zenon DEF Placed
  <2>2. \A f \in q.inflight : f.attempt = Attempts(q, f.test)
    BY <1>1, <1>8, Zenon DEF Placed
  <2>3. \A f \in Granted(q.ready) : Due(q, f.test, f.attempt)
    BY <1>1, <1>5, <1>8, Zenon DEF Placed
  <2>4. \A u \in DOMAIN q.parked : Due(q, u, q.parked[u])
    BY <1>1, <1>8, Zenon DEF Placed
  <2>5. \A i \in DOMAIN q.sched.queue : q.sched.queue[i] \in DOMAIN q.parked
    BY <1>1, Zenon DEF Placed
  <2> QED
    BY <2>1, <2>2, <2>3, <2>4, <2>5, Zenon DEF Placed
<1>11. Apart(q)
  <2>1. \A f \in HeldBy(r) : f.test # e.test
    BY Zenon DEF Absent
  <2>2. \A f, g \in HeldBy(q) : f.test = g.test => f = g
    BY <1>1, <1>6, <2>1, Zenon DEF Apart
  <2>3. r.inflight \subseteq HeldBy(r)
    BY Zenon DEF HeldBy
  <2>4. \A f \in q.inflight : f \notin Granted(q.ready)
    BY <1>1, <1>5, <2>1, <2>3, Zenon DEF Apart
  <2>5. \A f \in HeldBy(q) : f.test \notin DOMAIN q.parked
    BY <1>1, <1>6, Zenon DEF Apart, Absent
  <2>6. Distinct(q.sched.queue)
    BY <1>1, Zenon DEF Apart
  <2> QED
    BY <1>5, <2>2, <2>4, <2>5, <2>6, Zenon DEF Apart
<1>12. Count(q) = Count(r) + 1
  <2> DEFINE a == finished(r.stats)
             b == Cardinality(r.inflight)
             c == Cardinality(DOMAIN r.parked)
             d == Len(r.ready)
  <2>1. a \in Nat /\ b \in Nat /\ c \in Nat /\ d \in Nat
    BY <1>1, CountType, Zenon
  <2>2. Count(q) = a + b + c + (d + 1) /\ Count(r) = a + b + c + d
    BY <1>5, Zenon DEF Count
  <2> HIDE DEF a, b, c, d
  <2> QED
    BY <2>1, <2>2
<1> QED
  BY <1>6, <1>7, <1>10, <1>11, <1>12, Zenon DEF Kept

LEMMA ParkAdd ==
  ASSUME LibraryFacts, NEW r, Kept(r), NEW t \in Tests, Absent(r, t), NEW n, Due(r, t, n),
         NEW q, RunType(q), q.inflight = r.inflight, q.parked = Insert(r.parked, t, n),
         q.ready = r.ready, q.stats = r.stats, q.events = r.events,
         q.sched.leases = r.sched.leases,
         NEW k, k \notin DOMAIN r.sched.queue, q.sched.queue = Insert(r.sched.queue, k, t)
  PROVE  /\ Kept(q)
         /\ HeldBy(q) = HeldBy(r)
         /\ \A u : Absent(q, u) <=> Absent(r, u) /\ u # t
         /\ Count(q) = Count(r) + 1
<1>1. RunType(r) /\ Placed(r) /\ Apart(r)
  BY Zenon DEF Kept
<1>2. HeldBy(q) = HeldBy(r) /\ Granted(q.ready) = Granted(r.ready)
  BY Zenon DEF HeldBy
<1>3. /\ DOMAIN q.parked = DOMAIN r.parked \cup {t} /\ q.parked[t] = n
      /\ \A u \in DOMAIN r.parked : u # t => q.parked[u] = r.parked[u]
  <2>1. Inserted(q.parked, r.parked, t, n)
    BY InsertMakes, Zenon
  <2> QED
    BY <2>1, Zenon DEF Inserted
<1>4. /\ DOMAIN q.sched.queue = DOMAIN r.sched.queue \cup {k} /\ q.sched.queue[k] = t
      /\ \A i \in DOMAIN r.sched.queue : q.sched.queue[i] = r.sched.queue[i]
  <2>1. Inserted(q.sched.queue, r.sched.queue, k, t)
    BY InsertMakes, Zenon
  <2> QED
    BY <2>1, Zenon DEF Inserted
<1>5. t \notin DOMAIN r.parked /\ \A e \in HeldBy(r) : e.test # t
  BY Zenon DEF Absent
<1>6. \A u : Absent(q, u) <=> Absent(r, u) /\ u # t
  BY <1>2, <1>3, <1>5, Zenon DEF Absent
<1>7. /\ \A u : ~ Over(q, u) <=> ~ Over(r, u)
      /\ \A u : Attempts(q, u) = Attempts(r, u)
      /\ \A u, m : Due(q, u, m) <=> Due(r, u, m)
  BY SameEvents, Zenon
<1>8. Placed(q)
  <2>1. \A e \in HeldBy(q) : Leased(q.sched, e) /\ ~ Over(q, e.test)
    BY <1>1, <1>2, <1>7, Zenon DEF Placed, Leased
  <2>2. \A e \in q.inflight : e.attempt = Attempts(q, e.test)
    BY <1>1, <1>7, Zenon DEF Placed
  <2>3. \A e \in Granted(q.ready) : Due(q, e.test, e.attempt)
    BY <1>1, <1>2, <1>7, Zenon DEF Placed
  <2>4. \A u \in DOMAIN q.parked : Due(q, u, q.parked[u])
    BY <1>1, <1>3, <1>7, Zenon DEF Placed
  <2>5. \A i \in DOMAIN q.sched.queue : q.sched.queue[i] \in DOMAIN q.parked
    BY <1>1, <1>3, <1>4, Zenon DEF Placed
  <2> QED
    BY <2>1, <2>2, <2>3, <2>4, <2>5, Zenon DEF Placed
<1>9. Apart(q)
  <2>1. \A i \in DOMAIN r.sched.queue : r.sched.queue[i] # t
    BY <1>1, <1>5, Zenon DEF Placed
  <2>2. Distinct(q.sched.queue)
    BY <1>1, <1>4, <2>1, Zenon DEF Apart, Distinct
  <2>3. \A e \in HeldBy(q) : e.test \notin DOMAIN q.parked
    BY <1>1, <1>2, <1>3, <1>5, Zenon DEF Apart
  <2>4. /\ \A e, f \in HeldBy(q) : e.test = f.test => e = f
        /\ TestsApart(q.ready)
        /\ \A e \in q.inflight : e \notin Granted(q.ready)
    BY <1>1, <1>2, Zenon DEF Apart
  <2> QED
    BY <2>2, <2>3, <2>4, Zenon DEF Apart
<1>10. Count(q) = Count(r) + 1
  <2> DEFINE a == finished(r.stats)
             b == Cardinality(r.inflight)
             c == Cardinality(DOMAIN r.parked)
             d == Len(r.ready)
  <2>1. a \in Nat /\ b \in Nat /\ c \in Nat /\ d \in Nat
    BY <1>1, CountType, Zenon
  <2>2. IsFiniteSet(DOMAIN r.parked)
    BY <1>1, Zenon DEF RunType
  <2>3. Cardinality(DOMAIN r.parked \cup {t}) = c + 1
    <3> DEFINE P == DOMAIN r.parked
    <3>1. IsFiniteSet(P) /\ t \notin P
      BY <1>5, <2>2, Zenon
    <3> HIDE DEF P
    <3>2. Cardinality(P \cup {t}) = Cardinality(P) + 1
      BY <3>1, Zenon DEF LibraryFacts, Counting
    <3> QED
      BY <3>2, Zenon DEF P
  <2>4. Count(q) = a + b + (c + 1) + d /\ Count(r) = a + b + c + d
    BY <1>3, <2>3, Zenon DEF Count
  <2> HIDE DEF a, b, c, d
  <2> QED
    BY <2>1, <2>4
<1> QED
  BY <1>2, <1>6, <1>8, <1>9, <1>10, Zenon DEF Kept

LEMMA SubmitGood ==
  ASSUME LibraryFacts, NEW r, Kept(r), NEW t \in Tests, Absent(r, t), NEW n \in Nat \ {0}, Due(r, t, n)
  PROVE  Handled(r, submit(r, t, n), t)
<1> DEFINE s == request(r.sched, t)
           l == r.sched.next_slot_id
           k == r.sched.next_seq
           q == submit(r, t, n)
           e == [slot |-> l, test |-> t, attempt |-> n]
<1>1. RunType(r) /\ Placed(r) /\ Apart(r) /\ Admits(r.sched) /\ r \in RunFields({r.sched}, {r.parked})
  BY Zenon DEF Kept, RunType
<1>2. CASE rejected(r.sched, t)
  <2>1. q = settle(r, t, "skipped")
    BY <1>2, Zenon DEF submit
  <2> QED
    BY <2>1, SettleGood, EventNames, Zenon
<1>3. ASSUME ~ rejected(r.sched, t) PROVE Handled(r, q, t)
  <2>1. /\ Admits(s)
        /\ \/ /\ Grants(r.sched, s) # {}
              /\ s.leases = Insert(r.sched.leases, l, t)
              /\ l \notin DOMAIN r.sched.leases
              /\ s.queue = r.sched.queue
           \/ /\ Grants(r.sched, s) = {}
              /\ s.leases = r.sched.leases
              /\ s.queue = Insert(r.sched.queue, k, t)
              /\ k \notin DOMAIN r.sched.queue
    BY <1>1, <1>3, RequestFacts, Zenon
  <2>2. CASE Grants(r.sched, s) # {}
    <3>1. /\ s.leases = Insert(r.sched.leases, l, t)
          /\ l \notin DOMAIN r.sched.leases
          /\ s.queue = r.sched.queue
      BY <2>1, <2>2, Zenon
    <3>2. q = [r EXCEPT !.sched = s, !.ready = Append(@, e)]
      BY <1>3, <2>2, ZenonT(60) DEF submit
    <3>3. l \in Nat
      BY <1>1, ZenonT(60) DEF Admits, SchedulerType, Records
    <3>4. e \in Entry /\ e.slot = l /\ e.test = t /\ e.attempt = n
      BY <3>3 DEF Entry
    <3> HIDE DEF s, l, k, q, e
    <3>5. Append(r.ready, e) \in Seq(Entry)
      BY <1>1, <3>4, Fields, GrantedAppend, Zenon
    <3>6. /\ q \in RunFields({s}, {r.parked})
          /\ q.sched = s /\ q.inflight = r.inflight /\ q.parked = r.parked
          /\ q.ready = Append(r.ready, e) /\ q.stats = r.stats /\ q.tripped = r.tripped
          /\ q.events = r.events
      BY <1>1, <3>2, <3>5, Zenon DEF RunFields
    <3>7. RunType(q)
      BY <1>1, <2>1, <3>6, Zenon DEF RunType
    <3>8. /\ DOMAIN s.leases = DOMAIN r.sched.leases \cup {l} /\ s.leases[l] = t
          /\ \A m \in DOMAIN r.sched.leases : s.leases[m] = r.sched.leases[m]
      <4>1. Inserted(s.leases, r.sched.leases, l, t)
        BY <3>1, InsertMakes, Zenon
      <4> QED
        BY <3>1, <4>1, Zenon DEF Inserted
    <3>9. Leased(q.sched, e) /\ \A f \in HeldBy(r) : Leased(q.sched, f)
      BY <1>1, <3>4, <3>6, <3>8, Zenon DEF Leased, Placed
    <3>10. q.sched.queue = r.sched.queue /\ Absent(r, e.test) /\ Due(r, e.test, e.attempt)
      BY <3>1, <3>4, <3>6, Zenon
    <3>11. /\ Kept(q)
           /\ HeldBy(q) = HeldBy(r) \cup {e}
           /\ \A u : Absent(q, u) <=> Absent(r, u) /\ u # e.test
           /\ Count(q) = Count(r) + 1
      BY <3>4, <3>6, <3>7, <3>9, <3>10, ReadyAdd, Zenon
    <3>12. ASSUME NEW lo \in Nat, NEW hi \in Nat, Agree(r, lo, hi) PROVE Agree(q, lo, hi)
      <4>a. q.sched.leases = s.leases /\ q.parked = r.parked /\ q.sched.queue = r.sched.queue
        BY <3>6, <3>10, Zenon
      <4>b. \A m \in lo .. hi - 1 : /\ m \in DOMAIN r.sched.leases
                                    /\ r.sched.leases[m] \in DOMAIN r.parked
                                    /\ \A i \in DOMAIN r.sched.queue : r.sched.queue[i] # r.sched.leases[m]
        BY <3>12, Zenon DEF Agree
      <4>c. \A m \in lo .. hi - 1 : m \in DOMAIN q.sched.leases /\ q.sched.leases[m] = r.sched.leases[m]
        BY <3>8, <4>a, <4>b, Zenon
      <4>1. \A m \in lo .. hi - 1 : /\ m \in DOMAIN q.sched.leases
                                    /\ q.sched.leases[m] \in DOMAIN q.parked
                                    /\ \A i \in DOMAIN q.sched.queue : q.sched.queue[i] # q.sched.leases[m]
        BY <4>a, <4>b, <4>c, Zenon
      <4>2. \A m, o \in lo .. hi - 1 : q.sched.leases[m] = q.sched.leases[o] => m = o
        BY <3>12, <4>c, Zenon DEF Agree
      <4>3. \A m \in DOMAIN q.sched.leases : m \in lo .. hi - 1 \/ \E f \in HeldBy(q) : f.slot = m
        <5>1. e \in HeldBy(q) /\ e.slot = l /\ HeldBy(r) \subseteq HeldBy(q)
          BY <3>4, <3>11, Zenon
        <5>2. \A m \in DOMAIN r.sched.leases : m \in lo .. hi - 1 \/ \E f \in HeldBy(r) : f.slot = m
          BY <3>12, Zenon DEF Agree
        <5> QED
          BY <3>8, <4>a, <5>1, <5>2, Zenon
      <4>4. \A u \in DOMAIN q.parked : \/ \E i \in DOMAIN q.sched.queue : q.sched.queue[i] = u
                                       \/ \E m \in lo .. hi - 1 : q.sched.leases[m] = u
        <5>1. \A u \in DOMAIN r.parked : \/ \E i \in DOMAIN r.sched.queue : r.sched.queue[i] = u
                                         \/ \E m \in lo .. hi - 1 : r.sched.leases[m] = u
          BY <3>12, Zenon DEF Agree
        <5> QED
          BY <4>a, <4>c, <5>1, Zenon
      <4> QED
        BY <4>1, <4>2, <4>3, <4>4, Zenon DEF Agree
    <3>13. \A u : Attempts(q, u) = Attempts(r, u)
      BY <3>6, SameEvents, Zenon
    <3>14. ~ Absent(q, t)
      BY <3>4, <3>11, Zenon
    <3>15. \A lo, hi \in Nat : Agree(r, lo, hi) => Agree(q, lo, hi)
      BY <3>12, Zenon
    <3>16. \A u \in Tests \ {t} : q.events[u] = r.events[u] /\ (Absent(q, u) <=> Absent(r, u))
      BY <3>4, <3>6, <3>11, Zenon
    <3> QED
      BY <3>6, <3>11, <3>13, <3>14, <3>15, <3>16, Zenon DEF Handled
  <2>3. CASE Grants(r.sched, s) = {}
    <3>1. /\ s.leases = r.sched.leases
          /\ s.queue = Insert(r.sched.queue, k, t)
          /\ k \notin DOMAIN r.sched.queue
      BY <2>1, <2>3, Zenon
    <3>2. q = [r EXCEPT !.sched = s, !.parked = Insert(@, t, n)]
      BY <1>3, <2>3, Zenon DEF submit
    <3> DEFINE p == Insert(r.parked, t, n)
    <3> HIDE DEF s, l, k, q, e
    <3>3. /\ DOMAIN p = DOMAIN r.parked \cup {t} /\ p[t] = n
          /\ \A u \in DOMAIN r.parked : u # t => p[u] = r.parked[u]
      <4>1. Inserted(p, r.parked, t, n)
        BY InsertMakes, Zenon
      <4> HIDE DEF p
      <4> QED
        BY <4>1, Zenon DEF Inserted
    <3>4. r.parked \in [DOMAIN r.parked -> Nat \ {0}] /\ DOMAIN r.parked \subseteq Tests
          /\ IsFiniteSet(DOMAIN r.parked)
      BY <1>1, Zenon DEF RunType
    <3>5. p \in [DOMAIN p -> Nat \ {0}]
      BY <3>4 DEF Insert
    <3>6. IsFiniteSet(DOMAIN p)
      <4> DEFINE P == DOMAIN r.parked
      <4>1. IsFiniteSet(P)
        BY <3>4
      <4> HIDE DEF P
      <4>2. IsFiniteSet(P \cup {t})
        BY <4>1, SMTT(30) DEF LibraryFacts, Counting
      <4> QED
        BY <3>3, <4>2, Zenon DEF P
    <3>7. q = [r EXCEPT !.sched = s, !.parked = p]
      BY <3>2, Zenon
    <3> HIDE DEF p
    <3>8. /\ q \in RunFields({s}, {p})
          /\ q.sched = s /\ q.inflight = r.inflight /\ q.parked = p
          /\ q.ready = r.ready /\ q.stats = r.stats /\ q.tripped = r.tripped
          /\ q.events = r.events
      BY <1>1, <3>7, Zenon DEF RunFields
    <3>9. DOMAIN p \subseteq Tests
      BY <3>3, <3>4, Zenon
    <3>10. RunType(q)
      BY <1>1, <2>1, <3>5, <3>6, <3>8, <3>9, Zenon DEF RunType
    <3>11. /\ q.parked = Insert(r.parked, t, n)
           /\ q.sched.leases = r.sched.leases /\ q.sched.queue = Insert(r.sched.queue, k, t)
      BY <3>1, <3>8, Zenon DEF p
    <3>12. /\ Kept(q)
           /\ HeldBy(q) = HeldBy(r)
           /\ \A u : Absent(q, u) <=> Absent(r, u) /\ u # t
           /\ Count(q) = Count(r) + 1
      BY <3>1, <3>8, <3>10, <3>11, ParkAdd, Zenon
    <3>13. /\ DOMAIN q.sched.queue = DOMAIN r.sched.queue \cup {k} /\ q.sched.queue[k] = t
           /\ \A i \in DOMAIN r.sched.queue : q.sched.queue[i] = r.sched.queue[i]
      <4>1. Inserted(q.sched.queue, r.sched.queue, k, t)
        BY <3>11, InsertMakes, Zenon
      <4> QED
        BY <3>1, <4>1, Zenon DEF Inserted
    <3>14. t \notin DOMAIN r.parked
      BY Zenon DEF Absent
    <3>15. ASSUME NEW lo \in Nat, NEW hi \in Nat, Agree(r, lo, hi) PROVE Agree(q, lo, hi)
      <4>1. \A m \in lo .. hi - 1 : /\ m \in DOMAIN q.sched.leases
                                    /\ q.sched.leases[m] \in DOMAIN q.parked
                                    /\ \A i \in DOMAIN q.sched.queue : q.sched.queue[i] # q.sched.leases[m]
        <5> SUFFICES ASSUME NEW m \in lo .. hi - 1
                     PROVE  /\ m \in DOMAIN q.sched.leases
                            /\ q.sched.leases[m] \in DOMAIN q.parked
                            /\ \A i \in DOMAIN q.sched.queue : q.sched.queue[i] # q.sched.leases[m]
          BY Zenon
        <5>1. /\ m \in DOMAIN r.sched.leases /\ r.sched.leases[m] \in DOMAIN r.parked
              /\ \A i \in DOMAIN r.sched.queue : r.sched.queue[i] # r.sched.leases[m]
          BY <3>15, Zenon DEF Agree
        <5> QED
          BY <3>3, <3>8, <3>11, <3>13, <3>14, <5>1, Zenon
      <4>2. \A m, o \in lo .. hi - 1 : q.sched.leases[m] = q.sched.leases[o] => m = o
        BY <3>11, <3>15, Zenon DEF Agree
      <4>3. \A m \in DOMAIN q.sched.leases : m \in lo .. hi - 1 \/ \E f \in HeldBy(q) : f.slot = m
        BY <3>11, <3>12, <3>15, Zenon DEF Agree
      <4>4. \A u \in DOMAIN q.parked : \/ \E i \in DOMAIN q.sched.queue : q.sched.queue[i] = u
                                       \/ \E m \in lo .. hi - 1 : q.sched.leases[m] = u
        <5>1. \A u \in DOMAIN r.parked : \/ \E i \in DOMAIN r.sched.queue : r.sched.queue[i] = u
                                         \/ \E m \in lo .. hi - 1 : r.sched.leases[m] = u
          BY <3>15, Zenon DEF Agree
        <5>2. q.sched.leases = r.sched.leases
          BY <3>11
        <5>3. DOMAIN q.parked = DOMAIN r.parked \cup {t}
          BY <3>3, <3>8, Zenon
        <5>4. \E i \in DOMAIN q.sched.queue : q.sched.queue[i] = t
          BY <3>13, Zenon
        <5>5. \A i \in DOMAIN r.sched.queue : i \in DOMAIN q.sched.queue /\ q.sched.queue[i] = r.sched.queue[i]
          BY <3>13, Zenon
        <5> QED
          BY <5>1, <5>2, <5>3, <5>4, <5>5, Zenon
      <4> QED
        BY <4>1, <4>2, <4>3, <4>4, Zenon DEF Agree
    <3>16. \A u : Attempts(q, u) = Attempts(r, u)
      BY <3>8, SameEvents, Zenon
    <3>17. ~ Absent(q, t)
      BY <3>12, Zenon
    <3>18. \A lo, hi \in Nat : Agree(r, lo, hi) => Agree(q, lo, hi)
      BY <3>15, Zenon
    <3>19. \A u \in Tests \ {t} : q.events[u] = r.events[u] /\ (Absent(q, u) <=> Absent(r, u))
      BY <3>8, <3>12, Zenon
    <3> QED
      BY <3>8, <3>12, <3>16, <3>17, <3>18, <3>19, Zenon DEF Handled
  <2> QED
    BY <2>2, <2>3, ZenonT(60)
<1> QED
  BY <1>2, <1>3, Zenon

-----------------------------------------------------------------------------
(* Grants are taken: parked tests become ready. *)

LEMMA UnparkGood ==
  ASSUME LibraryFacts, NEW r, Kept(r), NEW t \in DOMAIN r.parked,
         \A i \in DOMAIN r.sched.queue : r.sched.queue[i] # t
  PROVE  LET q == [r EXCEPT !.parked = Remove(@, t)]
         IN  /\ Kept(q) /\ q \in RunFields({r.sched}, {Remove(r.parked, t)})
             /\ q.sched = r.sched /\ q.inflight = r.inflight /\ q.parked = Remove(r.parked, t)
             /\ q.ready = r.ready /\ q.stats = r.stats /\ q.tripped = r.tripped
             /\ q.events = r.events
             /\ HeldBy(q) = HeldBy(r)
             /\ \A u : Absent(q, u) <=> Absent(r, u) \/ u = t
             /\ Count(q) + 1 = Count(r)
<1> DEFINE p == Remove(r.parked, t)
           q == [r EXCEPT !.parked = Remove(@, t)]
<1>1. RunType(r) /\ Placed(r) /\ Apart(r) /\ Admits(r.sched) /\ r \in RunFields({r.sched}, {r.parked})
  BY Zenon DEF Kept, RunType
<1>2. DOMAIN p = DOMAIN r.parked \ {t} /\ \A u \in DOMAIN p : p[u] = r.parked[u]
  BY RemoveIs, Zenon
<1>3. r.parked \in [DOMAIN r.parked -> Nat \ {0}] /\ DOMAIN r.parked \subseteq Tests
      /\ IsFiniteSet(DOMAIN r.parked)
  BY <1>1, Zenon DEF RunType
<1>4. p \in [DOMAIN p -> Nat \ {0}] /\ DOMAIN p \subseteq Tests
  BY <1>3 DEF Remove
<1>5. IsFiniteSet(DOMAIN p) /\ Cardinality(DOMAIN p) + 1 = Cardinality(DOMAIN r.parked)
  <2> DEFINE P == DOMAIN r.parked
  <2>1. IsFiniteSet(P) /\ t \in P /\ DOMAIN p = P \ {t}
    BY <1>2, <1>3, Zenon
  <2> HIDE DEF P, p
  <2>2. IsFiniteSet(P \ {t}) /\ Cardinality(P \ {t}) = Cardinality(P) - 1 /\ Cardinality(P) \in Nat
    BY <2>1, SMTT(30) DEF LibraryFacts, Counting
  <2>3. IsFiniteSet(DOMAIN p) /\ Cardinality(DOMAIN p) + 1 = Cardinality(P)
    BY <2>1, <2>2
  <2> QED
    BY <2>3, Zenon DEF P
<1>6. q = [r EXCEPT !.parked = p]
  OBVIOUS
<1> HIDE DEF p, q
<1>7. /\ q \in RunFields({r.sched}, {p})
      /\ q.sched = r.sched /\ q.inflight = r.inflight /\ q.parked = p
      /\ q.ready = r.ready /\ q.stats = r.stats /\ q.tripped = r.tripped
      /\ q.events = r.events
  BY <1>1, <1>6, Zenon DEF RunFields
<1>8. RunType(q)
  BY <1>1, <1>4, <1>5, <1>7, Zenon DEF RunType
<1>9. HeldBy(q) = HeldBy(r)
  BY <1>7, Zenon DEF HeldBy
<1>10. /\ \A u : ~ Over(q, u) <=> ~ Over(r, u)
       /\ \A u : Attempts(q, u) = Attempts(r, u)
       /\ \A u, n : Due(q, u, n) <=> Due(r, u, n)
  BY <1>7, SameEvents, Zenon
<1>11. Placed(q)
  <2>1. \A f \in HeldBy(q) : Leased(q.sched, f) /\ ~ Over(q, f.test)
    BY <1>1, <1>7, <1>9, <1>10, Zenon DEF Placed
  <2>2. \A f \in q.inflight : f.attempt = Attempts(q, f.test)
    BY <1>1, <1>7, <1>10, Zenon DEF Placed
  <2>3. \A f \in Granted(q.ready) : Due(q, f.test, f.attempt)
    BY <1>1, <1>7, <1>10, Zenon DEF Placed
  <2>4. \A u \in DOMAIN q.parked : Due(q, u, q.parked[u])
    BY <1>1, <1>2, <1>7, <1>10, Zenon DEF Placed
  <2>5. \A i \in DOMAIN q.sched.queue : q.sched.queue[i] \in DOMAIN q.parked
    BY <1>1, <1>2, <1>7, Zenon DEF Placed
  <2> QED
    BY <2>1, <2>2, <2>3, <2>4, <2>5, Zenon DEF Placed
<1>12. Apart(q)
  BY <1>1, <1>2, <1>7, <1>9, Zenon DEF Apart
<1>13. \A e \in HeldBy(r) : e.test # t
  BY <1>1, Zenon DEF Apart
<1>14. \A u : Absent(q, u) <=> Absent(r, u) \/ u = t
  BY <1>2, <1>7, <1>9, <1>13, Zenon DEF Absent
<1>15. Count(q) + 1 = Count(r)
  <2> DEFINE a == finished(r.stats)
             b == Cardinality(r.inflight)
             c == Cardinality(DOMAIN p)
             g == Cardinality(DOMAIN r.parked)
             d == Len(r.ready)
  <2>1. a \in Nat /\ b \in Nat /\ g \in Nat /\ d \in Nat
    BY <1>1, CountType, Zenon
  <2>2. c \in Nat /\ c + 1 = g
    BY <1>5, Zenon DEF LibraryFacts, Counting
  <2>3. Count(q) = a + b + c + d /\ Count(r) = a + b + g + d
    BY <1>7, Zenon DEF Count
  <2> HIDE DEF a, b, c, d, g
  <2> QED
    BY <2>1, <2>2, <2>3
<1> QED
  BY <1>7, <1>8, <1>9, <1>11, <1>12, <1>14, <1>15, Zenon DEF Kept, q, p

Taken(r, q) ==
  /\ Kept(q) /\ q.sched = r.sched /\ q.inflight = r.inflight /\ q.stats = r.stats
  /\ q.tripped = r.tripped /\ q.events = r.events
  /\ Count(q) = Count(r)
  /\ \A u : Absent(q, u) <=> Absent(r, u)

LEMMA TakeGrantGood ==
  ASSUME LibraryFacts, NEW r, Kept(r), NEW l \in Nat, NEW hi \in Nat, l < hi, Agree(r, l, hi)
  PROVE  Taken(r, take_grant(r, l)) /\ Agree(take_grant(r, l), l + 1, hi)
<1> DEFINE t == r.sched.leases[l]
           e == [slot |-> l, test |-> t, attempt |-> r.parked[t]]
           p == [r EXCEPT !.parked = Remove(@, t)]
           q == take_grant(r, l)
<1>1. /\ l .. hi - 1 = {l} \cup ((l + 1) .. hi - 1)
      /\ l \notin (l + 1) .. hi - 1
  OBVIOUS
<1>2. /\ l \in DOMAIN r.sched.leases /\ t \in DOMAIN r.parked
      /\ \A i \in DOMAIN r.sched.queue : r.sched.queue[i] # t
  BY <1>1, Zenon DEF Agree
<1>3. q = [r EXCEPT !.ready = Append(@, e), !.parked = Remove(@, t)]
  BY <1>2, Zenon DEF take_grant
<1>4. /\ Kept(p) /\ p \in RunFields({r.sched}, {Remove(r.parked, t)})
      /\ p.sched = r.sched /\ p.inflight = r.inflight /\ p.parked = Remove(r.parked, t)
      /\ p.ready = r.ready /\ p.stats = r.stats /\ p.tripped = r.tripped
      /\ p.events = r.events
      /\ HeldBy(p) = HeldBy(r)
      /\ \A u : Absent(p, u) <=> Absent(r, u) \/ u = t
      /\ Count(p) + 1 = Count(r)
  BY <1>2, UnparkGood, ZenonT(60)
<1>5. RunType(r) /\ Placed(r) /\ r \in RunFields({r.sched}, {r.parked})
  BY Zenon DEF Kept, RunType
<1>6. t \in Tests /\ r.parked[t] \in Nat \ {0}
  BY <1>2, <1>5, Zenon DEF RunType
<1>7. e \in Entry /\ e.slot = l /\ e.test = t /\ e.attempt = r.parked[t]
  BY <1>6 DEF Entry
<1> HIDE DEF e, q, p
<1>8. Append(r.ready, e) \in Seq(Entry)
  BY <1>5, <1>7, Fields, GrantedAppend, Zenon
<1>9. /\ q \in RunFields({r.sched}, {Remove(r.parked, t)})
      /\ q.sched = r.sched /\ q.inflight = r.inflight /\ q.parked = Remove(r.parked, t)
      /\ q.ready = Append(r.ready, e) /\ q.stats = r.stats /\ q.tripped = r.tripped
      /\ q.events = r.events
  <2> DEFINE m == Remove(r.parked, t)
  <2>1. q = [r EXCEPT !.ready = Append(@, e), !.parked = m]
    BY <1>3, Zenon
  <2> HIDE DEF m
  <2>2. /\ q \in RunFields({r.sched}, {m})
        /\ q.sched = r.sched /\ q.inflight = r.inflight /\ q.parked = m
        /\ q.ready = Append(r.ready, e) /\ q.stats = r.stats /\ q.tripped = r.tripped
        /\ q.events = r.events
    BY <1>5, <1>8, <2>1, Zenon DEF RunFields
  <2> QED
    BY <2>2, Zenon DEF m
<1>10. RunType(p)
  BY <1>4, Zenon DEF Kept
<1>11. RunType(q)
  BY <1>4, <1>9, <1>10, Zenon DEF RunType
<1>12. Due(p, e.test, e.attempt)
  <2>1. Due(r, t, r.parked[t])
    BY <1>2, <1>5, Zenon DEF Placed
  <2> QED
    BY <1>4, <1>7, <2>1, SameEvents, Zenon
<1>13. Absent(p, e.test)
  BY <1>4, <1>7, Zenon
<1>14. Leased(q.sched, e) /\ \A f \in HeldBy(p) : Leased(q.sched, f)
  BY <1>2, <1>4, <1>5, <1>7, <1>9, Zenon DEF Leased, Placed
<1>15. /\ q.inflight = p.inflight /\ q.parked = p.parked /\ q.ready = Append(p.ready, e)
       /\ q.stats = p.stats /\ q.events = p.events /\ q.sched.queue = p.sched.queue
  BY <1>4, <1>9, Zenon
<1>16. /\ Kept(q)
       /\ HeldBy(q) = HeldBy(p) \cup {e}
       /\ \A u : Absent(q, u) <=> Absent(p, u) /\ u # e.test
       /\ Count(q) = Count(p) + 1
  BY <1>4, <1>7, <1>11, <1>12, <1>13, <1>14, <1>15, ReadyAdd, Zenon
<1>17. Count(q) = Count(r)
  BY <1>4, <1>16, Zenon
<1>18. \A u : Absent(q, u) <=> Absent(r, u)
  <2>1. ~ Absent(r, t)
    BY <1>2, Zenon DEF Absent
  <2> QED
    BY <1>4, <1>7, <1>16, <2>1, Zenon
<1>19. Agree(q, l + 1, hi)
  <2>1. DOMAIN q.parked = DOMAIN r.parked \ {t}
    <3>1. q.parked = Remove(r.parked, t)
      BY <1>9
    <3> QED
      BY <3>1 DEF Remove
  <2>2. \A m \in (l + 1) .. hi - 1 : r.sched.leases[m] # t
    BY <1>1, Zenon DEF Agree
  <2>3. \A m \in (l + 1) .. hi - 1 :
           /\ m \in DOMAIN q.sched.leases
           /\ q.sched.leases[m] \in DOMAIN q.parked
           /\ \A i \in DOMAIN q.sched.queue : q.sched.queue[i] # q.sched.leases[m]
    <3>1. \A m \in (l + 1) .. hi - 1 :
             /\ m \in DOMAIN r.sched.leases
             /\ r.sched.leases[m] \in DOMAIN r.parked
             /\ \A i \in DOMAIN r.sched.queue : r.sched.queue[i] # r.sched.leases[m]
      BY <1>1, Zenon DEF Agree
    <3>2. q.sched = r.sched
      BY <1>9
    <3>3. \A m \in (l + 1) .. hi - 1 : r.sched.leases[m] \in DOMAIN q.parked
      BY <2>1, <2>2, <3>1, Zenon
    <3> QED
      BY <3>1, <3>2, <3>3, Zenon
  <2>4. \A m, o \in (l + 1) .. hi - 1 : q.sched.leases[m] = q.sched.leases[o] => m = o
    BY <1>1, <1>9, Zenon DEF Agree
  <2>5. \A m \in DOMAIN q.sched.leases : m \in (l + 1) .. hi - 1 \/ \E f \in HeldBy(q) : f.slot = m
    <3>1. \A m \in DOMAIN r.sched.leases : m \in l .. hi - 1 \/ \E f \in HeldBy(r) : f.slot = m
      BY Zenon DEF Agree
    <3>2. HeldBy(q) = HeldBy(r) \cup {e} /\ e.slot = l
      BY <1>4, <1>7, <1>16, Zenon
    <3>3. q.sched = r.sched
      BY <1>9
    <3> QED
      BY <1>1, <3>1, <3>2, <3>3, Zenon
  <2>6. \A u \in DOMAIN q.parked : \/ \E i \in DOMAIN q.sched.queue : q.sched.queue[i] = u
                                   \/ \E m \in (l + 1) .. hi - 1 : q.sched.leases[m] = u
    <3>1. \A u \in DOMAIN r.parked : \/ \E i \in DOMAIN r.sched.queue : r.sched.queue[i] = u
                                     \/ \E m \in l .. hi - 1 : r.sched.leases[m] = u
      BY Zenon DEF Agree
    <3>2. q.sched = r.sched
      BY <1>9
    <3>3. \A u \in DOMAIN q.parked : u \in DOMAIN r.parked /\ u # t
      BY <2>1, Zenon
    <3>4. \A u \in DOMAIN q.parked : \/ \E i \in DOMAIN r.sched.queue : r.sched.queue[i] = u
                                     \/ \E m \in (l + 1) .. hi - 1 : r.sched.leases[m] = u
      <4> HIDE DEF t
      <4>1. t = r.sched.leases[l]
        BY DEF t
      <4> QED
        BY <1>1, <3>1, <3>3, <4>1, Zenon
    <3> QED
      BY <3>2, <3>4, Zenon
  <2> QED
    BY <2>3, <2>4, <2>5, <2>6, Zenon DEF Agree
<1> QED
  BY <1>9, <1>16, <1>17, <1>18, <1>19, Zenon DEF Taken, q

IsTaking(f, r, lo, n) ==
  f = [i \in 0 .. n |-> IF i = 0 THEN r ELSE take_grant(f[i - 1], lo + i - 1)]

LEMMA TakingExists ==
  ASSUME LibraryFacts, NEW r, NEW lo \in Nat, NEW n \in Nat
  PROVE  \E f : IsTaking(f, r, lo, n)
<1> DEFINE A == {m \in Nat : \E f : IsTaking(f, r, lo, m)}
<1>1. 0 \in A
  <2> DEFINE f == [i \in 0 .. 0 |-> r]
  <2>1. IsTaking(f, r, lo, 0)
    BY DEF IsTaking
  <2> QED
    BY <2>1
<1>2. ASSUME NEW m \in 0 .. n - 1, m \in A PROVE m + 1 \in A
  <2>1. PICK f : IsTaking(f, r, lo, m)
    BY <1>2
  <2> DEFINE g == [i \in 0 .. m + 1 |-> IF i = m + 1 THEN take_grant(f[m], lo + (m + 1) - 1) ELSE f[i]]
  <2>2. IsTaking(g, r, lo, m + 1)
    <3>1. \A i \in 0 .. m : f[i] = IF i = 0 THEN r ELSE take_grant(f[i - 1], lo + i - 1)
      BY <2>1 DEF IsTaking
    <3>2. ASSUME NEW i \in 0 .. m + 1
          PROVE  g[i] = IF i = 0 THEN r ELSE take_grant(g[i - 1], lo + i - 1)
      <4>1. m \in Nat /\ m + 1 \in 0 .. m + 1 /\ m \in 0 .. m + 1 /\ m # m + 1 /\ (m + 1) - 1 = m
        OBVIOUS
      <4>2. CASE i = m + 1
        <5>1. g[m + 1] = take_grant(f[m], lo + (m + 1) - 1) /\ g[m] = f[m] /\ m + 1 # 0
          BY <4>1
        <5> QED
          BY <4>1, <4>2, <5>1
      <4>3. CASE i # m + 1
        <5>1. i \in 0 .. m /\ (i # 0 => i - 1 \in 0 .. m + 1 /\ i - 1 # m + 1)
          BY <4>3
        <5>2. g[i] = f[i] /\ (i # 0 => g[i - 1] = f[i - 1])
          BY <4>3, <5>1
        <5> HIDE DEF g
        <5> QED
          BY <3>1, <5>1, <5>2
      <4> QED
        BY <4>2, <4>3
    <3> QED
      BY <3>2, Zenon DEF IsTaking
  <2> QED
    BY <2>2
<1>3. \A i \in 0 .. n : i \in A
  <2> HIDE DEF A
  <2> QED BY <1>1, <1>2, IntervalInduction
<1> QED
  BY <1>3

Takes(f, r, lo, n) == f[0] = r /\ \A i \in 0 .. n - 1 : f[i + 1] = take_grant(f[i], lo + i)

LEMMA Taking ==
  ASSUME LibraryFacts, NEW r, NEW lo \in Nat, NEW hi \in Nat, lo <= hi
  PROVE  \E f : Takes(f, r, lo, hi - lo) /\ take_grants(r, lo, hi) = f[hi - lo]
<1> DEFINE f == CHOOSE f : IsTaking(f, r, lo, hi - lo)
<1>1. hi - lo \in Nat
  OBVIOUS
<1>2. IsTaking(f, r, lo, hi - lo)
  BY <1>1, TakingExists, Zenon
<1>3. take_grants(r, lo, hi) = f[hi - lo]
  BY DEF take_grants, IsTaking
<1> HIDE DEF f
<1>4. f[0] = r /\ \A i \in 0 .. (hi - lo) - 1 : f[i + 1] = take_grant(f[i], lo + (i + 1) - 1)
  BY <1>1, <1>2 DEF IsTaking
<1>5. \A i \in 0 .. (hi - lo) - 1 : lo + (i + 1) - 1 = lo + i
  OBVIOUS
<1>6. \A i \in 0 .. (hi - lo) - 1 : f[i + 1] = take_grant(f[i], lo + i)
  BY <1>4, <1>5, Zenon
<1> QED
  BY <1>3, <1>4, <1>6, Zenon DEF Takes

(* The loop takes every grant of a call, and agrees with the core again.   *)
LEMMA TakeGrantsGood ==
  ASSUME LibraryFacts, NEW r, Kept(r), NEW lo \in Nat, NEW hi \in Nat, lo <= hi, Agree(r, lo, hi)
  PROVE  Taken(r, take_grants(r, lo, hi)) /\ Agree(take_grants(r, lo, hi), 0, 0)
<1> DEFINE n == hi - lo
<1>1. n \in Nat /\ lo + n = hi
  OBVIOUS
<1>0. PICK f : Takes(f, r, lo, n) /\ take_grants(r, lo, hi) = f[n]
  BY Taking, Zenon
<1>2. /\ f[0] = r
      /\ \A i \in 0 .. n - 1 : f[i + 1] = take_grant(f[i], lo + i)
      /\ take_grants(r, lo, hi) = f[n]
  BY <1>0, Zenon DEF Takes
<1> DEFINE A == {i \in 0 .. n : Taken(r, f[i]) /\ Agree(f[i], lo + i, hi)}
<1> HIDE DEF n
<1>3. 0 \in A
  <2>1. Taken(r, r)
    BY Zenon DEF Taken
  <2>2. lo + 0 = lo /\ 0 \in 0 .. n
    BY <1>1
  <2> QED
    BY <1>2, <2>1, <2>2, Zenon
<1>4. ASSUME NEW i \in 0 .. n - 1, i \in A PROVE i + 1 \in A
  <2>1. Taken(r, f[i]) /\ Agree(f[i], lo + i, hi)
    BY <1>4, Zenon
  <2>2. Kept(f[i])
    BY <2>1, Zenon DEF Taken
  <2>3. lo + i \in Nat /\ lo + i < hi /\ (lo + i) + 1 = lo + (i + 1) /\ i + 1 \in 0 .. n
    BY <1>1
  <2>4. Taken(f[i], f[i + 1]) /\ Agree(f[i + 1], (lo + i) + 1, hi)
    BY <1>2, <2>1, <2>2, <2>3, TakeGrantGood, Zenon
  <2>5. Taken(r, f[i + 1])
    BY <2>1, <2>4, Zenon DEF Taken
  <2> QED
    BY <2>3, <2>4, <2>5, Zenon
<1>5. \A i \in 0 .. n : i \in A
  <2> HIDE DEF A
  <2> QED BY <1>1, <1>3, <1>4, IntervalInduction
<1>6. Taken(r, f[n]) /\ Agree(f[n], hi, hi)
  <2>1. n \in 0 .. n
    BY <1>1
  <2> QED
    BY <1>1, <1>5, <2>1, Zenon
<1>7. hi .. hi - 1 = 0 .. 0 - 1
  OBVIOUS
<1>8. Agree(f[n], 0, 0)
  BY <1>6, <1>7, Zenon DEF Agree
<1> QED
  BY <1>2, <1>6, <1>8, Zenon

-----------------------------------------------------------------------------
(* Ready tests are started. *)

Flies(r, t) == \E e \in r.inflight : e.test = t

Launch(r, q, t) ==
  /\ ~ Over(r, t) /\ ~ Flies(r, t) /\ Attempts(r, t) <= Retries[t]
  /\ Attempts(q, t) = Attempts(r, t) + 1 /\ ~ Over(q, t) /\ Flies(q, t)

AsBefore(r, q, t) ==
  Attempts(q, t) = Attempts(r, t) /\ (Over(q, t) <=> Over(r, t)) /\ (Flies(q, t) <=> Flies(r, t))

(* From r to q, tests have started, each at most once.                     *)
Spawned(r, q) ==
  /\ Kept(q) /\ q.sched = r.sched /\ q.parked = r.parked /\ q.stats = r.stats
  /\ q.tripped = r.tripped
  /\ HeldBy(q) = HeldBy(r) /\ Count(q) = Count(r)
  /\ \A t \in Tests : AsBefore(r, q, t) \/ Launch(r, q, t)

LEMMA SpawnGood ==
  ASSUME LibraryFacts, NEW r, Kept(r), r.ready # <<>>
  PROVE  LET q == spawn_granted(r)
         IN  /\ Spawned(r, q)
             /\ Cardinality(q.inflight) = Cardinality(r.inflight) + 1
             /\ Len(q.ready) = Len(r.ready) - 1
             /\ \A t \in Tests : Flies(r, t) => AsBefore(r, q, t)
<1> DEFINE e == Head(r.ready)
           p == emit(r, e.test, "started")
           q == spawn_granted(r)
           infl == r.inflight \cup {e}
           rest == Tail(r.ready)
<1>1. RunType(r) /\ Placed(r) /\ Apart(r)
  BY Zenon DEF Kept
<1>2. r.ready \in Seq(Entry) /\ TestsApart(r.ready) /\ r.inflight \in SUBSET Entry
  BY <1>1, Fields, Zenon DEF Apart
<1>3. /\ rest \in Seq(Entry) /\ Len(rest) = Len(r.ready) - 1
      /\ e \in Granted(r.ready)
      /\ Granted(rest) = Granted(r.ready) \ {e}
      /\ \A x \in Granted(rest) : x.test # e.test
      /\ TestsApart(rest)
  BY <1>2, GrantedTail, Zenon
<1>4. e \in HeldBy(r)
  BY <1>3, Zenon DEF HeldBy
<1>5. e \in Entry /\ e.test \in Tests
  BY <1>1, <1>4, Fields, Zenon
<1>6. /\ RunType(p)
      /\ p.sched = r.sched /\ p.inflight = r.inflight
      /\ p.parked = r.parked /\ p.ready = r.ready
      /\ p.stats = r.stats /\ p.tripped = r.tripped
      /\ p.events = Logged(r, e.test, "started")
  BY <1>1, <1>5, EventNames, EmitFacts, Zenon
<1>7. q = [p EXCEPT !.ready = rest, !.inflight = infl]
  BY <1>6, Zenon DEF spawn_granted
<1>8. p \in RunFields({r.sched}, {r.parked})
  BY <1>6, Zenon DEF RunType
<1> HIDE DEF e, p, q, rest
<1>9. infl \in SUBSET Entry
  BY <1>2, <1>5, Zenon
<1>10. /\ q \in RunFields({r.sched}, {r.parked})
       /\ q.sched = r.sched /\ q.inflight = infl /\ q.parked = r.parked
       /\ q.ready = rest /\ q.stats = r.stats /\ q.tripped = r.tripped
       /\ q.events = Logged(r, e.test, "started")
  <2> HIDE DEF infl
  <2>1. /\ q \in RunFields({r.sched}, {r.parked})
        /\ q.sched = p.sched /\ q.inflight = infl /\ q.parked = p.parked
        /\ q.ready = rest /\ q.stats = p.stats /\ q.tripped = p.tripped
        /\ q.events = p.events
    BY <1>3, <1>7, <1>8, <1>9, Zenon DEF RunFields
  <2> QED
    BY <1>6, <2>1, Zenon
<1>11. e \notin r.inflight
  BY <1>1, <1>3, Zenon DEF Apart
<1>12. IsFiniteSet(infl) /\ Cardinality(infl) = Cardinality(r.inflight) + 1
  <2> DEFINE F == r.inflight
  <2>1. IsFiniteSet(F) /\ e \notin F
    BY <1>1, <1>11, Zenon DEF RunType
  <2> HIDE DEF F
  <2>2. IsFiniteSet(F \cup {e}) /\ Cardinality(F \cup {e}) = Cardinality(F) + 1
    BY <2>1, SMTT(30) DEF LibraryFacts, Counting
  <2> QED
    BY <2>2, Zenon DEF F
<1>13. RunType(q)
  BY <1>1, <1>10, <1>12, Zenon DEF RunType
<1>14. HeldBy(q) = HeldBy(r)
  BY <1>3, <1>10, Zenon DEF HeldBy
<1>15. /\ \A u \in Tests \ {e.test} : Attempts(q, u) = Attempts(r, u) /\ (Over(q, u) <=> Over(r, u))
       /\ Attempts(q, e.test) = Attempts(r, e.test) + 1
       /\ Over(q, e.test) <=> Over(r, e.test)
  <2>1. Written(r, q, e.test, "started")
    BY <1>1, <1>5, <1>10, EventNames, EventsFacts, Zenon
  <2> QED
    BY <2>1, EventNames, Zenon DEF Written
<1>16. Due(r, e.test, e.attempt)
  BY <1>1, <1>3, Zenon DEF Placed
<1>17. \A u \in Tests \ {e.test} : \A n : Due(q, u, n) <=> Due(r, u, n)
  BY <1>15, Zenon DEF Due
<1>18. /\ \A f \in HeldBy(r) : f.test \in Tests
       /\ \A u \in DOMAIN r.parked : u \in Tests \ {e.test}
       /\ \A f \in r.inflight : f.test \in Tests \ {e.test}
  <2>1. \A f \in HeldBy(r) : f.test \in Tests
    BY <1>1, Fields, Zenon
  <2>2. \A u \in DOMAIN r.parked : u \in Tests \ {e.test}
    BY <1>1, <1>4, Fields, Zenon DEF Apart
  <2>3. r.inflight \subseteq HeldBy(r)
    BY Zenon DEF HeldBy
  <2>4. \A f \in r.inflight : f.test # e.test
    BY <1>1, <1>4, <1>11, <2>3, Zenon DEF Apart
  <2> QED
    BY <2>1, <2>2, <2>3, <2>4, Zenon
<1>19. Placed(q)
  <2>1. \A f \in HeldBy(q) : Leased(q.sched, f) /\ ~ Over(q, f.test)
    BY <1>1, <1>10, <1>14, <1>15, <1>18, Zenon DEF Placed
  <2>2. \A f \in q.inflight : f.attempt = Attempts(q, f.test)
    <3>1. e.attempt = Attempts(q, e.test)
      BY <1>15, <1>16, Zenon DEF Due
    <3> QED
      BY <1>1, <1>10, <1>15, <1>18, <3>1, Zenon DEF Placed
  <2>3. \A f \in Granted(q.ready) : Due(q, f.test, f.attempt)
    <3>1. \A f \in Granted(rest) : f \in Granted(r.ready) /\ f.test # e.test /\ f \in HeldBy(r)
      BY <1>3, Zenon DEF HeldBy
    <3> QED
      BY <1>1, <1>10, <1>17, <1>18, <3>1, Zenon DEF Placed
  <2>4. \A u \in DOMAIN q.parked : Due(q, u, q.parked[u])
    BY <1>1, <1>10, <1>17, <1>18, Zenon DEF Placed
  <2>5. \A i \in DOMAIN q.sched.queue : q.sched.queue[i] \in DOMAIN q.parked
    BY <1>1, <1>10, Zenon DEF Placed
  <2> QED
    BY <2>1, <2>2, <2>3, <2>4, <2>5, Zenon DEF Placed
<1>20. Apart(q)
  <2>1. \A f \in q.inflight : f \notin Granted(q.ready)
    BY <1>1, <1>3, <1>10, Zenon DEF Apart
  <2> QED
    BY <1>1, <1>3, <1>10, <1>14, <2>1, Zenon DEF Apart
<1>21. Count(q) = Count(r)
  <2> DEFINE a == finished(r.stats)
             b == Cardinality(r.inflight)
             c == Cardinality(DOMAIN r.parked)
             d == Len(r.ready)
  <2>1. a \in Nat /\ b \in Nat /\ c \in Nat /\ d \in Nat
    BY <1>1, CountType, Zenon
  <2>2. Count(q) = a + (b + 1) + c + (d - 1) /\ Count(r) = a + b + c + d
    BY <1>3, <1>10, <1>12, Zenon DEF Count
  <2> HIDE DEF a, b, c, d
  <2> QED
    BY <2>1, <2>2
<1>22. ~ Flies(r, e.test)
  BY <1>18, Zenon DEF Flies
<1>23. Launch(r, q, e.test)
  <2>1. Flies(q, e.test)
    BY <1>10, Zenon DEF Flies
  <2> QED
    BY <1>15, <1>16, <1>22, <2>1, Zenon DEF Launch, Due
<1>24. \A t \in Tests \ {e.test} : AsBefore(r, q, t)
  <2>1. \A t \in Tests \ {e.test} : Flies(q, t) <=> Flies(r, t)
    BY <1>10, Zenon DEF Flies
  <2> QED
    BY <1>15, <2>1, Zenon DEF AsBefore
<1>25. \A t \in Tests : AsBefore(r, q, t) \/ Launch(r, q, t)
  BY <1>23, <1>24, Zenon
<1>26. \A t \in Tests : Flies(r, t) => AsBefore(r, q, t)
  BY <1>22, <1>24, Zenon
<1>27. Spawned(r, q)
  BY <1>10, <1>13, <1>14, <1>19, <1>20, <1>21, <1>25, Zenon DEF Spawned, Kept
<1> QED
  BY <1>3, <1>10, <1>12, <1>26, <1>27, Zenon DEF q

LEMMA SpawnedNext ==
  ASSUME NEW r, NEW p, Spawned(r, p), NEW q, Spawned(p, q),
         \A t \in Tests : Flies(p, t) => AsBefore(p, q, t)
  PROVE  Spawned(r, q)
<1>1. ASSUME NEW t \in Tests PROVE AsBefore(r, q, t) \/ Launch(r, q, t)
  <2>1. CASE AsBefore(r, p, t) /\ AsBefore(p, q, t)
    BY <2>1, Zenon DEF AsBefore
  <2>2. CASE AsBefore(r, p, t) /\ Launch(p, q, t)
    BY <2>2, Zenon DEF AsBefore, Launch
  <2>3. CASE Launch(r, p, t) /\ AsBefore(p, q, t)
    BY <2>3, Zenon DEF AsBefore, Launch
  <2>4. CASE Launch(r, p, t) /\ Launch(p, q, t)
    BY <2>4, Zenon DEF Launch
  <2> QED
    BY <2>1, <2>2, <2>3, <2>4, Zenon DEF Spawned
<1> QED
  BY <1>1, Zenon DEF Spawned

LEMMA SpawnedNone ==
  ASSUME NEW r, Kept(r)
  PROVE  Spawned(r, r)
BY Zenon DEF Spawned, AsBefore

IsSpawning(f, r, n) ==
  f = [i \in 0 .. n |-> IF i = 0 THEN r ELSE spawn_granted(f[i - 1])]

LEMMA SpawningExists ==
  ASSUME LibraryFacts, NEW r, NEW n \in Nat
  PROVE  \E f : IsSpawning(f, r, n)
<1> DEFINE A == {m \in Nat : \E f : IsSpawning(f, r, m)}
<1>1. 0 \in A
  <2> DEFINE f == [i \in 0 .. 0 |-> r]
  <2>1. IsSpawning(f, r, 0)
    BY DEF IsSpawning
  <2> QED
    BY <2>1
<1>2. ASSUME NEW m \in 0 .. n - 1, m \in A PROVE m + 1 \in A
  <2>1. PICK f : IsSpawning(f, r, m)
    BY <1>2
  <2> DEFINE g == [i \in 0 .. m + 1 |-> IF i = m + 1 THEN spawn_granted(f[m]) ELSE f[i]]
  <2>2. IsSpawning(g, r, m + 1)
    <3>1. \A i \in 0 .. m : f[i] = IF i = 0 THEN r ELSE spawn_granted(f[i - 1])
      BY <2>1 DEF IsSpawning
    <3>2. \A i \in 0 .. m + 1 : g[i] = IF i = 0 THEN r ELSE spawn_granted(g[i - 1])
      BY <3>1
    <3> QED
      BY <3>2 DEF IsSpawning
  <2> QED
    BY <2>2
<1>3. \A i \in 0 .. n : i \in A
  <2> HIDE DEF A
  <2> QED BY <1>1, <1>2, IntervalInduction
<1> QED
  BY <1>3

(* pump! leaves nothing ready, or max_inflight tests in flight.            *)
LEMMA PumpGood ==
  ASSUME LibraryFacts, NEW r, Kept(r), cfg.max_inflight \in Nat \ {0},
         Cardinality(r.inflight) <= cfg.max_inflight
  PROVE  /\ Spawned(r, pump(r))
         /\ Cardinality(pump(r).inflight) <= cfg.max_inflight
         /\ pump(r).ready # <<>> => Cardinality(pump(r).inflight) = cfg.max_inflight
<1> DEFINE b == Cardinality(r.inflight)
           d == Len(r.ready)
           m == cfg.max_inflight
           n == IF m - b <= 0 THEN 0 ELSE IF d <= m - b THEN d ELSE m - b
           f == CHOOSE f : IsSpawning(f, r, n)
<1>1. b \in Nat /\ d \in Nat /\ m \in Nat /\ b <= m
  BY CountType, Zenon DEF Kept
<1>2. n \in Nat /\ n <= d /\ b + n <= m /\ (n = d \/ b + n = m)
  <2> HIDE DEF b, d, m
  <2> QED BY <1>1
<1>3. IsSpawning(f, r, n)
  <2> HIDE DEF n
  <2> QED BY <1>2, SpawningExists, Zenon
<1>4. pump(r) = f[n]
  BY DEF pump, IsSpawning
<1> HIDE DEF f, n, b, d, m
<1>5. f[0] = r /\ \A i \in 0 .. n - 1 : f[i + 1] = spawn_granted(f[i])
  BY <1>2, <1>3 DEF IsSpawning
<1> DEFINE A == {i \in 0 .. n : /\ Spawned(r, f[i])
                                /\ Cardinality(f[i].inflight) = b + i
                                /\ Len(f[i].ready) = d - i}
<1>6. 0 \in A
  <2>1. Cardinality(r.inflight) = b + 0 /\ Len(r.ready) = d - 0 /\ 0 \in 0 .. n
    BY <1>1, <1>2 DEF b, d
  <2> QED
    BY <1>5, <2>1, SpawnedNone, Zenon
<1>7. ASSUME NEW i \in 0 .. n - 1, i \in A PROVE i + 1 \in A
  <2>1. Spawned(r, f[i]) /\ Cardinality(f[i].inflight) = b + i /\ Len(f[i].ready) = d - i
    BY <1>7, Zenon
  <2>2. Kept(f[i])
    BY <2>1, Zenon DEF Spawned
  <2>3. i + 1 \in 0 .. n /\ d - i > 0 /\ (b + i) + 1 = b + (i + 1) /\ (d - i) - 1 = d - (i + 1)
    BY <1>1, <1>2
  <2>4. f[i].ready # <<>>
    BY <2>1, <2>3
  <2>5. /\ Spawned(f[i], f[i + 1])
        /\ Cardinality(f[i + 1].inflight) = Cardinality(f[i].inflight) + 1
        /\ Len(f[i + 1].ready) = Len(f[i].ready) - 1
        /\ \A t \in Tests : Flies(f[i], t) => AsBefore(f[i], f[i + 1], t)
    BY <1>5, <2>2, <2>4, SpawnGood, Zenon
  <2>6. Spawned(r, f[i + 1])
    BY <2>1, <2>5, SpawnedNext, Zenon
  <2>7. Cardinality(f[i + 1].inflight) = b + (i + 1) /\ Len(f[i + 1].ready) = d - (i + 1)
    BY <2>1, <2>3, <2>5, Zenon
  <2> QED
    BY <2>3, <2>6, <2>7, Zenon
<1>8. \A i \in 0 .. n : i \in A
  <2> HIDE DEF A
  <2> QED BY <1>2, <1>6, <1>7, IntervalInduction
<1>9. Spawned(r, f[n]) /\ Cardinality(f[n].inflight) = b + n /\ Len(f[n].ready) = d - n
  <2>1. n \in 0 .. n
    BY <1>2
  <2> QED
    BY <1>8, <2>1, Zenon
<1>10. f[n].ready # <<>> => b + n = m
  <2>1. f[n].ready \in Seq(Entry)
    BY <1>9, Fields, Zenon DEF Spawned, Kept
  <2>2. n = d => f[n].ready = <<>>
    BY <1>1, <1>9, <2>1
  <2> QED
    BY <1>2, <2>2, Zenon
<1> QED
  BY <1>2, <1>4, <1>9, <1>10, Zenon DEF m
=============================================================================
