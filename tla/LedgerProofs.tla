---------------------------- MODULE LedgerProofs ----------------------------
(***************************************************************************)
(* Proofs about Ledger, for every set of runs, every cluster and every     *)
(* demand: a run's lease covers what its engine admits, no run's pods      *)
(* exceed its lease, and no run grows into capacity it saw reserved.       *)
(***************************************************************************)
EXTENDS Ledger, TLAPS

Polling == {"sweep", "list", "pods", "write"}
Busy == {"list", "pods", "renew"}

Ledgers == UNION {[S -> Lease] : S \in SUBSET Runs}

(* The maps and their values; of a Demand only what was committed matters. *)
LedgerType ==
    /\ scene \in Scenarios
    /\ foreign \in Amount
    /\ leases \in Ledgers
    /\ live \in [Runs -> Ledgers]
    /\ up \in [Runs -> Amount] /\ kept \in [Runs -> Amount]
    /\ pc \in [Runs -> Polling \cup {"run"} \cup Over]
    /\ task \in [Runs -> {"none", "idle", "sent"} \cup Busy]
    /\ DOMAIN doomed = Runs /\ work \in [Runs -> Nat]
    /\ target \in [Runs -> Amount] /\ prev \in [Runs -> Amount]
    /\ chan \in [Runs -> Amount \cup {None}]
    /\ available \in [Runs -> Amount] /\ committed \in [Runs -> Amount]
    /\ reported \in [Runs -> Demand] /\ borrowed \in [Runs -> Demand]

(* A run that polls has admitted nothing and is not renewed.               *)
PollInv(r) ==
    /\ pc[r] \in Polling =>
          /\ committed[r] = ZERO /\ chan[r] = None /\ reported[r].committed = ZERO
    /\ pc[r] \notin {"run", "dead"} => up[r] = ZERO
    /\ pc[r] = "write" =>
          \A d \in Dims : \/ target[r][d] = 0
                          \/ target[r][d] + sum_reservations(live[r], r)[d] <= Allocatable[d]

(* The engine and the renewal task of a run, and the channel between them. *)
EngineInv(r) ==
    pc[r] = "run" =>
        /\ reported[r].committed = committed[r]
        /\ fits_within(up[r], committed[r])
        /\ chan[r] # None => chan[r] = prev[r] /\ task[r] = "idle"
        /\ chan[r] = None => available[r] = prev[r]
        /\ Want[r] # Elastic =>
              /\ chan[r] = None /\ task[r] \notin {"list", "pods"}
              /\ fits_within(committed[r], prev[r])
              /\ task[r] = "renew" => target[r] = prev[r]
        /\ task[r] \in {"list", "pods"} =>
              fits_within(committed[r], max(borrowed[r].committed, prev[r]))
        /\ task[r] = "renew" =>
              /\ fits_within(committed[r], max(target[r], prev[r]))
              /\ \A d \in Dims :
                    \/ target[r][d] <= prev[r][d]
                    \/ target[r][d] <= borrowed[r].committed[d]
                    \/ target[r][d] + sum_reservations(live[r], r)[d] <= Allocatable[d]

(* What a lease that stands covers.                                        *)
CoverInv(r) ==
    r \in DOMAIN leases =>
        /\ fits_within(up[r], Reserved(r))
        /\ pc[r] = "run" =>
              /\ fits_within(committed[r], Reserved(r))
              /\ fits_within(available[r], Reserved(r))
              /\ fits_within(prev[r], Reserved(r))
              /\ task[r] \in Busy => fits_within(borrowed[r].committed, Reserved(r))

RunInv(r) == PollInv(r) /\ EngineInv(r) /\ CoverInv(r)

Inv == LedgerType /\ \A r \in Runs : RunInv(r)

NothingKept == \A r \in Runs : kept[r] = ZERO

-----------------------------------------------------------------------------
(* Lemmas about amounts.                                                   *)

LEMMA AmountElim ==
    ASSUME NEW a \in Amount, NEW d \in Dims
    PROVE  a[d] \in 0 .. U64Max /\ a[d] \in Nat
  BY ResourcesAssumption DEF Amount

LEMMA ArithType ==
    ASSUME NEW a \in Amount, NEW b \in Amount
    PROVE  /\ saturating_add(a, b) \in Amount
           /\ saturating_sub(a, b) \in Amount
           /\ max(a, b) \in Amount
           /\ min(a, b) \in Amount
           /\ ZERO \in Amount
  BY ResourcesAssumption DEF Amount, saturating_add, saturating_sub, max, min, ZERO

LEMMA ZeroAmount == ZERO \in Amount /\ \A d \in Dims : ZERO[d] = 0
  BY ResourcesAssumption DEF Amount, ZERO

LEMMA ZeroFits == ASSUME NEW b \in Amount PROVE fits_within(ZERO, b)
<1> SUFFICES ASSUME NEW d \in Dims PROVE ZERO[d] <= b[d]
  BY Zenon DEF fits_within
<1>1. ZERO[d] = 0 /\ b[d] \in Nat
  BY ZeroAmount, AmountElim, Zenon
<1> QED
  BY <1>1

(* What the operations do, dimension by dimension.                         *)
LEMMA Arith ==
    ASSUME NEW a \in Amount, NEW b \in Amount, NEW d \in Dims
    PROVE  /\ saturating_sub(a, b)[d] <= a[d]
           /\ saturating_sub(a, b)[d] = 0 \/ saturating_sub(a, b)[d] + b[d] = a[d]
           /\ max(a, b)[d] \in {a[d], b[d]} /\ a[d] <= max(a, b)[d] /\ b[d] <= max(a, b)[d]
           /\ min(a, b)[d] \in {a[d], b[d]} /\ min(a, b)[d] <= a[d] /\ min(a, b)[d] <= b[d]
           /\ saturating_add(a, b)[d] <= a[d] + b[d]
  BY AmountElim, ResourcesAssumption DEF saturating_sub, saturating_add, max, min

LEMMA Fits ==
    ASSUME NEW a \in Amount, NEW b \in Amount
    PROVE  /\ fits_within(saturating_sub(a, b), a)
           /\ fits_within(min(a, b), a) /\ fits_within(min(a, b), b)
           /\ fits_within(a, max(a, b)) /\ fits_within(b, max(a, b))
  BY Arith DEF fits_within

LEMMA FitsTrans ==
    ASSUME NEW a \in Amount, NEW b \in Amount, NEW c \in Amount,
           fits_within(a, b), fits_within(b, c)
    PROVE  fits_within(a, c)
<1> SUFFICES ASSUME NEW d \in Dims PROVE a[d] <= c[d]
  BY Zenon DEF fits_within
<1>1. a[d] \in Nat /\ b[d] \in Nat /\ c[d] \in Nat
  BY AmountElim
<1> QED
  BY <1>1 DEF fits_within

(* A sum saturates, so it is an amount whatever it sums.                   *)
LEMMA TotalType == ASSUME NEW f PROVE total(f) \in Amount
<1> DEFINE s(d) == Sum([x \in DOMAIN f |-> f[x][d]])
<1>1. total(f) = [d \in Dims |-> IF s(d) \in 0 .. U64Max THEN s(d) ELSE U64Max]
  BY DEF total
<1> HIDE DEF s
<1> QED
  BY <1>1, ResourcesAssumption DEF Amount

LEMMA SumType == ASSUME NEW ls, NEW r PROVE sum_reservations(ls, r) \in Amount
  BY TotalType DEF sum_reservations

LEMMA UnreservedType == ASSUME NEW ls, foreign \in Amount PROVE unreserved(ls) \in Amount
  BY TotalType, ArithType DEF unreserved

LEMMA Linear == ASSUME NEW a \in Nat, NEW n \in Nat, NEW b \in Nat PROVE a + n * b \in Nat
  OBVIOUS

LEMMA Chain ==
    ASSUME NEW x \in Nat, NEW a \in Nat, NEW b \in Nat, NEW c \in Nat, NEW m \in Nat,
           x <= a + b, b <= c, a + c <= m
    PROVE  x <= m
  OBVIOUS

LEMMA Quotient == ASSUME NEW a \in Nat, NEW n \in Nat \ {0} PROVE a \div n \in Nat /\ a \div n <= a
  OBVIOUS

(* Ledgers after a write and after a sweep.                                *)
LEMMA InsertType ==
    ASSUME NEW ls \in Ledgers, NEW r \in Runs, NEW l \in Lease
    PROVE  /\ Insert(ls, r, l) \in Ledgers
           /\ DOMAIN Insert(ls, r, l) = DOMAIN ls \cup {r}
           /\ Insert(ls, r, l)[r] = l
           /\ \A x \in DOMAIN ls \ {r} : Insert(ls, r, l)[x] = ls[x]
<1>1. PICK S \in SUBSET Runs : ls \in [S -> Lease]
  BY DEF Ledgers
<1>2. Insert(ls, r, l) \in [S \cup {r} -> Lease]
  BY <1>1 DEF Insert
<1>3. S \cup {r} \in SUBSET Runs
  OBVIOUS
<1>4. Insert(ls, r, l) \in Ledgers
  BY <1>2, <1>3 DEF Ledgers
<1> QED
  BY <1>1, <1>4 DEF Insert

LEMMA RemoveType ==
    ASSUME NEW ls \in Ledgers, NEW D
    PROVE  /\ Remove(ls, D) \in Ledgers
           /\ DOMAIN Remove(ls, D) = DOMAIN ls \ D
           /\ \A x \in DOMAIN ls \ D : Remove(ls, D)[x] = ls[x]
<1>1. PICK S \in SUBSET Runs : ls \in [S -> Lease]
  BY DEF Ledgers
<1>2. Remove(ls, D) \in [S \ D -> Lease]
  BY <1>1 DEF Remove
<1>3. S \ D \in SUBSET Runs
  OBVIOUS
<1>4. Remove(ls, D) \in Ledgers
  BY <1>2, <1>3 DEF Ledgers
<1> QED
  BY <1>1, <1>4 DEF Remove

LEMMA LedgerElim ==
    ASSUME NEW ls \in Ledgers
    PROVE  /\ DOMAIN ls \subseteq Runs
           /\ ls \in [DOMAIN ls -> Lease]
           /\ \A x \in DOMAIN ls : ls[x] \in Lease /\ ls[x].reserve \in Amount
<1>1. PICK S \in SUBSET Runs : ls \in [S -> Lease]
  BY DEF Ledgers
<1>2. ls \in [DOMAIN ls -> Lease] /\ DOMAIN ls \subseteq Runs
  BY <1>1
<1> QED
  BY <1>2 DEF Lease

(* A slice of acquire is free of what the peers were seen to reserve.      *)
LEMMA SliceBound ==
    ASSUME LedgerType, NEW r \in Runs, NEW ls
    PROVE  /\ acquire_slice(r, ls) \in Amount
           /\ \A d \in Dims :
                 \/ acquire_slice(r, ls)[d] = 0
                 \/ acquire_slice(r, ls)[d] + sum_reservations(ls, r)[d] <= Allocatable[d]
<1> DEFINE usable == saturating_sub(Allocatable, unreserved(ls))
           rest == saturating_sub(usable, sum_reservations(ls, r))
<1>1. Allocatable \in Amount /\ Budget[r] \in Amount
  BY LedgerAssumption
<1>2. usable \in Amount /\ \A d \in Dims : usable[d] <= Allocatable[d]
  BY <1>1, UnreservedType, ArithType, Arith DEF LedgerType
<1>3. sum_reservations(ls, r) \in Amount
  BY SumType
<1> HIDE DEF usable
<1>4. rest \in Amount
  BY <1>2, <1>3, ArithType
<1>5. \A d \in Dims : rest[d] = 0 \/ rest[d] + sum_reservations(ls, r)[d] = usable[d]
  BY <1>2, <1>3, Arith, Zenon
<1>6. acquire_slice(r, ls) = min(Budget[r], rest)
  BY DEF acquire_slice, usable
<1> HIDE DEF rest
<1>7. acquire_slice(r, ls) \in Amount
  BY <1>1, <1>4, <1>6, ArithType
<1>8. ASSUME NEW d \in Dims
      PROVE  \/ acquire_slice(r, ls)[d] = 0
             \/ acquire_slice(r, ls)[d] + sum_reservations(ls, r)[d] <= Allocatable[d]
  <2>1. acquire_slice(r, ls)[d] <= rest[d]
    BY <1>1, <1>4, <1>6, Arith
  <2>2. /\ acquire_slice(r, ls)[d] \in Nat /\ rest[d] \in Nat /\ usable[d] \in Nat
        /\ Allocatable[d] \in Nat /\ sum_reservations(ls, r)[d] \in Nat
    BY <1>1, <1>2, <1>3, <1>4, <1>7, AmountElim
  <2> QED
    BY <1>2, <1>5, <2>1, <2>2
<1> QED
  BY <1>7, <1>8

LEMMA ActiveType == ASSUME NEW ls \in Ledgers PROVE active_runs(ls) \in Nat
<1>1. {x \in DOMAIN ls : ~ ls[x].claim} \subseteq Runs
  BY LedgerElim
<1> QED
  BY <1>1, LedgerAssumption DEF active_runs

(* fair_reserve covers what is committed, and takes more only from what    *)
(* the peers were not seen to reserve.                                     *)
LEMMA FairBound ==
    ASSUME LedgerType, NEW r \in Runs, NEW ls \in Ledgers, NEW com \in Amount, NEW dem \in Amount
    PROVE  LET f == fair_reserve(r, ls, com, dem)
           IN  /\ f \in Amount
               /\ fits_within(com, f)
               /\ \A d \in Dims : f[d] <= com[d] \/ f[d] + sum_reservations(ls, r)[d] <= Allocatable[d]
<1> DEFINE n == IF active_runs(ls) = 0 THEN 1 ELSE active_runs(ls)
           usable == saturating_sub(Allocatable, unreserved(ls))
           fair == [d \in Dims |-> usable[d] \div n]
           want == min(min(dem, fair), Budget[r])
           rest == saturating_sub(usable, sum_reservations(ls, r))
           f == fair_reserve(r, ls, com, dem)
<1>1. Allocatable \in Amount /\ Budget[r] \in Amount
  BY LedgerAssumption
<1>2. usable \in Amount /\ \A d \in Dims : usable[d] <= Allocatable[d]
  BY <1>1, UnreservedType, ArithType, Arith DEF LedgerType
<1>3. sum_reservations(ls, r) \in Amount
  BY SumType
<1>4. f = max(min(want, rest), com)
  BY DEF fair_reserve
<1>5. n \in Nat \ {0}
  BY ActiveType
<1> HIDE DEF n, usable, f
<1>6. \A d \in Dims : fair[d] \in 0 .. U64Max
  <2> SUFFICES ASSUME NEW d \in Dims PROVE fair[d] \in 0 .. U64Max
    BY Zenon
  <2>1. usable[d] \in 0 .. U64Max
    BY <1>2, AmountElim
  <2> HIDE DEF fair
  <2>2. fair[d] = usable[d] \div n
    BY DEF fair
  <2>3. usable[d] \div n \in Nat /\ usable[d] \div n <= usable[d]
    BY <1>5, <2>1, ResourcesAssumption, Quotient
  <2> QED
    BY <2>1, <2>2, <2>3, ResourcesAssumption
<1>7. fair \in Amount
  BY <1>6 DEF Amount
<1> HIDE DEF fair
<1>8. want \in Amount /\ rest \in Amount
  BY <1>1, <1>2, <1>3, <1>7, ArithType
<1>9. \A d \in Dims : rest[d] = 0 \/ rest[d] + sum_reservations(ls, r)[d] = usable[d]
  BY <1>2, <1>3, Arith, Zenon
<1> HIDE DEF want, rest
<1>10. min(want, rest) \in Amount /\ \A d \in Dims : min(want, rest)[d] <= rest[d]
  BY <1>8, ArithType, Arith
<1>11. f \in Amount
  BY <1>4, <1>10, ArithType
<1>12. ASSUME NEW d \in Dims
       PROVE  /\ com[d] <= f[d]
              /\ f[d] <= com[d] \/ f[d] + sum_reservations(ls, r)[d] <= Allocatable[d]
  <2>1. com[d] <= f[d] /\ f[d] \in {com[d], min(want, rest)[d]}
    BY <1>4, <1>10, Arith
  <2>2. /\ f[d] \in Nat /\ rest[d] \in Nat /\ usable[d] \in Nat /\ com[d] \in Nat
        /\ Allocatable[d] \in Nat /\ sum_reservations(ls, r)[d] \in Nat
    BY <1>1, <1>2, <1>3, <1>8, <1>11, AmountElim
  <2> QED
    BY <1>2, <1>9, <1>10, <2>1, <2>2
<1> QED
  BY <1>11, <1>12 DEF fits_within, f

-----------------------------------------------------------------------------
(* The inductive invariant.                                                *)

USE DEF Polling, Busy, Over

LEMMA SceneType ==
    ASSUME LedgerType, NEW r \in Runs
    PROVE  /\ Want[r] \in Amount \cup {Elastic} /\ TestSize[r] \in Amount
           /\ scene.tests \in [Runs -> Nat] /\ scene.foreign \subseteq Amount
  BY LedgerAssumption DEF LedgerType, Want, TestSize

LEMMA NothingListed == NoLeases \in Ledgers /\ DOMAIN NoLeases = {} /\ NoDemand \in Demand
<1>1. NoLeases \in [{} -> Lease] /\ {} \in SUBSET Runs
  BY DEF NoLeases
<1> QED
  BY <1>1, ZeroAmount DEF NoLeases, Ledgers, NoDemand, Demand

LEMMA InitInv == Init => Inv
<1> SUFFICES ASSUME Init PROVE Inv
  OBVIOUS
<1>1. LedgerType
  <2>1. scene.tests \in [Runs -> Nat] /\ scene.foreign \subseteq Amount
    BY LedgerAssumption DEF Init
  <2> QED
    BY <2>1, NothingListed, ZeroAmount DEF Init, LedgerType
<1>2. ASSUME NEW r \in Runs PROVE RunInv(r)
  BY NothingListed, ZeroAmount, Zenon DEF Init, RunInv, PollInv, EngineInv, CoverInv, NoDemand
<1> QED
  BY <1>1, <1>2 DEF Inv

(* What a step of another run, of the clock or of the reaper leaves a run. *)
Same(r) ==
    /\ scene' = scene
    /\ pc'[r] = pc[r] /\ task'[r] = task[r] /\ up'[r] = up[r] /\ live'[r] = live[r]
    /\ target'[r] = target[r] /\ prev'[r] = prev[r] /\ chan'[r] = chan[r]
    /\ available'[r] = available[r] /\ committed'[r] = committed[r]
    /\ reported'[r] = reported[r] /\ borrowed'[r] = borrowed[r]
    /\ r \in DOMAIN leases' => r \in DOMAIN leases /\ leases'[r].reserve = leases[r].reserve

LEMMA Frame == ASSUME NEW r \in Runs, RunInv(r), Same(r) PROVE RunInv(r)'
  BY Zenon DEF Same, RunInv, PollInv, EngineInv, CoverInv, Want, Reserved

(* A step of run r.                                                        *)
Steps(r) == LedgerType' /\ RunInv(r)' /\ \A q \in Runs \ {r} : Same(q)

LEMMA StepsInv == ASSUME Inv, NEW r \in Runs, Steps(r) PROVE Inv'
<1>1. ASSUME NEW q \in Runs PROVE RunInv(q)'
  <2>1. CASE q = r
    BY <2>1 DEF Steps
  <2>2. CASE q # r
    BY <2>2, Frame DEF Steps, Inv
  <2> QED
    BY <2>1, <2>2
<1> QED
  BY <1>1 DEF Steps, Inv

(* The channel of a Demand.                                                *)
LEMMA Reported ==
    ASSUME LedgerType, NEW r \in Runs, NEW com \in Amount, NEW n \in Nat, report(r, com, n)
    PROVE  /\ reported' \in [Runs -> Demand]
           /\ reported'[r].committed = com
           /\ \A q \in Runs \ {r} : reported'[q] = reported[q]
<1> DEFINE dem == [d \in Dims |-> LET sum == com[d] + n * TestSize[r][d]
                                  IN  IF sum <= U64Max THEN sum ELSE U64Max]
<1>1. dem \in Amount
  <2>1. ASSUME NEW d \in Dims PROVE com[d] + n * TestSize[r][d] \in Nat
    <3>1. com[d] \in Nat /\ TestSize[r][d] \in Nat
      BY AmountElim, SceneType
    <3> QED
      BY <3>1, Linear, Zenon
  <2> QED
    BY <2>1, ResourcesAssumption DEF Amount
<1>2. reported' = [reported EXCEPT ![r] = [committed |-> com, demand |-> dem]]
  BY Zenon DEF report
<1> HIDE DEF dem
<1>3. [committed |-> com, demand |-> dem] \in Demand
  BY <1>1 DEF Demand
<1> QED
  BY <1>2, <1>3 DEF LedgerType

(* The locals of r are gone; what is left is typed.                        *)
LEMMA Forgotten ==
    ASSUME LedgerType, NEW r \in Runs, forget(r)
    PROVE  /\ DOMAIN doomed' = Runs /\ live' \in [Runs -> Ledgers]
           /\ target' \in [Runs -> Amount] /\ borrowed' \in [Runs -> Demand]
           /\ \A q \in Runs \ {r} : /\ live'[q] = live[q] /\ target'[q] = target[q]
                                    /\ borrowed'[q] = borrowed[q]
  BY NothingListed, ZeroAmount DEF LedgerType, forget

(* The process of r is over.                                               *)
LEMMA Stopped ==
    ASSUME LedgerType, NEW r \in Runs, NEW how \in Over, stop(r, how)
    PROVE  /\ pc' \in [Runs -> Polling \cup {"run"} \cup Over] /\ pc'[r] = how
           /\ prev' \in [Runs -> Amount] /\ chan' \in [Runs -> Amount \cup {None}]
           /\ available' \in [Runs -> Amount] /\ committed' \in [Runs -> Amount]
           /\ work' \in [Runs -> Nat] /\ reported' \in [Runs -> Demand]
           /\ \A q \in Runs \ {r} :
                 /\ pc'[q] = pc[q] /\ prev'[q] = prev[q] /\ chan'[q] = chan[q]
                 /\ available'[q] = available[q] /\ committed'[q] = committed[q]
                 /\ reported'[q] = reported[q]
  BY NothingListed, ZeroAmount DEF LedgerType, stop

(* A lease written, leases deleted.                                        *)
LEMMA Written ==
    ASSUME LedgerType, NEW r \in Runs, NEW a \in Amount, NEW c \in BOOLEAN, write(r, a, c)
    PROVE  /\ leases' \in Ledgers
           /\ r \in DOMAIN leases' /\ leases'[r].reserve = a
           /\ \A q \in Runs \ {r} : q \in DOMAIN leases' => q \in DOMAIN leases /\ leases'[q] = leases[q]
<1>1. [reserve |-> a, claim |-> c, expired |-> FALSE] \in Lease
  BY DEF Lease
<1>2. leases \in Ledgers
  BY DEF LedgerType
<1> DEFINE l == [reserve |-> a, claim |-> c, expired |-> FALSE]
<1>3. leases' = Insert(leases, r, l) /\ l.reserve = a
  BY DEF write
<1>5. l \in Lease
  BY <1>1
<1> HIDE DEF l
<1>4. /\ Insert(leases, r, l) \in Ledgers
      /\ DOMAIN Insert(leases, r, l) = DOMAIN leases \cup {r}
      /\ Insert(leases, r, l)[r] = l
      /\ \A x \in DOMAIN leases \ {r} : Insert(leases, r, l)[x] = leases[x]
  BY <1>2, <1>5, InsertType, Zenon
<1> QED
  BY <1>3, <1>4

LEMMA Removed ==
    ASSUME LedgerType, NEW D, leases' = Remove(leases, D)
    PROVE  /\ leases' \in Ledgers
           /\ \A q \in DOMAIN leases' : q \in DOMAIN leases /\ leases'[q] = leases[q]
<1>1. leases \in Ledgers
  BY DEF LedgerType
<1>2. /\ Remove(leases, D) \in Ledgers
      /\ DOMAIN Remove(leases, D) = DOMAIN leases \ D
      /\ \A x \in DOMAIN leases \ D : Remove(leases, D)[x] = leases[x]
  BY <1>1, RemoveType
<1> QED
  BY <1>2

(* The other runs when the process of r ends.                              *)
LEMMA OthersSame ==
    ASSUME LedgerType, NEW r \in Runs, NEW how \in Over, forget(r), stop(r, how),
           scene' = scene, up' = up, NEW q \in Runs \ {r}, task'[q] = task[q],
           q \in DOMAIN leases' => q \in DOMAIN leases /\ leases'[q] = leases[q]
    PROVE  Same(q)
<1>1. live'[q] = live[q] /\ target'[q] = target[q] /\ borrowed'[q] = borrowed[q]
  BY Forgotten, Zenon
<1>2. /\ pc'[q] = pc[q] /\ prev'[q] = prev[q] /\ chan'[q] = chan[q]
      /\ available'[q] = available[q] /\ committed'[q] = committed[q] /\ reported'[q] = reported[q]
  BY Stopped, Zenon
<1> QED
  BY <1>1, <1>2, Zenon DEF Same

(* acquire.                                                                *)
LEMMA SweepStep ==
    ASSUME Inv, scene' = scene, NEW r \in Runs, AcquireSweep(r)
    PROVE  Steps(r)
<1>1. LedgerType'
  BY DEF AcquireSweep, Inv, LedgerType, engine
<1>2. RunInv(r)'
  BY Zenon DEF AcquireSweep, Inv, LedgerType, RunInv, PollInv, EngineInv, CoverInv, engine, Reserved
<1>3. \A q \in Runs \ {r} : Same(q)
  BY Zenon DEF AcquireSweep, Inv, LedgerType, Same, engine
<1> QED
  BY <1>1, <1>2, <1>3 DEF Steps

LEMMA ListStep ==
    ASSUME Inv, scene' = scene, NEW r \in Runs, AcquireList(r)
    PROVE  Steps(r)
<1>1. /\ leases' \in Ledgers
      /\ \A q \in DOMAIN leases' : q \in DOMAIN leases /\ leases'[q] = leases[q]
  BY Removed DEF AcquireList, Inv
<1>2. LedgerType'
  BY <1>1 DEF AcquireList, Inv, LedgerType, engine
<1>3. RunInv(r)'
  BY <1>1, Zenon
  DEF AcquireList, Inv, LedgerType, RunInv, PollInv, EngineInv, CoverInv, engine, Reserved
<1>4. \A q \in Runs \ {r} : Same(q)
  BY <1>1 DEF AcquireList, Inv, LedgerType, Same, engine
<1> QED
  BY <1>2, <1>3, <1>4 DEF Steps

LEMMA PodsStep ==
    ASSUME Inv, scene' = scene, NEW r \in Runs, AcquirePods(r)
    PROVE  Steps(r)
<1> DEFINE slice == acquire_slice(r, live[r])
<1>0. LedgerType /\ RunInv(r) /\ pc[r] = "pods" /\ UNCHANGED <<up, kept, foreign, task>>
  BY DEF Inv, AcquirePods
<1>1. CASE forget(r) /\ stop(r, "panicked") /\ UNCHANGED leases
  <2>1. LedgerType'
    BY <1>0, <1>1, Forgotten, Stopped, Zenon DEF LedgerType
  <2>2. RunInv(r)'
    BY <1>0, <1>1, Stopped, Zenon DEF RunInv, PollInv, EngineInv, CoverInv, Reserved
  <2>3. \A q \in Runs \ {r} : Same(q)
    BY <1>0, <1>1, OthersSame, Zenon
  <2> QED
    BY <2>1, <2>2, <2>3 DEF Steps
<1>2. CASE /\ fits_within(threshold(r), slice)
           /\ target' = [target EXCEPT ![r] = amount(r, slice)]
           /\ pc' = [pc EXCEPT ![r] = "write"]
           /\ UNCHANGED <<leases, doomed, live, borrowed, prev, chan, engine>>
  <2>1. /\ slice \in Amount
        /\ \A d \in Dims : \/ slice[d] = 0
                           \/ slice[d] + sum_reservations(live[r], r)[d] <= Allocatable[d]
    BY <1>0, SliceBound
  <2> HIDE DEF slice
  <2>2. amount(r, slice) \in Amount /\ fits_within(amount(r, slice), slice)
    BY <1>0, <1>2, <2>1, SceneType, AmountElim DEF amount, threshold, fits_within
  <2>3. LedgerType'
    BY <1>0, <1>2, <2>2 DEF LedgerType, engine
  <2>4. target'[r] = amount(r, slice) /\ pc'[r] = "write" /\ live'[r] = live[r]
    BY <1>0, <1>2 DEF LedgerType
  <2>5. ASSUME NEW d \in Dims
        PROVE  \/ target'[r][d] = 0
               \/ target'[r][d] + sum_reservations(live'[r], r)[d] <= Allocatable[d]
    <3>1. /\ amount(r, slice)[d] \in Nat /\ slice[d] \in Nat /\ Allocatable[d] \in Nat
          /\ sum_reservations(live[r], r)[d] \in Nat
      BY <2>1, <2>2, SumType, AmountElim, LedgerAssumption, Zenon
    <3> QED
      BY <2>1, <2>2, <2>4, <3>1 DEF fits_within
  <2>6. RunInv(r)'
    BY <1>0, <1>2, <2>4, <2>5, Zenon DEF RunInv, PollInv, EngineInv, CoverInv, Reserved, engine
  <2>7. \A q \in Runs \ {r} : Same(q)
    BY <1>0, <1>2, Zenon DEF Same, LedgerType, engine
  <2> QED
    BY <2>3, <2>6, <2>7 DEF Steps
<1>3. CASE leases' = Remove(leases, {r}) /\ forget(r) /\ stop(r, "refused")
  <2>1. LedgerType'
    BY <1>0, <1>3, Forgotten, Stopped, Removed, Zenon DEF LedgerType
  <2>2. RunInv(r)'
    BY <1>0, <1>3, Stopped, Removed, Zenon DEF RunInv, PollInv, EngineInv, CoverInv, Reserved
  <2>3. \A q \in DOMAIN leases' : q \in DOMAIN leases /\ leases'[q] = leases[q]
    BY <1>0, <1>3, Removed, Zenon
  <2>4. \A q \in Runs \ {r} : Same(q)
    BY <1>0, <1>3, <2>3, OthersSame, Zenon
  <2> QED
    BY <2>1, <2>2, <2>4 DEF Steps
<1>4. CASE /\ write(r, ZERO, TRUE) \/ UNCHANGED leases
           /\ pc' = [pc EXCEPT ![r] = "sweep"]
           /\ forget(r)
           /\ UNCHANGED <<prev, chan, engine>>
  <2>1. /\ leases' \in Ledgers
        /\ \A q \in Runs \ {r} : q \in DOMAIN leases' => q \in DOMAIN leases /\ leases'[q] = leases[q]
        /\ r \in DOMAIN leases' => leases'[r].reserve \in Amount
    <3>1. CASE write(r, ZERO, TRUE)
      BY <1>0, <3>1, Written, ZeroAmount, Zenon
    <3>2. CASE UNCHANGED leases
      BY <1>0, <3>2, LedgerElim DEF LedgerType
    <3> QED
      BY <1>4, <3>1, <3>2, Zenon
  <2>2. LedgerType'
    BY <1>0, <1>4, <2>1, Forgotten, Zenon DEF LedgerType, engine
  <2>3. /\ pc'[r] = "sweep" /\ up'[r] = ZERO /\ committed'[r] = ZERO
        /\ chan'[r] = None /\ reported'[r].committed = ZERO
    BY <1>0, <1>4, Zenon DEF LedgerType, RunInv, PollInv, engine
  <2>4. RunInv(r)'
    BY <2>1, <2>3, ZeroFits, Zenon DEF RunInv, PollInv, EngineInv, CoverInv, Reserved
  <2>5. \A q \in Runs \ {r} : Same(q)
    BY <1>0, <1>4, <2>1, Forgotten, Zenon DEF Same, LedgerType, engine
  <2> QED
    BY <2>2, <2>4, <2>5 DEF Steps
<1> QED
  BY <1>1, <1>2, <1>3, <1>4, Zenon DEF AcquirePods

LEMMA WriteStep ==
    ASSUME Inv, scene' = scene, NEW r \in Runs, AcquireWrite(r)
    PROVE  Steps(r)
<1>0. LedgerType /\ RunInv(r) /\ pc[r] = "write" /\ target[r] \in Amount
  BY Zenon DEF Inv, AcquireWrite, LedgerType
<1>1. /\ leases' \in Ledgers
      /\ r \in DOMAIN leases' /\ leases'[r].reserve = target[r]
      /\ \A q \in Runs \ {r} : q \in DOMAIN leases' => q \in DOMAIN leases /\ leases'[q] = leases[q]
  BY <1>0, Written, Zenon DEF AcquireWrite
<1>2. LedgerType'
  BY <1>0, <1>1, Forgotten, Zenon DEF LedgerType, AcquireWrite
<1>3. /\ pc'[r] = "run" /\ task'[r] = "idle" /\ prev'[r] = target[r] /\ available'[r] = target[r]
      /\ committed'[r] = ZERO /\ reported'[r].committed = ZERO /\ chan'[r] = None /\ up'[r] = ZERO
  BY <1>0, Zenon DEF AcquireWrite, LedgerType, RunInv, PollInv
<1>4. fits_within(ZERO, target[r]) /\ fits_within(target[r], target[r])
  BY <1>0, ZeroAmount, AmountElim DEF fits_within
<1>5. fits_within(ZERO, ZERO)
  BY ZeroAmount DEF fits_within
<1>6. RunInv(r)'
  BY <1>1, <1>3, <1>4, <1>5, Zenon DEF RunInv, PollInv, EngineInv, CoverInv, Reserved
<1>7. \A q \in Runs \ {r} : Same(q)
  BY <1>0, <1>1, Forgotten, Zenon DEF Same, LedgerType, AcquireWrite
<1> QED
  BY <1>2, <1>6, <1>7 DEF Steps

LEMMA AcquireFailsStep ==
    ASSUME Inv, scene' = scene, NEW r \in Runs, AcquireFails(r)
    PROVE  Steps(r)
<1>0. LedgerType /\ RunInv(r) /\ pc[r] \in Polling /\ target[r] \in Amount
  BY Zenon DEF Inv, AcquireFails, LedgerType
<1>1. /\ leases' \in Ledgers
      /\ r \in DOMAIN leases' => leases'[r].reserve \in Amount
      /\ \A q \in Runs \ {r} : q \in DOMAIN leases' => q \in DOMAIN leases /\ leases'[q] = leases[q]
  <2>1. CASE leases' = Remove(leases, doomed[r])
    BY <1>0, <2>1, Removed, LedgerElim
  <2>2. CASE UNCHANGED leases
    BY <1>0, <2>2, LedgerElim DEF LedgerType
  <2>3. CASE write(r, target[r], FALSE)
    BY <1>0, <2>3, Written, Zenon
  <2> QED
    BY <2>1, <2>2, <2>3, Zenon DEF AcquireFails
<1>2. LedgerType'
  BY <1>0, <1>1, Forgotten, Stopped, Zenon DEF LedgerType, AcquireFails
<1>3. pc'[r] = "refused" /\ up'[r] = ZERO
  BY <1>0, Stopped, Zenon DEF RunInv, PollInv, AcquireFails
<1>4. RunInv(r)'
  BY <1>1, <1>3, ZeroFits, Zenon DEF RunInv, PollInv, EngineInv, CoverInv, Reserved
<1>5. \A q \in Runs \ {r} : Same(q)
  <2>1. forget(r) /\ stop(r, "refused") /\ UNCHANGED <<up, task>>
    BY Zenon DEF AcquireFails
  <2> QED
    BY <1>0, <1>1, <2>1, OthersSame, Zenon
<1> QED
  BY <1>2, <1>4, <1>5 DEF Steps

(* The renewal task.                                                       *)
LEMMA TickStep ==
    ASSUME Prompt, Inv, scene' = scene, NEW r \in Runs, Tick(r)
    PROVE  Steps(r)
<1>0. LedgerType /\ RunInv(r) /\ pc[r] = "run" /\ task[r] = "idle" /\ chan[r] = None
  BY Zenon DEF Inv, Tick
<1>1. reported[r] \in Demand /\ prev[r] \in Amount /\ committed[r] \in Amount
  BY <1>0 DEF LedgerType
<1>2. LedgerType'
  BY <1>0, <1>1 DEF LedgerType, Tick, engine
<1>3. \A q \in Runs \ {r} : Same(q)
  BY <1>0, Zenon DEF Same, LedgerType, Tick, engine
<1>4. /\ borrowed'[r] = reported[r] /\ borrowed'[r].committed = committed[r]
      /\ pc'[r] = "run" /\ chan'[r] = None /\ available[r] = prev[r] /\ Want'[r] = Want[r]
      /\ UNCHANGED <<leases, up, live, prev, available, committed, reported>>
  BY <1>0, Zenon DEF LedgerType, Tick, engine, RunInv, EngineInv, Want
<1>5. CASE Want[r] = Elastic /\ reported[r] # NoDemand
  <2>1. task'[r] = "list"
    BY <1>0, <1>5, Zenon DEF LedgerType, Tick
  <2>2. fits_within(committed[r], max(committed[r], prev[r]))
    BY <1>1, Arith, Zenon DEF fits_within
  <2> QED
    BY <1>0, <1>2, <1>3, <1>4, <1>5, <2>1, <2>2, Zenon
    DEF Steps, RunInv, PollInv, EngineInv, CoverInv, Reserved
<1>6. CASE ~ (Want[r] = Elastic /\ reported[r] # NoDemand)
  <2>1. task'[r] = "renew" /\ target'[r] = prev[r]
    BY <1>0, <1>6, Zenon DEF LedgerType, Tick
  <2>2. fits_within(committed[r], prev[r])
    <3>1. CASE Want[r] # Elastic
      BY <1>0, <3>1, Zenon DEF RunInv, EngineInv
    <3>2. CASE reported[r] = NoDemand
      <4>1. committed[r] = ZERO
        <5>1. reported[r].committed = committed[r] /\ reported[r].committed = NoDemand.committed
          BY <1>0, <3>2, Zenon DEF RunInv, EngineInv
        <5>2. NoDemand.committed = ZERO
          BY DEF NoDemand
        <5> QED
          BY <5>1, <5>2, Zenon
      <4> QED
        BY <1>1, <4>1, ZeroFits, Zenon
    <3> QED
      BY <1>6, <3>1, <3>2
  <2>3. fits_within(committed[r], max(prev[r], prev[r]))
    BY <1>1, <2>2, Arith, Zenon DEF fits_within
  <2>4. \A d \in Dims : prev[r][d] <= prev[r][d]
    BY <1>1, AmountElim
  <2> QED
    BY <1>0, <1>2, <1>3, <1>4, <2>1, <2>2, <2>3, <2>4, Zenon
    DEF Steps, RunInv, PollInv, EngineInv, CoverInv, Reserved
<1> QED
  BY <1>5, <1>6, Zenon

LEMMA ReconcileListStep ==
    ASSUME Inv, scene' = scene, NEW r \in Runs, ReconcileList(r)
    PROVE  Steps(r)
<1>0. LedgerType /\ RunInv(r) /\ pc[r] = "run" /\ task[r] = "list"
  BY DEF Inv, ReconcileList
<1>1. /\ leases' \in Ledgers
      /\ \A q \in DOMAIN leases' : q \in DOMAIN leases /\ leases'[q] = leases[q]
  BY <1>0, Removed DEF ReconcileList
<1>2. LedgerType'
  BY <1>0, <1>1, Zenon DEF LedgerType, ReconcileList, engine
<1>3. \A q \in Runs \ {r} : Same(q)
  BY <1>0, <1>1, Zenon DEF Same, LedgerType, ReconcileList, engine
<1>4. /\ task'[r] = "pods" /\ Want'[r] = Want[r]
      /\ UNCHANGED <<up, pc, prev, chan, available, committed, reported, borrowed>>
  BY <1>0, Zenon DEF LedgerType, ReconcileList, engine, Want
<1> QED
  BY <1>0, <1>1, <1>2, <1>3, <1>4, Zenon DEF Steps, RunInv, PollInv, EngineInv, CoverInv, Reserved

LEMMA ReconcilePodsStep ==
    ASSUME Inv, scene' = scene, NEW r \in Runs, ReconcilePods(r)
    PROVE  Steps(r)
<1> DEFINE f == fair_reserve(r, live[r], borrowed[r].committed, borrowed[r].demand)
<1>0. LedgerType /\ RunInv(r) /\ pc[r] = "run" /\ task[r] = "pods"
  BY Zenon DEF Inv, ReconcilePods
<1>1. /\ live[r] \in Ledgers /\ borrowed[r].committed \in Amount /\ borrowed[r].demand \in Amount
      /\ prev[r] \in Amount /\ committed[r] \in Amount
  BY <1>0, Zenon DEF LedgerType, Demand
<1>2. /\ f \in Amount /\ fits_within(borrowed[r].committed, f)
      /\ \A d \in Dims : \/ f[d] <= borrowed[r].committed[d]
                         \/ f[d] + sum_reservations(live[r], r)[d] <= Allocatable[d]
  BY <1>0, <1>1, FairBound, Zenon
<1>3. target' = [target EXCEPT ![r] = f]
  BY Zenon DEF ReconcilePods
<1> HIDE DEF f
<1>4. LedgerType'
  <2>1. target' \in [Runs -> Amount] /\ task' \in [Runs -> {"none", "idle", "sent"} \cup Busy]
    BY <1>0, <1>2, <1>3 DEF LedgerType, ReconcilePods
  <2> QED
    BY <1>0, <2>1, Zenon DEF LedgerType, ReconcilePods, engine
<1>5. \A q \in Runs \ {r} : Same(q)
  BY <1>0, <1>3, Zenon DEF Same, LedgerType, ReconcilePods, engine
<1>6. /\ task'[r] = "renew" /\ target'[r] = f /\ Want'[r] = Want[r]
      /\ UNCHANGED <<leases, up, pc, live, prev, chan, available, committed, reported, borrowed>>
  BY <1>0, <1>3, Zenon DEF LedgerType, ReconcilePods, engine, Want
<1>7. fits_within(committed[r], max(f, prev[r]))
  <2> SUFFICES ASSUME NEW d \in Dims PROVE committed[r][d] <= max(f, prev[r])[d]
    BY Zenon DEF fits_within
  <2>1. committed[r][d] <= max(borrowed[r].committed, prev[r])[d]
    BY <1>0, Zenon DEF RunInv, EngineInv, fits_within
  <2>2. max(borrowed[r].committed, prev[r])[d] \in {borrowed[r].committed[d], prev[r][d]}
    BY <1>1, Arith, Zenon
  <2>3. f[d] <= max(f, prev[r])[d] /\ prev[r][d] <= max(f, prev[r])[d] /\ max(f, prev[r])[d] \in Nat
    BY <1>1, <1>2, Arith, ArithType, AmountElim, Zenon
  <2>4. /\ f[d] \in Nat /\ prev[r][d] \in Nat /\ borrowed[r].committed[d] \in Nat
        /\ committed[r][d] \in Nat
    BY <1>1, <1>2, AmountElim, Zenon
  <2>5. borrowed[r].committed[d] <= f[d]
    BY <1>2 DEF fits_within
  <2> QED
    BY <2>1, <2>2, <2>3, <2>4, <2>5
<1> QED
  BY <1>0, <1>2, <1>4, <1>5, <1>6, <1>7, Zenon
  DEF Steps, RunInv, PollInv, EngineInv, CoverInv, Reserved

(* What a lease written by the renewal task covers.                        *)
LEMMA Renewal ==
    ASSUME Inv, NEW r \in Runs, pc[r] = "run", task[r] = "renew"
    PROVE  /\ renewed(r) \in Amount
           /\ fits_within(up[r], renewed(r)) /\ fits_within(committed[r], renewed(r))
           /\ fits_within(available[r], renewed(r)) /\ fits_within(prev[r], renewed(r))
           /\ fits_within(target[r], renewed(r))
           /\ chan[r] = None /\ available[r] = prev[r]
<1>1. /\ target[r] \in Amount /\ prev[r] \in Amount /\ committed[r] \in Amount /\ up[r] \in Amount
      /\ RunInv(r)
  BY DEF Inv, LedgerType
<1>2. chan[r] = None /\ available[r] = prev[r]
  BY <1>1, Zenon DEF RunInv, EngineInv
<1>3. renewed(r) \in Amount
  BY <1>1, ArithType DEF renewed
<1>4. fits_within(committed[r], renewed(r)) /\ fits_within(up[r], committed[r])
  BY <1>1, Zenon DEF RunInv, EngineInv, renewed
<1>5. fits_within(prev[r], renewed(r)) /\ fits_within(target[r], renewed(r))
  BY <1>1, Arith, Zenon DEF renewed, fits_within
<1>6. fits_within(up[r], renewed(r))
  BY <1>1, <1>3, <1>4, FitsTrans, Zenon
<1> QED
  BY <1>2, <1>3, <1>4, <1>5, <1>6

LEMMA RenewStep ==
    ASSUME Inv, scene' = scene, NEW r \in Runs, Renew(r)
    PROVE  Steps(r)
<1> DEFINE l == [reserve |-> renewed(r), claim |-> FALSE, expired |-> FALSE]
           swept == Remove(leases, doomed[r])
<1>0. /\ LedgerType /\ RunInv(r) /\ pc[r] = "run" /\ task[r] = "renew" /\ forget(r)
      /\ target[r] \in Amount /\ prev[r] \in Amount
  BY Zenon DEF Inv, Renew, LedgerType
<1>1. /\ renewed(r) \in Amount
      /\ fits_within(up[r], renewed(r)) /\ fits_within(committed[r], renewed(r))
      /\ fits_within(available[r], renewed(r)) /\ fits_within(target[r], renewed(r))
      /\ chan[r] = None /\ available[r] = prev[r]
  BY <1>0, Renewal
<1>2. /\ swept \in Ledgers /\ DOMAIN swept \subseteq DOMAIN leases
      /\ \A x \in DOMAIN swept : swept[x] = leases[x]
  <2>1. leases \in Ledgers
    BY <1>0 DEF LedgerType
  <2>2. /\ Remove(leases, doomed[r]) \in Ledgers
        /\ DOMAIN Remove(leases, doomed[r]) = DOMAIN leases \ doomed[r]
        /\ \A x \in DOMAIN leases \ doomed[r] : Remove(leases, doomed[r])[x] = leases[x]
    BY <2>1, RemoveType, Zenon
  <2> QED
    BY <2>2
<1>3. l \in Lease /\ l.reserve = renewed(r) /\ leases' = Insert(swept, r, l)
  BY <1>1, Zenon DEF Lease, Renew
<1> HIDE DEF l, swept
<1>4. /\ Insert(swept, r, l) \in Ledgers
      /\ DOMAIN Insert(swept, r, l) = DOMAIN swept \cup {r}
      /\ Insert(swept, r, l)[r] = l
      /\ \A x \in DOMAIN swept \ {r} : Insert(swept, r, l)[x] = swept[x]
  BY <1>2, <1>3, InsertType, Zenon
<1>5. /\ leases' \in Ledgers /\ r \in DOMAIN leases' /\ leases'[r].reserve = renewed(r)
      /\ \A q \in Runs \ {r} : q \in DOMAIN leases' => q \in DOMAIN leases /\ leases'[q] = leases[q]
  BY <1>2, <1>3, <1>4, Zenon
<1>6. LedgerType'
  BY <1>0, <1>5, Forgotten, Zenon DEF LedgerType, Renew, engine
<1>7. \A q \in Runs \ {r} : Same(q)
  BY <1>0, <1>5, Forgotten, Zenon DEF Same, LedgerType, Renew, engine
<1>8. /\ task'[r] = "idle" /\ prev'[r] = target[r] /\ Want'[r] = Want[r]
      /\ chan'[r] = IF target[r] # prev[r] THEN target[r] ELSE None
      /\ UNCHANGED <<up, pc, available, committed, reported>>
  BY <1>0, <1>1, Zenon DEF LedgerType, Renew, engine, Want
<1>9. PollInv(r)' /\ CoverInv(r)'
  BY <1>0, <1>1, <1>5, <1>8, Zenon DEF PollInv, CoverInv, Reserved
<1>10. EngineInv(r)'
  <2>1. CASE target[r] = prev[r]
    BY <1>0, <1>1, <1>8, <2>1, Zenon DEF RunInv, EngineInv
  <2>2. CASE target[r] # prev[r]
    <3>1. target[r] # None
      BY <1>0, LedgerAssumption, Zenon
    <3> QED
      BY <1>0, <1>1, <1>8, <2>2, <3>1, Zenon DEF RunInv, EngineInv
  <2> QED
    BY <2>1, <2>2
<1> QED
  BY <1>6, <1>7, <1>9, <1>10 DEF Steps, RunInv

LEMMA ReconcileFailsStep ==
    ASSUME Inv, scene' = scene, NEW r \in Runs, ReconcileFails(r)
    PROVE  Steps(r)
<1>0. LedgerType /\ RunInv(r) /\ pc[r] = "run" /\ task[r] \in Busy /\ forget(r)
  BY Zenon DEF Inv, ReconcileFails
<1>1. /\ leases' \in Ledgers
      /\ \A q \in Runs \ {r} : q \in DOMAIN leases' => q \in DOMAIN leases /\ leases'[q] = leases[q]
      /\ r \in DOMAIN leases' =>
            /\ fits_within(up[r], leases'[r].reserve) /\ fits_within(committed[r], leases'[r].reserve)
            /\ fits_within(available[r], leases'[r].reserve) /\ fits_within(prev[r], leases'[r].reserve)
  <2>1. CASE leases' = Remove(leases, doomed[r])
    BY <1>0, <2>1, Removed, Zenon DEF RunInv, CoverInv, Reserved
  <2>2. CASE UNCHANGED leases
    BY <1>0, <2>2, Zenon DEF LedgerType, RunInv, CoverInv, Reserved
  <2>3. CASE task[r] = "renew" /\ write(r, renewed(r), FALSE)
    BY <1>0, <2>3, Written, Renewal, Zenon
  <2> QED
    BY <2>1, <2>2, <2>3, Zenon DEF ReconcileFails
<1>2. LedgerType'
  BY <1>0, <1>1, Forgotten, Zenon DEF LedgerType, ReconcileFails, engine
<1>3. \A q \in Runs \ {r} : Same(q)
  BY <1>0, <1>1, Forgotten, Zenon DEF Same, LedgerType, ReconcileFails, engine
<1>4. /\ task'[r] = "idle" /\ Want'[r] = Want[r]
      /\ UNCHANGED <<up, pc, prev, chan, available, committed, reported>>
  BY <1>0, Zenon DEF LedgerType, ReconcileFails, engine, Want
<1> QED
  BY <1>0, <1>1, <1>2, <1>3, <1>4, Zenon DEF Steps, RunInv, PollInv, EngineInv, CoverInv, Reserved

(* The engine.                                                             *)
LEMMA CeilingStep ==
    ASSUME Inv, scene' = scene, NEW r \in Runs, SeeCeiling(r)
    PROVE  Steps(r)
<1>0. LedgerType /\ RunInv(r) /\ pc[r] = "run" /\ chan[r] # None /\ report(r, committed[r], work[r])
  BY Zenon DEF Inv, SeeCeiling
<1>1. chan[r] \in Amount /\ committed[r] \in Amount /\ work[r] \in Nat
  BY <1>0 DEF LedgerType
<1>2. /\ reported' \in [Runs -> Demand] /\ reported'[r].committed = committed[r]
      /\ \A q \in Runs \ {r} : reported'[q] = reported[q]
  BY <1>0, <1>1, Reported, Zenon
<1>3. LedgerType'
  BY <1>0, <1>1, <1>2, Zenon DEF LedgerType, SeeCeiling, ledger_task
<1>4. \A q \in Runs \ {r} : Same(q)
  BY <1>0, <1>2, Zenon DEF Same, LedgerType, SeeCeiling, ledger_task
<1>5. /\ available'[r] = chan[r] /\ chan'[r] = None /\ Want'[r] = Want[r]
      /\ UNCHANGED <<leases, up, pc, task, live, target, prev, committed, borrowed>>
  BY <1>0, Zenon DEF LedgerType, SeeCeiling, ledger_task, Want
<1> QED
  BY <1>0, <1>2, <1>3, <1>4, <1>5, Zenon DEF Steps, RunInv, PollInv, EngineInv, CoverInv, Reserved

(* A test is admitted within the ceiling: what is committed exceeds the    *)
(* ceiling only where it did before.                                       *)
LEMMA AdmitBound ==
    ASSUME LedgerType, NEW r \in Runs, Admit(r)
    PROVE  /\ committed'[r] \in Amount /\ fits_within(committed[r], committed'[r])
           /\ \A b \in Amount : fits_within(committed[r], b) /\ fits_within(available[r], b)
                                  => fits_within(committed'[r], b)
<1>1. /\ committed[r] \in Amount /\ TestSize[r] \in Amount /\ available[r] \in Amount
      /\ committed'[r] = saturating_add(committed[r], TestSize[r])
  BY SceneType, Zenon DEF LedgerType, Admit
<1>2. committed'[r] \in Amount
  BY <1>1, ArithType, Zenon
<1>3. ASSUME NEW d \in Dims
      PROVE  /\ committed[r][d] <= committed'[r][d]
             /\ committed'[r][d] <= committed[r][d] \/ committed'[r][d] <= available[r][d]
  <2>1. /\ committed[r][d] \in 0 .. U64Max /\ TestSize[r][d] \in 0 .. U64Max
        /\ available[r][d] \in 0 .. U64Max
    BY <1>1, AmountElim, Zenon
  <2>2. TestSize[r][d] <= (IF available[r][d] <= committed[r][d] THEN 0
                           ELSE available[r][d] - committed[r][d])
    BY DEF Admit, fits_within, saturating_sub
  <2>3. committed'[r][d] = IF committed[r][d] + TestSize[r][d] <= U64Max
                           THEN committed[r][d] + TestSize[r][d] ELSE U64Max
    BY <1>1, Zenon DEF saturating_add
  <2> QED
    BY <2>1, <2>2, <2>3, ResourcesAssumption
<1>4. ASSUME NEW b \in Amount, fits_within(committed[r], b), fits_within(available[r], b)
      PROVE  fits_within(committed'[r], b)
  <2> SUFFICES ASSUME NEW d \in Dims PROVE committed'[r][d] <= b[d]
    BY DEF fits_within
  <2>1. committed[r][d] \in Nat /\ committed'[r][d] \in Nat /\ available[r][d] \in Nat /\ b[d] \in Nat
    BY <1>1, <1>2, AmountElim
  <2> QED
    BY <1>3, <1>4, <2>1 DEF fits_within
<1> QED
  BY <1>2, <1>3, <1>4, Zenon DEF fits_within

LEMMA AdmitStep ==
    ASSUME Inv, scene' = scene, NEW r \in Runs, Admit(r)
    PROVE  Steps(r)
<1>0. LedgerType /\ RunInv(r) /\ pc[r] = "run" /\ report(r, committed'[r], work'[r])
  BY Zenon DEF Inv, Admit
<1>1. /\ committed[r] \in Amount /\ up[r] \in Amount /\ prev[r] \in Amount
      /\ target[r] \in Amount /\ borrowed[r].committed \in Amount
      /\ work' \in [Runs -> Nat] /\ work'[r] \in Nat
  <2>1. /\ committed[r] \in Amount /\ up[r] \in Amount /\ prev[r] \in Amount
        /\ target[r] \in Amount /\ borrowed[r].committed \in Amount
    BY <1>0, Zenon DEF LedgerType, Demand
  <2>2. work \in [Runs -> Nat] /\ work[r] > 0 /\ work' = [work EXCEPT ![r] = work[r] - 1]
    BY <1>0, Zenon DEF LedgerType, Admit
  <2> QED
    BY <2>1, <2>2
<1>2. /\ committed'[r] \in Amount /\ fits_within(committed[r], committed'[r])
      /\ \A b \in Amount : fits_within(committed[r], b) /\ fits_within(available[r], b)
                             => fits_within(committed'[r], b)
  BY <1>0, AdmitBound, Zenon
<1>3. /\ reported' \in [Runs -> Demand] /\ reported'[r].committed = committed'[r]
      /\ \A q \in Runs \ {r} : reported'[q] = reported[q]
  BY <1>0, <1>1, <1>2, Reported, Zenon
<1>4. /\ committed' \in [Runs -> Amount] /\ \A q \in Runs \ {r} : committed'[q] = committed[q]
  BY <1>0, <1>2, Zenon DEF LedgerType, Admit
<1>5. LedgerType'
  BY <1>0, <1>1, <1>3, <1>4, Zenon DEF LedgerType, Admit, ledger_task
<1>6. \A q \in Runs \ {r} : Same(q)
  BY <1>0, <1>3, <1>4, Zenon DEF Same, Admit, ledger_task
<1>7. /\ Want'[r] = Want[r]
      /\ UNCHANGED <<leases, up, pc, task, live, target, prev, chan, available, borrowed>>
  BY <1>0, Zenon DEF Admit, ledger_task, Want
<1>8. fits_within(up[r], committed'[r])
  BY <1>0, <1>1, <1>2, FitsTrans, Zenon DEF RunInv, EngineInv
<1>9. chan[r] = None /\ available[r] = prev[r] =>
         /\ fits_within(committed[r], prev[r]) => fits_within(committed'[r], prev[r])
         /\ fits_within(committed[r], max(target[r], prev[r]))
              => fits_within(committed'[r], max(target[r], prev[r]))
         /\ fits_within(committed[r], max(borrowed[r].committed, prev[r]))
              => fits_within(committed'[r], max(borrowed[r].committed, prev[r]))
  <2>1. max(target[r], prev[r]) \in Amount /\ max(borrowed[r].committed, prev[r]) \in Amount
    BY <1>1, ArithType
  <2>2. /\ fits_within(prev[r], prev[r]) /\ fits_within(prev[r], max(target[r], prev[r]))
        /\ fits_within(prev[r], max(borrowed[r].committed, prev[r]))
    BY <1>1, Arith, AmountElim, Zenon DEF fits_within
  <2> QED
    BY <1>1, <1>2, <2>1, <2>2, Zenon
<1>10. r \in DOMAIN leases => fits_within(committed'[r], Reserved(r))
  <2>1. r \in DOMAIN leases => Reserved(r) \in Amount
    BY <1>0, LedgerElim DEF LedgerType, Reserved
  <2> QED
    BY <1>0, <1>2, <2>1, Zenon DEF RunInv, CoverInv
<1>11. EngineInv(r)'
  BY <1>0, <1>3, <1>7, <1>8, <1>9, Zenon DEF RunInv, EngineInv
<1>12. CoverInv(r)' /\ PollInv(r)'
  BY <1>0, <1>7, <1>10, Zenon DEF RunInv, PollInv, CoverInv, Reserved
<1> QED
  BY <1>5, <1>6, <1>11, <1>12, Zenon DEF Steps, RunInv

LEMMA DeployStep ==
    ASSUME Inv, scene' = scene, NEW r \in Runs, Deploy(r)
    PROVE  Steps(r)
<1>0. LedgerType /\ RunInv(r) /\ pc[r] = "run"
  BY DEF Inv, Deploy
<1>1. /\ committed[r] \in Amount /\ up[r] \in Amount /\ TestSize[r] \in Amount
      /\ up'[r] = min(saturating_add(up[r], TestSize[r]), committed[r])
  BY <1>0, SceneType, Zenon DEF LedgerType, Deploy
<1>2. up'[r] \in Amount /\ fits_within(up'[r], committed[r])
  <2>1. saturating_add(up[r], TestSize[r]) \in Amount
    BY <1>1, ArithType, Zenon
  <2> QED
    BY <1>1, <2>1, ArithType, Fits, Zenon
<1>3. up' \in [Runs -> Amount] /\ \A q \in Runs \ {r} : up'[q] = up[q]
  BY <1>0, <1>2, Zenon DEF LedgerType, Deploy
<1>4. LedgerType'
  BY <1>0, <1>3, Zenon DEF LedgerType, Deploy, ledger_task, engine
<1>5. \A q \in Runs \ {r} : Same(q)
  BY <1>0, <1>3, Zenon DEF Same, Deploy, ledger_task, engine
<1>6. /\ Want'[r] = Want[r]
      /\ UNCHANGED <<leases, pc, task, live, target, prev, chan, available, committed, reported, borrowed>>
  BY <1>0, Zenon DEF Deploy, ledger_task, engine, Want
<1>7. r \in DOMAIN leases => fits_within(up'[r], Reserved(r))
  <2>1. r \in DOMAIN leases => Reserved(r) \in Amount
    BY <1>0, LedgerElim, Zenon DEF LedgerType, Reserved
  <2> QED
    BY <1>0, <1>1, <1>2, <2>1, FitsTrans, Zenon DEF RunInv, CoverInv
<1> QED
  BY <1>0, <1>2, <1>4, <1>5, <1>6, <1>7, Zenon
  DEF Steps, RunInv, PollInv, EngineInv, CoverInv, Reserved

LEMMA FinishStep ==
    ASSUME Inv, scene' = scene, NEW r \in Runs, Finish(r)
    PROVE  Steps(r)
<1>0. LedgerType /\ RunInv(r) /\ pc[r] = "run" /\ report(r, committed'[r], work[r])
  BY Zenon DEF Inv, Finish
<1>1. /\ committed[r] \in Amount /\ up[r] \in Amount /\ TestSize[r] \in Amount /\ kept[r] \in Amount
      /\ committed'[r] = saturating_sub(committed[r], TestSize[r])
      /\ up'[r] = min(up[r], committed'[r]) /\ work[r] \in Nat
      /\ prev[r] \in Amount /\ target[r] \in Amount /\ borrowed[r].committed \in Amount
  BY <1>0, SceneType, Zenon DEF LedgerType, Finish, Demand
<1>2. committed'[r] \in Amount /\ fits_within(committed'[r], committed[r])
  <2>1. /\ saturating_sub(committed[r], TestSize[r]) \in Amount
        /\ fits_within(saturating_sub(committed[r], TestSize[r]), committed[r])
    BY <1>1, ArithType, Fits, Zenon
  <2> QED
    BY <1>1, <2>1
<1>3. up'[r] \in Amount /\ fits_within(up'[r], committed'[r]) /\ fits_within(up'[r], up[r])
  <2>1. /\ min(up[r], committed'[r]) \in Amount /\ fits_within(min(up[r], committed'[r]), committed'[r])
        /\ fits_within(min(up[r], committed'[r]), up[r])
    BY <1>1, <1>2, ArithType, Fits, Zenon
  <2> QED
    BY <1>1, <2>1
<1>4. /\ committed' \in [Runs -> Amount] /\ up' \in [Runs -> Amount]
      /\ \A q \in Runs \ {r} : committed'[q] = committed[q] /\ up'[q] = up[q]
  BY <1>0, <1>2, <1>3, Zenon DEF LedgerType, Finish
<1>5. kept' \in [Runs -> Amount]
  <2>1. saturating_add(kept[r], saturating_sub(up[r], up'[r])) \in Amount
    BY <1>1, <1>3, ArithType, Zenon
  <2> QED
    BY <1>0, <2>1, Zenon DEF LedgerType, Finish
<1>6. /\ reported' \in [Runs -> Demand] /\ reported'[r].committed = committed'[r]
      /\ \A q \in Runs \ {r} : reported'[q] = reported[q]
  BY <1>0, <1>1, <1>2, Reported, Zenon
<1>7. LedgerType'
  BY <1>0, <1>4, <1>5, <1>6, Zenon DEF LedgerType, Finish, ledger_task
<1>8. \A q \in Runs \ {r} : Same(q)
  BY <1>0, <1>4, <1>6, Zenon DEF Same, Finish, ledger_task
<1>9. /\ Want'[r] = Want[r]
      /\ UNCHANGED <<leases, pc, task, live, target, prev, chan, available, borrowed>>
  BY <1>0, Zenon DEF Finish, ledger_task, Want
<1>10. \A b \in Amount : fits_within(committed[r], b) => fits_within(committed'[r], b)
  BY <1>1, <1>2, FitsTrans, Zenon
<1>11. max(target[r], prev[r]) \in Amount /\ max(borrowed[r].committed, prev[r]) \in Amount
  BY <1>1, ArithType, Zenon
<1>12. EngineInv(r)'
  BY <1>0, <1>1, <1>3, <1>6, <1>9, <1>10, <1>11, Zenon DEF RunInv, EngineInv
<1>13. CoverInv(r)' /\ PollInv(r)'
  <2>1. r \in DOMAIN leases => Reserved(r) \in Amount
    BY <1>0, LedgerElim, Zenon DEF LedgerType, Reserved
  <2>2. r \in DOMAIN leases => fits_within(up'[r], Reserved(r))
    BY <1>0, <1>1, <1>3, <2>1, FitsTrans, Zenon DEF RunInv, CoverInv
  <2>3. r \in DOMAIN leases => fits_within(committed'[r], Reserved(r))
    BY <1>0, <1>10, <2>1, Zenon DEF RunInv, CoverInv
  <2> QED
    BY <1>0, <1>9, <2>2, <2>3, Zenon DEF RunInv, PollInv, CoverInv, Reserved
<1> QED
  BY <1>7, <1>8, <1>12, <1>13, Zenon DEF Steps, RunInv

LEMMA ReleaseStep ==
    ASSUME Inv, scene' = scene, NEW r \in Runs, Release(r)
    PROVE  Steps(r)
<1>0. /\ LedgerType /\ RunInv(r) /\ pc[r] = "run" /\ committed[r] = ZERO /\ stop(r, "done")
      /\ leases' = Remove(leases, {r}) /\ UNCHANGED <<up, kept, foreign>>
  BY Zenon DEF Inv, Release
<1>1. up[r] = ZERO
  <2>1. up[r] \in Amount /\ fits_within(up[r], ZERO)
    BY <1>0, Zenon DEF LedgerType, RunInv, EngineInv
  <2>2. \A d \in Dims : up[r][d] = 0
    <3> SUFFICES ASSUME NEW d \in Dims PROVE up[r][d] = 0
      BY Zenon
    <3>1. up[r][d] <= ZERO[d] /\ ZERO[d] = 0 /\ up[r][d] \in Nat
      BY <2>1, ZeroAmount, AmountElim, Zenon DEF fits_within
    <3> QED
      BY <3>1
  <2> QED
    BY <2>1, <2>2 DEF Amount, ZERO
<1>2. /\ leases' \in Ledgers /\ r \notin DOMAIN leases'
      /\ \A q \in DOMAIN leases' : q \in DOMAIN leases /\ leases'[q] = leases[q]
  <2>1. leases' \in Ledgers /\ \A q \in DOMAIN leases' : q \in DOMAIN leases /\ leases'[q] = leases[q]
    BY <1>0, Removed, Zenon
  <2> QED
    BY <1>0, <2>1 DEF Remove
<1>3. /\ DOMAIN doomed' = Runs /\ live' \in [Runs -> Ledgers]
      /\ target' \in [Runs -> Amount] /\ borrowed' \in [Runs -> Demand]
      /\ task' \in [Runs -> {"none", "idle", "sent"} \cup Busy]
      /\ \A q \in Runs \ {r} : /\ live'[q] = live[q] /\ target'[q] = target[q]
                               /\ borrowed'[q] = borrowed[q] /\ task'[q] = task[q]
  <2>1. CASE task[r] = "renew"
    <3>1. renewed(r) \in Amount
      BY <1>0, <2>1, Renewal, Zenon
    <3> QED
      BY <1>0, <2>1, <3>1 DEF Release, LedgerType
  <2>2. CASE task[r] # "renew"
    BY <1>0, <2>2, Forgotten, Zenon DEF Release, LedgerType
  <2> QED
    BY <2>1, <2>2, Zenon
<1>4. LedgerType'
  BY <1>0, <1>2, <1>3, Stopped, Zenon DEF LedgerType
<1>5. ASSUME NEW q \in Runs \ {r} PROVE Same(q)
  <2>1. /\ pc'[q] = pc[q] /\ prev'[q] = prev[q] /\ chan'[q] = chan[q]
        /\ available'[q] = available[q] /\ committed'[q] = committed[q]
        /\ reported'[q] = reported[q]
    BY <1>0, Stopped, Zenon
  <2> QED
    BY <1>0, <1>2, <1>3, <2>1, Zenon DEF Same
<1>6. pc'[r] = "done"
  BY <1>0, Stopped, Zenon
<1> QED
  BY <1>0, <1>1, <1>2, <1>4, <1>5, <1>6, Zenon DEF Steps, RunInv, PollInv, EngineInv, CoverInv

(* The environment.                                                        *)
LEMMA LateStep ==
    ASSUME Inv, scene' = scene, NEW r \in Runs, LateRenewal(r)
    PROVE  Steps(r)
<1>0. LedgerType /\ RunInv(r) /\ pc[r] = "done" /\ target[r] \in Amount /\ forget(r)
  BY DEF Inv, LateRenewal, LedgerType
<1>1. /\ leases' \in Ledgers /\ r \in DOMAIN leases' /\ leases'[r].reserve = target[r]
      /\ \A q \in Runs \ {r} : q \in DOMAIN leases' => q \in DOMAIN leases /\ leases'[q] = leases[q]
  BY <1>0, Written, Zenon DEF LateRenewal
<1>2. LedgerType'
  BY <1>0, <1>1, Forgotten, Zenon DEF LedgerType, LateRenewal, engine
<1>3. \A q \in Runs \ {r} : Same(q)
  BY <1>0, <1>1, Forgotten, Zenon DEF Same, LedgerType, LateRenewal, engine
<1>4. up'[r] = ZERO /\ pc'[r] = "done"
  BY <1>0, Zenon DEF LateRenewal, RunInv, PollInv
<1>5. fits_within(ZERO, target[r])
  BY <1>0, ZeroFits, Zenon
<1> QED
  BY <1>1, <1>2, <1>3, <1>4, <1>5, Zenon DEF Steps, RunInv, PollInv, EngineInv, CoverInv, Reserved

LEMMA CrashStep ==
    ASSUME Inv, scene' = scene, NEW r \in Runs, Crash(r)
    PROVE  Steps(r)
<1>0. LedgerType /\ RunInv(r) /\ forget(r) /\ stop(r, "dead")
  BY Zenon DEF Inv, Crash
<1>1. LedgerType'
  BY <1>0, Forgotten, Stopped, Zenon DEF LedgerType, Crash
<1>2. \A q \in Runs \ {r} : Same(q)
  <2>1. /\ UNCHANGED <<leases, up>> /\ \A q \in Runs \ {r} : task'[q] = task[q]
    BY <1>0, Zenon DEF Crash, LedgerType
  <2> QED
    BY <1>0, <2>1, OthersSame, Zenon
<1>3. pc'[r] = "dead" /\ UNCHANGED <<leases, up>>
  BY <1>0, Stopped, Zenon DEF Crash
<1> QED
  BY <1>0, <1>1, <1>2, <1>3, Zenon DEF Steps, RunInv, PollInv, EngineInv, CoverInv, Reserved

LEMMA LapseStep ==
    ASSUME Inv, scene' = scene, NEW r \in Runs, Lapse(r)
    PROVE  Steps(r)
<1>0. LedgerType /\ r \in DOMAIN leases /\ leases \in Ledgers /\ UNCHANGED <<foreign>>
  BY DEF Inv, Lapse, lease_live, LedgerType
<1>1. leases \in [DOMAIN leases -> Lease] /\ DOMAIN leases \subseteq Runs /\ leases[r] \in Lease
  BY <1>0, LedgerElim
<1>2. [leases[r] EXCEPT !.expired = TRUE] \in Lease
      /\ [leases[r] EXCEPT !.expired = TRUE].reserve = leases[r].reserve
  BY <1>1, Zenon DEF Lease
<1>3. leases' = [leases EXCEPT ![r] = [leases[r] EXCEPT !.expired = TRUE]]
  BY <1>0 DEF Lapse
<1>4. /\ leases' \in [DOMAIN leases -> Lease] /\ DOMAIN leases' = DOMAIN leases
      /\ \A q \in DOMAIN leases : leases'[q].reserve = leases[q].reserve
  BY <1>0, <1>1, <1>2, <1>3
<1>5. leases' \in Ledgers
  BY <1>1, <1>4 DEF Ledgers
<1>6. LedgerType'
  BY <1>0, <1>5 DEF LedgerType, Lapse, ledger_task, engine
<1>7. \A q \in Runs : Same(q)
  BY <1>4, Zenon DEF Same, Lapse, ledger_task, engine
<1> QED
  BY <1>6, <1>7, Frame DEF Steps, Inv

LEMMA ReapStep ==
    ASSUME Inv, scene' = scene, NEW r \in Runs, Reap(r)
    PROVE  Steps(r)
<1>0. LedgerType /\ RunInv(r)
  BY DEF Inv
<1>1. LedgerType'
  BY <1>0, ZeroAmount, Zenon DEF LedgerType, Reap, ledger_task, engine
<1>2. \A q \in Runs \ {r} : Same(q)
  BY <1>0, Zenon DEF Same, LedgerType, Reap, ledger_task, engine
<1>3. /\ up'[r] = ZERO /\ Want'[r] = Want[r]
      /\ UNCHANGED <<leases, pc, task, live, target, prev, chan, available, committed, reported, borrowed>>
  BY <1>0, Zenon DEF LedgerType, Reap, ledger_task, engine, Want
<1>4. committed[r] \in Amount /\ (r \in DOMAIN leases => Reserved(r) \in Amount)
  BY <1>0, LedgerElim DEF LedgerType, Reserved
<1> QED
  BY <1>0, <1>1, <1>2, <1>3, <1>4, ZeroFits, Zenon
  DEF Steps, RunInv, PollInv, EngineInv, CoverInv, Reserved

RunStep(r) ==
    \/ AcquireSweep(r) \/ AcquireList(r) \/ AcquirePods(r) \/ AcquireWrite(r)
    \/ AcquireFails(r)
    \/ Tick(r) \/ ReconcileList(r) \/ ReconcilePods(r) \/ Renew(r) \/ ReconcileFails(r)
    \/ SeeCeiling(r) \/ Admit(r) \/ Deploy(r) \/ Finish(r) \/ Release(r)
    \/ LateRenewal(r) \/ Crash(r) \/ Lapse(r) \/ Reap(r)

LEMMA StepOfRun ==
    ASSUME Prompt, Inv, scene' = scene, NEW r \in Runs, RunStep(r)
    PROVE  Steps(r)
  BY SweepStep, ListStep, PodsStep, WriteStep, AcquireFailsStep, TickStep,
     ReconcileListStep, ReconcilePodsStep, RenewStep, ReconcileFailsStep, CeilingStep, AdmitStep,
     DeployStep, FinishStep, ReleaseStep, LateStep, CrashStep, LapseStep, ReapStep
  DEF RunStep

(* The invariant is inductive, when the engine sees each ceiling before    *)
(* the next tick.                                                          *)
LEMMA StepInv == ASSUME Prompt, Inv, [Next]_vars PROVE Inv'
<1>1. CASE scene' = scene /\ \E r \in Runs : RunStep(r)
  <2>1. PICK r \in Runs : RunStep(r)
    BY <1>1
  <2>2. Steps(r)
    BY <1>1, <2>1, StepOfRun
  <2> QED
    BY <2>2, StepsInv
<1>2. CASE scene' = scene /\ \E load \in scene.foreign : ForeignMoves(load)
  <2>1. PICK load \in scene.foreign : ForeignMoves(load)
    BY <1>2, Zenon
  <2>2. load \in Amount
    BY <1>2, LedgerAssumption, Zenon DEF Inv, LedgerType
  <2>3. LedgerType'
    BY <1>2, <2>1, <2>2, Zenon DEF Inv, LedgerType, ForeignMoves, ledger_task, engine
  <2>4. \A r \in Runs : Same(r)
    BY <1>2, <2>1 DEF Same, ForeignMoves, ledger_task, engine
  <2> QED
    BY <2>3, <2>4, Frame, Zenon DEF Inv
<1>3. CASE UNCHANGED vars
  <2>1. LedgerType'
    BY <1>3 DEF Inv, LedgerType, vars, ledger_task, engine
  <2>2. \A r \in Runs : Same(r)
    BY <1>3, Zenon DEF Same, vars, ledger_task, engine
  <2> QED
    BY <2>1, <2>2, Frame DEF Inv
<1> QED
  BY <1>1, <1>2, <1>3, Zenon DEF Next, Finished, RunStep

-----------------------------------------------------------------------------
(***************************************************************************)
(* A run's lease, while it stands, covers what its engine admitted and may *)
(* still admit (ledger.rs, drive), provided the engine sees a published    *)
(* ceiling before the next tick.                                           *)
(***************************************************************************)
THEOREM LeaseCovers == Prompt => (Spec => []LeaseCoversRun)
<1> SUFFICES ASSUME Prompt PROVE Spec => []LeaseCoversRun
  OBVIOUS
<1>1. Inv => LeaseCoversRun
  BY Zenon DEF Inv, RunInv, CoverInv, LeaseCoversRun
<1> QED
  BY <1>1, InitInv, StepInv, PTL DEF Spec

(* Without --no-cleanup no pod outlives its test's slot.                   *)
LEMMA KeptStep == ASSUME ~ KeepPods, LedgerType, NothingKept, [Next]_vars PROVE NothingKept'
<1>1. ASSUME NEW r \in Runs, RunStep(r) PROVE NothingKept'
  <2>1. CASE Reap(r)
    BY <2>1, Zenon DEF Reap, NothingKept, LedgerType
  <2>2. CASE ~ Reap(r)
    <3>1. kept' = kept
      BY <1>1, <2>2, Zenon
      DEF RunStep, AcquireSweep, AcquireList, AcquirePods, AcquireWrite, AcquireFails, Tick,
          ReconcileList, ReconcilePods, Renew, ReconcileFails, SeeCeiling, Admit, Deploy, Finish,
          Release, LateRenewal, Crash, Lapse
    <3> QED
      BY <3>1 DEF NothingKept
  <2> QED
    BY <2>1, <2>2
<1>2. ASSUME NEW load, ForeignMoves(load) PROVE NothingKept'
  BY <1>2 DEF ForeignMoves, NothingKept
<1>3. CASE UNCHANGED vars
  BY <1>3 DEF vars, NothingKept
<1> QED
  BY <1>1, <1>2, <1>3, Zenon DEF Next, Finished, RunStep

(***************************************************************************)
(* No leased run's pods use more than it reserved, dead or alive, whatever *)
(* sweeps, late renewals and reaps came between (ledger.rs,                *)
(* assert_invariant), when pods go before their test's slot and the engine *)
(* sees a ceiling before the next tick.                                    *)
(***************************************************************************)
THEOREM PodsCovered == Prompt /\ ~ KeepPods => (Spec => []PodsWithinReservation)
<1> SUFFICES ASSUME Prompt, ~ KeepPods PROVE Spec => []PodsWithinReservation
  OBVIOUS
<1>1. ASSUME Init PROVE NothingKept
  <2>1. kept = [r \in Runs |-> ZERO]
    BY <1>1, Zenon DEF Init
  <2> QED
    BY <2>1, Zenon DEF NothingKept
<1>2. ASSUME Inv, NothingKept PROVE PodsWithinReservation
  <2> SUFFICES ASSUME NEW r \in DOMAIN leases, NEW d \in Dims
               PROVE  pods(r)[d] <= Reserved(r)[d]
    BY DEF PodsWithinReservation, fits_within
  <2>1. r \in Runs /\ Reserved(r) \in Amount /\ LedgerType
    BY <1>2, LedgerElim, Zenon DEF Inv, LedgerType, Reserved
  <2>2. up[r] \in Amount /\ kept[r] = ZERO
    BY <1>2, <2>1, Zenon DEF LedgerType, NothingKept
  <2>3. up[r][d] \in 0 .. U64Max /\ ZERO[d] = 0
    BY <2>2, ZeroAmount, AmountElim, Zenon
  <2>4. pods(r)[d] = up[r][d]
    <3>1. pods(r)[d] = IF up[r][d] + ZERO[d] <= U64Max THEN up[r][d] + ZERO[d] ELSE U64Max
      BY <2>2, Zenon DEF pods, saturating_add
    <3> QED
      BY <2>3, <3>1, ResourcesAssumption
  <2>5. up[r][d] <= Reserved(r)[d]
    BY <1>2, <2>1, Zenon DEF Inv, RunInv, CoverInv, fits_within
  <2> QED
    BY <2>4, <2>5, Zenon
<1>3. Inv => LedgerType
  BY DEF Inv
<1> QED
  BY <1>1, <1>2, <1>3, InitInv, StepInv, KeptStep, PTL DEF Spec

Old(r, d) == IF r \in DOMAIN leases THEN Reserved(r)[d] ELSE 0

LEMMA Beyond ==
    ASSUME NEW n \in Nat, NEW o \in Nat, NEW p \in Nat, n > o, p <= o
    PROVE  ~ (n <= p) /\ n # p
  OBVIOUS

LEMMA Positive == ASSUME NEW n \in Nat, NEW o \in Nat, n > o PROVE n # 0
  OBVIOUS

LEMMA Irreflexive == ASSUME NEW n \in Nat, n > n PROVE FALSE
  OBVIOUS

(* Where a lease that is acquired, or grows while it stands, comes from.   *)
LEMMA Growth ==
    ASSUME Inv, NEW r \in Runs, NEW d \in Dims, RunStep(r), leases' \in Ledgers,
           r \in DOMAIN leases', leases'[r].reserve[d] > Old(r, d),
           pc[r] = "write" \/ (pc[r] = "run" /\ r \in DOMAIN leases)
    PROVE  leases'[r].reserve[d] + sum_reservations(live[r], r)[d] <= Allocatable[d]
<1>0. /\ LedgerType /\ RunInv(r) /\ target[r] \in Amount /\ prev[r] \in Amount
      /\ borrowed[r].committed \in Amount
      /\ r \in DOMAIN leases => Reserved(r) \in Amount
  BY LedgerElim DEF Inv, LedgerType, Demand, Reserved
<1>1. /\ target[r][d] \in Nat /\ prev[r][d] \in Nat /\ borrowed[r].committed[d] \in Nat
      /\ r \in DOMAIN leases => Reserved(r)[d] \in Nat
      /\ Old(r, d) \in Nat
  BY <1>0, AmountElim, Zenon DEF Old
<1>2. CASE pc[r] = "write" /\ write(r, target[r], FALSE)
  <2>1. leases'[r].reserve = target[r]
    BY <1>0, <1>2, Written, Zenon
  <2>2. target[r][d] > Old(r, d)
    BY <2>1, Zenon
  <2>3. target[r][d] # 0
    BY <1>1, <2>2, Positive, Zenon
  <2> QED
    BY <1>0, <1>2, <2>1, <2>3, Zenon DEF RunInv, PollInv
<1>3. CASE pc[r] = "run" /\ r \in DOMAIN leases /\ task[r] = "renew" /\ leases'[r].reserve = renewed(r)
  <2>1. /\ prev[r][d] <= Reserved(r)[d] /\ borrowed[r].committed[d] <= Reserved(r)[d]
        /\ Old(r, d) = Reserved(r)[d]
    BY <1>0, <1>3, Zenon DEF RunInv, CoverInv, fits_within, Old
  <2>2. renewed(r)[d] = target[r][d] \/ renewed(r)[d] = prev[r][d]
    BY <1>0, Arith, Zenon DEF renewed
  <2>3. /\ renewed(r)[d] = target[r][d] /\ ~ (target[r][d] <= prev[r][d])
        /\ ~ (target[r][d] <= borrowed[r].committed[d])
    <3>1. leases'[r].reserve[d] = renewed(r)[d] /\ Reserved(r)[d] \in Nat
      BY <1>1, <1>3, Zenon
    <3>2. renewed(r)[d] > Reserved(r)[d]
      BY <2>1, <3>1, Zenon
    <3>3. /\ ~ (renewed(r)[d] <= prev[r][d]) /\ renewed(r)[d] # prev[r][d]
          /\ ~ (renewed(r)[d] <= borrowed[r].committed[d])
      BY <1>1, <2>1, <2>2, <3>1, <3>2, Beyond, Zenon
    <3> QED
      BY <2>2, <3>3, Zenon
  <2> QED
    BY <1>0, <1>3, <2>3, Zenon DEF RunInv, EngineInv
<1>4. CASE \A x \in DOMAIN leases' : x \in DOMAIN leases /\ leases'[x].reserve = leases[x].reserve
  <2>1. leases'[r].reserve[d] = Old(r, d)
    BY <1>4, Zenon DEF Old, Reserved
  <2>2. Old(r, d) > Old(r, d)
    BY <2>1, Zenon
  <2> QED
    BY <1>1, <2>2, Irreflexive, Zenon
<1>5. CASE leases' = leases \/ \E D : leases' = Remove(leases, D)
  <2>1. \A x \in DOMAIN leases' : x \in DOMAIN leases /\ leases'[x].reserve = leases[x].reserve
    BY <1>0, <1>5, Removed, Zenon
  <2> QED
    BY <1>4, <2>1, Zenon
<1>6. CASE Renew(r)
  <2>1. leases'[r].reserve = renewed(r)
    BY <1>6, Zenon DEF Renew, Insert
  <2> QED
    BY <1>3, <1>6, <2>1, Zenon DEF Renew
<1>7. CASE ReconcileFails(r)
  <2>1. CASE task[r] = "renew" /\ write(r, renewed(r), FALSE)
    <3>1. leases'[r].reserve = renewed(r)
      BY <2>1, Zenon DEF write, Insert
    <3> QED
      BY <1>3, <1>7, <2>1, <3>1, Zenon DEF ReconcileFails
  <2>2. CASE leases' = leases \/ \E D : leases' = Remove(leases, D)
    BY <1>5, <2>2, Zenon
  <2> QED
    BY <1>7, <2>1, <2>2, Zenon DEF ReconcileFails
<1>8. CASE Lapse(r)
  <2>1. leases \in [DOMAIN leases -> Lease] /\ r \in DOMAIN leases /\ leases[r] \in Lease
    BY <1>0, <1>8, LedgerElim DEF LedgerType, Lapse, lease_live
  <2>2. [leases[r] EXCEPT !.expired = TRUE].reserve = leases[r].reserve
    BY <2>1 DEF Lease
  <2>3. leases' = [leases EXCEPT ![r] = [leases[r] EXCEPT !.expired = TRUE]]
    BY <1>8, Zenon DEF Lapse
  <2> QED
    BY <1>4, <2>1, <2>2, <2>3
<1>9. CASE AcquireWrite(r)
  BY <1>2, <1>9, Zenon DEF AcquireWrite
<1>10. CASE AcquireFails(r)
  <2>1. CASE pc[r] = "write" /\ write(r, target[r], FALSE)
    BY <1>2, <2>1, Zenon
  <2>2. CASE leases' = leases \/ \E D : leases' = Remove(leases, D)
    BY <1>5, <2>2, Zenon
  <2> QED
    BY <1>10, <2>1, <2>2, Zenon DEF AcquireFails
<1>11. CASE AcquireSweep(r) \/ AcquireList(r) \/ AcquirePods(r) \/ LateRenewal(r)
  BY <1>11, Zenon DEF AcquireSweep, AcquireList, AcquirePods, LateRenewal
<1>12. CASE \/ Tick(r) \/ ReconcileList(r) \/ ReconcilePods(r) \/ SeeCeiling(r) \/ Admit(r)
            \/ Deploy(r) \/ Finish(r) \/ Release(r) \/ Crash(r) \/ Reap(r)
  <2>1. leases' = leases \/ leases' = Remove(leases, doomed[r]) \/ leases' = Remove(leases, {r})
    BY <1>12, Zenon
    DEF Tick, ReconcileList, ReconcilePods, SeeCeiling, Admit, Deploy, Finish, Release,
                 Crash, Reap
  <2> QED
    BY <1>5, <2>1, Zenon
<1> QED
  BY <1>6, <1>7, <1>8, <1>9, <1>10, <1>11, <1>12, Zenon DEF RunStep

(***************************************************************************)
(* A run that acquires its lease, or grows one that stands, takes only     *)
(* what it saw free: if the peers reserve no more than they did when it    *)
(* listed the ledger, the reservations stay within the cluster (ledger.rs, *)
(* acquire and fair_reserve), when the engine sees a ceiling before the    *)
(* next tick.                                                              *)
(***************************************************************************)
THEOREM GrowthQuiet == Prompt => (Spec => QuietGrowthNeverOvercommits)
<1> SUFFICES ASSUME Prompt PROVE Spec => QuietGrowthNeverOvercommits
  OBVIOUS
<1> DEFINE Quiet ==
      leases' # leases => \A r \in Runs, d \in Dims :
        LET old == IF r \in DOMAIN leases THEN Reserved(r)[d] ELSE 0
        IN  /\ r \in DOMAIN leases' /\ leases'[r].reserve[d] > old
            /\ pc[r] = "write" \/ (pc[r] = "run" /\ r \in DOMAIN leases)
            /\ sum_reservations(leases, r)[d] <= sum_reservations(live[r], r)[d]
            => saturating_add(leases'[r].reserve, sum_reservations(leases, r))[d]
                 <= Allocatable[d]
<1>1. ASSUME Inv, [Next]_vars PROVE [Quiet]_vars
  <2> SUFFICES ASSUME leases' # leases, NEW r \in Runs, NEW d \in Dims,
                      r \in DOMAIN leases', leases'[r].reserve[d] > Old(r, d),
                      pc[r] = "write" \/ (pc[r] = "run" /\ r \in DOMAIN leases),
                      sum_reservations(leases, r)[d] <= sum_reservations(live[r], r)[d]
               PROVE  saturating_add(leases'[r].reserve, sum_reservations(leases, r))[d]
                        <= Allocatable[d]
    BY Zenon DEF Old
  <2>1. scene' = scene /\ \E q \in Runs : RunStep(q)
    BY <1>1, Zenon DEF Next, Finished, RunStep, vars, ForeignMoves
  <2>2. PICK q \in Runs : RunStep(q)
    BY <2>1, Zenon
  <2>3. Steps(q)
    BY <1>1, <2>1, <2>2, StepOfRun
  <2>4. leases' \in Ledgers /\ leases'[r].reserve \in Amount
    BY <2>3, LedgerElim DEF Steps, LedgerType
  <2>5. q = r
    <3> SUFFICES ASSUME q # r PROVE FALSE
      BY Zenon
    <3>1. r \in DOMAIN leases /\ leases'[r].reserve = leases[r].reserve
      BY <2>3, Zenon DEF Steps, Same
    <3>2. Old(r, d) = leases'[r].reserve[d] /\ leases'[r].reserve[d] \in Nat
      BY <2>4, <3>1, AmountElim DEF Old, Reserved
    <3> QED
      BY <3>2
  <2>6. leases'[r].reserve[d] + sum_reservations(live[r], r)[d] <= Allocatable[d]
    BY <1>1, <2>2, <2>4, <2>5, Growth, Zenon
  <2>7. /\ saturating_add(leases'[r].reserve, sum_reservations(leases, r))[d]
             <= leases'[r].reserve[d] + sum_reservations(leases, r)[d]
        /\ saturating_add(leases'[r].reserve, sum_reservations(leases, r))[d] \in Nat
    BY <2>4, SumType, Arith, ArithType, AmountElim, Zenon
  <2>8. /\ leases'[r].reserve[d] \in Nat /\ sum_reservations(leases, r)[d] \in Nat
        /\ sum_reservations(live[r], r)[d] \in Nat /\ Allocatable[d] \in Nat
    BY <2>4, SumType, AmountElim, LedgerAssumption, Zenon
  <2> QED
    BY <2>6, <2>7, <2>8, Chain, Zenon
<1> QED
  BY <1>1, InitInv, StepInv, PTL DEF Spec, QuietGrowthNeverOvercommits

=============================================================================
