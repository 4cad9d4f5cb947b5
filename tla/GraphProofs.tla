----------------------------- MODULE GraphProofs ----------------------------
(***************************************************************************)
(* Proofs about Graph, for every finite set of nodes, every shape, every   *)
(* cap and every choice of cached nodes; then about BuildSlot, the one     *)
(* build pod of a cluster.                                                 *)
(***************************************************************************)
EXTENDS Graph, BuildSlot, WellFoundedInduction, FiniteSetTheorems, TLAPS

(* A nonempty set of naturals has a least element.                         *)
LEMMA NatMinimum ==
  ASSUME NEW S \in SUBSET Nat, S # {}
  PROVE  \E m \in S : \A k \in S : m <= k
<1> DEFINE R == OpToRel(<, Nat)
<1>1. R = {p \in Nat \X Nat : p[1] < p[2]}
  BY DEF OpToRel
<1>2. IsWellFoundedOn(R, Nat)
  BY NatLessThanWellFounded, Zenon
<1> HIDE DEF R
<1>3. PICK m \in S : \A k \in S : ~ (<<k, m>> \in R)
  BY <1>2, WFMin, Zenon
<1>4. ASSUME NEW k \in S PROVE m <= k
  <2>1. k \in Nat /\ m \in Nat
    OBVIOUS
  <2>2. k < m => <<k, m>> \in R
    BY <2>1, <1>1
  <2>3. QED
    BY <1>3, <2>1, <2>2
<1>5. QED
  BY <1>4

(* What Kahn's loop keeps true: the queue holds the unpeeled nodes whose   *)
(* dependencies are peeled, and every set the peeling has entered was      *)
(* entered through a node with no dependency in it.                        *)
KahnInv ==
  /\ phase = "built" => peeled = {}
  /\ phase = "validating" =>
       /\ \A n \in Nodes : deps[n] \subseteq Nodes
       /\ \A n \in Nodes : indegree[n] = Cardinality(deps[n] \ peeled)
       /\ queue = {n \in Nodes \ peeled : deps[n] \subseteq peeled}
       /\ \A n \in peeled : deps[n] \subseteq peeled
       /\ \A S \in SUBSET Nodes :
            S \cap peeled # {} => \E n \in S \cap peeled : deps[n] \cap S = {}

LEMMA DepsFinite ==
  ASSUME deps \in Shapes, NEW n \in Nodes, NEW P
  PROVE  /\ IsFiniteSet(deps[n] \ P)
         /\ Cardinality(deps[n] \ P) \in Nat
         /\ Cardinality(deps[n] \ P) = 0 <=> deps[n] \subseteq P
<1>1. IsFiniteSet(deps[n])
  BY GraphAssumption
<1>2. IsFiniteSet(deps[n] \ P)
  BY <1>1, FS_Difference, Zenon
<1>3. Cardinality(deps[n] \ P) = 0 <=> deps[n] \ P = {}
  BY <1>2, FS_EmptySet
<1> QED
  BY <1>2, <1>3, FS_CardinalityType

LEMMA DepsPeel ==
  ASSUME deps \in Shapes, NEW m \in Nodes, NEW P, NEW n, n \notin P
  PROVE  Cardinality(deps[m] \ (P \cup {n})) =
           IF n \in deps[m] THEN Cardinality(deps[m] \ P) - 1 ELSE Cardinality(deps[m] \ P)
<1>1. IsFiniteSet(deps[m] \ P)
  BY DepsFinite
<1>2. CASE n \in deps[m]
  <2>1. deps[m] \ (P \cup {n}) = (deps[m] \ P) \ {n}
    OBVIOUS
  <2>2. n \in deps[m] \ P
    BY <1>2
  <2> QED
    BY <1>1, <1>2, <2>1, <2>2, FS_RemoveElement
<1>3. CASE n \notin deps[m]
  <2>1. deps[m] \ (P \cup {n}) = deps[m] \ P
    BY <1>3
  <2> QED
    BY <1>3, <2>1
<1> QED
  BY <1>2, <1>3

(* Every step keeps the types; only Peel needs Kahn's invariant for it.    *)
LEMMA TypeStep == TypeOK /\ KahnInv /\ [Next]_vars => TypeOK'
<1> SUFFICES ASSUME TypeOK, KahnInv, [Next]_vars
             PROVE  TypeOK'
  OBVIOUS
<1> USE DEF TypeOK
<1>1. CASE Validate
  <2>1. CASE \A n \in Nodes : deps[n] \subseteq Nodes
    <3>1. indegree' = [n \in Nodes |-> Cardinality(deps[n])]
      BY <1>1, <2>1 DEF Validate
    <3>2. \A n \in Nodes : Cardinality(deps[n]) \in Nat
      BY GraphAssumption, FS_CardinalityType
    <3> QED
      BY <1>1, <2>1, <3>1, <3>2 DEF Validate, down
  <2>2. CASE ~ \A n \in Nodes : deps[n] \subseteq Nodes
    BY <1>1, <2>2 DEF Validate, kahn, down
  <2> QED
    BY <2>1, <2>2
<1>2. CASE Validated
  BY <1>2 DEF Validated, kahn, down
<1>3. CASE Teardown
  BY <1>3 DEF Teardown, kahn
<1>4. CASE Sweep
  BY <1>4 DEF Sweep, kahn
<1>5. ASSUME NEW n \in Nodes, Peel(n)
      PROVE  TypeOK'
  <2>1. n \notin peeled
    BY <1>5 DEF Peel, KahnInv
  <2>2. \A m \in Nodes : indegree'[m] = Cardinality(deps[m] \ (peeled \cup {n}))
    BY <1>5, <2>1, DepsPeel, Zenon DEF Peel, KahnInv
  <2>3. \A m \in Nodes : indegree'[m] \in Nat
    <3> DEFINE P == peeled \cup {n}
    <3>1. \A m \in Nodes : indegree'[m] = Cardinality(deps[m] \ P)
      BY <2>2
    <3> HIDE DEF P
    <3>2. deps \in Shapes
      OBVIOUS
    <3>3. \A m \in Nodes : Cardinality(deps[m] \ P) \in Nat
      BY <3>2, DepsFinite, Zenon
    <3> QED
      BY <3>1, <3>3, Zenon
  <2>4. indegree' \in [Nodes -> Nat]
    BY <1>5, <2>3 DEF Peel
  <2> QED
    BY <1>5, <2>4 DEF Peel, down
<1>6. ASSUME NEW run \in SUBSET Nodes, Round(run)
      PROVE  TypeOK'
  BY <1>6 DEF Round, kahn, down, NodeState
<1>7. ASSUME NEW n \in Nodes, NEW result \in run_one, Resolve(n, result)
      PROVE  TypeOK'
  BY <1>7, Zenon DEF Resolve, run_one, kahn, down, NodeState
<1>8. ASSUME NEW n \in Nodes, NEW ok \in BOOLEAN, Removed(n, ok)
      PROVE  TypeOK'
  BY <1>8, Zenon DEF Removed, kahn
<1>9. CASE UNCHANGED vars
  BY <1>9 DEF vars, kahn, down
<1> QED
  BY <1>1, <1>2, <1>3, <1>4, <1>5, <1>6, <1>7, <1>8, <1>9 DEF Next, Returned

(* Peeling keeps Kahn's invariant.                                         *)
LEMMA PeelStep ==
  ASSUME TypeOK, KahnInv, NEW n \in Nodes, Peel(n)
  PROVE  KahnInv'
<1> USE DEF TypeOK, Peel
<1> DEFINE P == peeled \cup {n}
<1>1. /\ n \notin peeled /\ deps[n] \subseteq peeled
      /\ peeled' = P /\ deps' = deps /\ phase' = "validating"
  BY DEF KahnInv
<1>2. \A m \in Nodes : indegree'[m] = Cardinality(deps[m] \ P)
  BY <1>1, DepsPeel, Zenon DEF KahnInv
<1>3. \A m \in Nodes : indegree'[m] = 0 <=> deps[m] \subseteq P
  <2> HIDE DEF P, Peel
  <2> QED
    BY <1>2, DepsFinite, Zenon
<1>4. \A m \in peeled : deps[m] \subseteq peeled
  BY DEF KahnInv
<1>5. queue' = {m \in Nodes \ P : deps[m] \subseteq P}
  <2>1. queue' = (queue \ {n}) \cup {m \in Nodes : n \in deps[m] /\ deps[m] \subseteq P}
    BY <1>3
  <2>2. queue = {m \in Nodes \ peeled : deps[m] \subseteq peeled}
    BY DEF KahnInv
  <2> HIDE DEF TypeOK, Peel
  <2>3. ASSUME NEW m \in Nodes
        PROVE  m \in queue' <=> m \in Nodes \ P /\ deps[m] \subseteq P
    <3>1. CASE m = n
      BY <1>1, <2>1, <3>1
    <3>2. CASE m \in peeled
      BY <1>1, <1>4, <2>1, <2>2, <3>2
    <3>3. CASE m \notin P
      BY <2>1, <2>2, <3>3
    <3> QED
      BY <3>1, <3>2, <3>3
  <2>4. queue' \subseteq Nodes
    BY <2>1, <2>2
  <2> QED
    BY <2>3, <2>4
<1>6. \A m \in P : deps[m] \subseteq P
  BY <1>1, <1>4
<1>7. ASSUME NEW S \in SUBSET Nodes, S \cap P # {}
      PROVE  \E m \in S \cap P : deps[m] \cap S = {}
  <2>1. CASE S \cap peeled # {}
    BY <2>1 DEF KahnInv
  <2>2. CASE S \cap peeled = {}
    BY <1>1, <1>7, <2>2
  <2> QED
    BY <2>1, <2>2
<1>8. \A m \in Nodes : deps[m] \subseteq Nodes
  BY DEF KahnInv
<1> QED
  BY <1>1, <1>2, <1>5, <1>6, <1>7, <1>8, Zenon DEF KahnInv

LEMMA KahnStep == TypeOK /\ KahnInv /\ [Next]_vars => KahnInv'
<1> SUFFICES ASSUME TypeOK, KahnInv, [Next]_vars
             PROVE  KahnInv'
  OBVIOUS
<1>1. CASE Validate
  <2>1. peeled = {} /\ deps' = deps /\ peeled' = peeled
    BY <1>1 DEF Validate, KahnInv, kahn
  <2>2. CASE \A n \in Nodes : deps[n] \subseteq Nodes
    <3>1. \A n \in Nodes : deps[n] \ peeled = deps[n]
      BY <2>1
    <3>2. /\ phase' = "validating"
          /\ indegree' = [n \in Nodes |-> Cardinality(deps[n])]
          /\ queue' = {n \in Nodes : indegree'[n] = 0}
      BY <1>1, <2>2 DEF Validate
    <3>3. \A n \in Nodes : indegree'[n] = 0 <=> deps[n] \subseteq peeled
      BY <3>1, <3>2, DepsFinite, Zenon DEF TypeOK
    <3>4. queue' = {n \in Nodes \ peeled : deps[n] \subseteq peeled}
      BY <2>1, <3>2, <3>3
    <3> QED
      BY <2>1, <2>2, <3>1, <3>2, <3>4 DEF KahnInv
  <2>3. CASE ~ \A n \in Nodes : deps[n] \subseteq Nodes
    BY <1>1, <2>3 DEF Validate, KahnInv
  <2> QED
    BY <2>2, <2>3
<1>2. ASSUME NEW n \in Nodes, Peel(n)
      PROVE  KahnInv'
  BY <1>2, PeelStep
<1>3. CASE UNCHANGED <<deps, phase, kahn>>
  BY <1>3 DEF KahnInv, kahn
<1>4. CASE phase' \notin {"built", "validating"}
  BY <1>4 DEF KahnInv
<1>5. CASE Validated \/ Teardown \/ Sweep \/ Returned
  BY <1>3, <1>4, <1>5 DEF Validated, Teardown, Sweep, Returned, vars
<1>6. ASSUME NEW run \in SUBSET Nodes, Round(run)
      PROVE  KahnInv'
  BY <1>4, <1>6 DEF Round
<1>7. ASSUME NEW n \in Nodes, NEW result \in run_one, Resolve(n, result)
      PROVE  KahnInv'
  BY <1>3, <1>7 DEF Resolve
<1>8. ASSUME NEW n \in Nodes, NEW ok \in BOOLEAN, Removed(n, ok)
      PROVE  KahnInv'
  BY <1>3, <1>8 DEF Removed
<1>9. CASE UNCHANGED vars
  BY <1>3, <1>9 DEF vars
<1> QED
  BY <1>1, <1>2, <1>5, <1>6, <1>7, <1>8, <1>9 DEF Next

LEMMA InitTypes == Init => TypeOK /\ KahnInv
<1> SUFFICES ASSUME Init
             PROVE  TypeOK /\ KahnInv
  OBVIOUS
<1>1. cap \in Nat \ {0}
  BY GraphAssumption DEF Init
<1>2. TypeOK
  BY <1>1, Zenon DEF Init, TypeOK, NodeState
<1>3. KahnInv
  BY DEF Init, KahnInv
<1> QED
  BY <1>2, <1>3

(***************************************************************************)
(* Every variable keeps its type: no indegree of `validate` goes below     *)
(* zero, whatever order the map yields the nodes in.                       *)
(***************************************************************************)
THEOREM TypeCorrect == Spec => [](TypeOK /\ KahnInv)
<1>1. TypeOK /\ KahnInv /\ [Next]_vars => (TypeOK /\ KahnInv)'
  BY TypeStep, KahnStep
<1> QED
  BY InitTypes, <1>1, PTL DEF Spec

-----------------------------------------------------------------------------
(* validate *)

LEMMA ValidateStep ==
  TypeOK /\ KahnInv /\ ValidateExact /\ [Next]_vars => ValidateExact'
<1> SUFFICES ASSUME TypeOK, KahnInv, ValidateExact, [Next]_vars
             PROVE  ValidateExact'
  OBVIOUS
<1>1. deps' = deps
  BY DEF Next, Validate, Validated, Teardown, Sweep, Returned, Peel, Round, Resolve, Removed, vars
<1>2. WellFormed' <=> WellFormed
  BY <1>1 DEF WellFormed, Acyclic
<1>3. CASE Validate
  BY <1>2, <1>3 DEF Validate, ValidateExact, WellFormed
<1>4. CASE Validated
  <2>1. \A n \in Nodes : deps[n] \subseteq Nodes
    BY <1>4 DEF Validated, KahnInv
  <2>2. CASE peeled = Nodes
    <3>1. Acyclic
      BY <1>4, <2>2 DEF Validated, KahnInv, Acyclic
    <3> QED
      BY <1>2, <1>4, <2>1, <2>2, <3>1 DEF Validated, ValidateExact, WellFormed
  <2>3. CASE peeled # Nodes
    <3> DEFINE S == Nodes \ peeled
    <3>1. S # {} /\ S \in SUBSET Nodes
      BY <2>3 DEF TypeOK
    <3>2. \A n \in S : ~ deps[n] \subseteq peeled
      BY <1>4 DEF Validated, KahnInv
    <3>3. \A n \in S : deps[n] \cap S # {}
      BY <2>1, <3>2
    <3>4. ~ Acyclic
      BY <3>1, <3>3, Zenon DEF Acyclic
    <3> QED
      BY <1>2, <1>4, <2>3, <3>4 DEF Validated, ValidateExact, WellFormed
  <2> QED
    BY <2>2, <2>3
<1>5. CASE phase' = phase
  BY <1>2, <1>5 DEF ValidateExact
<1>6. CASE /\ phase \notin {"built", "validating", "rejected"}
           /\ phase' \notin {"built", "validating", "rejected"}
  BY <1>2, <1>6 DEF ValidateExact
<1>7. CASE Teardown
  BY <1>6, <1>7 DEF Teardown
<1>8. CASE Sweep
  BY <1>6, <1>8 DEF Sweep
<1>9. ASSUME NEW run \in SUBSET Nodes, Round(run)
      PROVE  ValidateExact'
  BY <1>6, <1>9 DEF Round
<1> QED
  BY <1>3, <1>4, <1>5, <1>7, <1>8, <1>9 DEF Next, Returned, Peel, Resolve, Removed, vars

(***************************************************************************)
(* `validate` accepts exactly the graphs whose deps all exist and that     *)
(* have no cycle.                                                          *)
(***************************************************************************)
THEOREM ValidateCorrect == Spec => []ValidateExact
<1>1. Init => ValidateExact
  BY DEF Init, ValidateExact
<1> QED
  BY <1>1, ValidateStep, TypeCorrect, PTL DEF Spec

-----------------------------------------------------------------------------
(* provision *)

(* Before provision runs nothing has happened to a node; while it runs the *)
(* nodes in flight are the ones Acquiring, within the cap.                 *)
ProvisionInv ==
  /\ phase \in {"built", "validating", "rejected"} => \A n \in Nodes : state[n] = "Pending"
  /\ phase \notin {"tearing", "torn"} =>
       /\ inflight = {n \in Nodes : state[n] = "Acquiring"}
       /\ Cardinality(inflight) <= cap
  /\ RunsOverReadyDeps

LEMMA TakenFits ==
  ASSUME TypeOK, NEW run \in taken, Cardinality(inflight) <= cap
  PROVE  Cardinality(inflight \cup run) <= cap
<1>1. IsFiniteSet(inflight) /\ IsFiniteSet(run)
  BY GraphAssumption, FS_Subset DEF TypeOK, taken, to_run
<1>2. /\ Cardinality(inflight) \in Nat /\ Cardinality(run) \in Nat
      /\ Cardinality(inflight \cap run) \in Nat
      /\ Cardinality(inflight \cup run) =
           Cardinality(inflight) + Cardinality(run) - Cardinality(inflight \cap run)
  BY <1>1, FS_Union, FS_Intersection, FS_CardinalityType, Zenon
<1>3. Cardinality(run) <= IF Cardinality(inflight) >= cap THEN 0 ELSE cap - Cardinality(inflight)
  BY DEF taken
<1> QED
  BY <1>2, <1>3 DEF TypeOK

LEMMA RoundStep ==
  ASSUME TypeOK, ValidateExact, ProvisionInv, NEW run \in SUBSET Nodes, Round(run)
  PROVE  ProvisionInv'
<1> USE DEF TypeOK
<1>1. /\ deps' = deps /\ cap' = cap
      /\ phase = "provisioning" /\ phase' \in {"provisioning", "provisioned"}
      /\ run \in taken /\ run \subseteq to_run
      /\ inflight' = inflight \cup run
      /\ inflight = {n \in Nodes : state[n] = "Acquiring"}
  BY DEF Round, ProvisionInv, taken
<1>2. /\ \A n \in to_block : state[n] = "Pending" /\ state'[n] = "Blocked"
      /\ \A n \in run : n \in Nodes \ to_block /\ state[n] = "Pending" /\ state'[n] = "Acquiring"
      /\ \A n \in Nodes \ (to_block \cup run) : state'[n] = state[n]
  BY <1>1 DEF Round, to_block, to_run
<1>3. inflight' = {n \in Nodes : state'[n] = "Acquiring"}
  BY <1>1, <1>2
<1>4. Cardinality(inflight') <= cap'
  BY <1>1, TakenFits DEF ProvisionInv
<1>5. RunsOverReadyDeps'
  <2> SUFFICES ASSUME NEW n \in Nodes
               PROVE  /\ state'[n] \in {"Acquiring", "Ready", "Failed"} =>
                           \A d \in deps[n] : state'[d] = "Ready"
                      /\ state'[n] = "Blocked" => \E d \in deps[n] : is_unavailable(state'[d])
    BY <1>1 DEF RunsOverReadyDeps
  <2>1. deps[n] \subseteq Nodes
    BY <1>1 DEF ValidateExact, WellFormed
  <2>2. \A d \in Nodes : state[d] # "Pending" => state'[d] = state[d]
    BY <1>2
  <2>3. CASE n \in to_block
    BY <1>2, <2>1, <2>2, <2>3 DEF to_block, is_unavailable
  <2>4. CASE n \in run
    BY <1>1, <1>2, <2>1, <2>2, <2>4 DEF to_run, is_ready
  <2>5. CASE n \notin to_block \cup run
    <3>1. state'[n] = state[n]
      BY <1>2, <2>5
    <3> QED
      BY <2>1, <2>2, <3>1 DEF ProvisionInv, RunsOverReadyDeps, is_unavailable
  <2> QED
    BY <2>3, <2>4, <2>5
<1> QED
  BY <1>1, <1>3, <1>4, <1>5 DEF ProvisionInv

LEMMA ResolveStep ==
  ASSUME TypeOK, ValidateExact, ProvisionInv,
         NEW n \in Nodes, NEW result \in run_one, Resolve(n, result)
  PROVE  ProvisionInv'
<1> USE DEF TypeOK
<1>1. /\ deps' = deps /\ cap' = cap /\ phase = "provisioning" /\ phase' = phase
      /\ n \in inflight /\ state[n] = "Acquiring"
      /\ result \in {"Ready", "Failed"}
      /\ state' = [state EXCEPT ![n] = result]
      /\ inflight' = inflight \ {n}
      /\ inflight = {m \in Nodes : state[m] = "Acquiring"}
      /\ Cardinality(inflight) <= cap
  BY DEF Resolve, ProvisionInv, run_one
<1>2. inflight' = {m \in Nodes : state'[m] = "Acquiring"}
  BY <1>1
<1>3. Cardinality(inflight') <= cap'
  <2>1. IsFiniteSet(inflight)
    BY GraphAssumption, FS_Subset
  <2>2. Cardinality(inflight') = Cardinality(inflight) - 1 /\ Cardinality(inflight) \in Nat
    BY <1>1, <2>1, FS_RemoveElement, FS_CardinalityType, SMTT(30)
  <2> QED
    BY <1>1, <2>2
<1>4. RunsOverReadyDeps'
  <2> SUFFICES ASSUME NEW m \in Nodes
               PROVE  /\ state'[m] \in {"Acquiring", "Ready", "Failed"} =>
                           \A d \in deps[m] : state'[d] = "Ready"
                      /\ state'[m] = "Blocked" => \E d \in deps[m] : is_unavailable(state'[d])
    BY <1>1 DEF RunsOverReadyDeps
  <2>1. deps[m] \subseteq Nodes
    BY <1>1 DEF ValidateExact, WellFormed
  <2>2. \A d \in Nodes : state[d] # "Acquiring" => state'[d] = state[d]
    BY <1>1
  <2> QED
    BY <1>1, <2>1, <2>2 DEF ProvisionInv, RunsOverReadyDeps, is_unavailable
<1> QED
  BY <1>1, <1>2, <1>3, <1>4 DEF ProvisionInv

LEMMA ProvisionStep ==
  TypeOK /\ ValidateExact /\ ProvisionInv /\ [Next]_vars => ProvisionInv'
<1> SUFFICES ASSUME TypeOK, ValidateExact, ProvisionInv, [Next]_vars
             PROVE  ProvisionInv'
  OBVIOUS
<1>1. ASSUME NEW run \in SUBSET Nodes, Round(run)
      PROVE  ProvisionInv'
  BY <1>1, RoundStep
<1>2. ASSUME NEW n \in Nodes, NEW result \in run_one, Resolve(n, result)
      PROVE  ProvisionInv'
  BY <1>2, ResolveStep
<1>3. CASE /\ UNCHANGED <<deps, cap, state, inflight>>
           /\ phase' \in {"tearing", "torn"} \/ phase \notin {"tearing", "torn"}
           /\ phase' \in {"built", "validating", "rejected"} =>
                phase \in {"built", "validating", "rejected"}
  BY <1>3 DEF ProvisionInv, RunsOverReadyDeps
<1>4. CASE Validate \/ Validated \/ Teardown
  BY <1>3, <1>4 DEF Validate, Validated, Teardown
<1>5. ASSUME NEW n \in Nodes, Peel(n)
      PROVE  ProvisionInv'
  BY <1>3, <1>5 DEF Peel
<1>6. CASE phase' \in {"tearing", "torn"} /\ deps' = deps /\ state' = state
  BY <1>6 DEF ProvisionInv, RunsOverReadyDeps
<1>7. CASE Sweep
  BY <1>6, <1>7 DEF Sweep
<1>8. ASSUME NEW n \in Nodes, NEW ok \in BOOLEAN, Removed(n, ok)
      PROVE  ProvisionInv'
  BY <1>6, <1>8 DEF Removed
<1>9. CASE UNCHANGED vars
  BY <1>9 DEF vars, ProvisionInv, RunsOverReadyDeps
<1> QED
  BY <1>1, <1>2, <1>4, <1>5, <1>7, <1>8, <1>9 DEF Next, Returned

LEMMA ProvisionInvariant == Spec => [](TypeOK /\ ValidateExact /\ ProvisionInv)
<1>1. Init => ProvisionInv
  <2>1. Cardinality({}) = 0
    BY FS_EmptySet
  <2> QED
    BY <2>1, InitTypes DEF Init, ProvisionInv, RunsOverReadyDeps, TypeOK
<1> QED
  BY <1>1, ProvisionStep, TypeCorrect, ValidateCorrect, PTL DEF Spec

(***************************************************************************)
(* A provider only ever runs over dependencies that are all Ready, and a   *)
(* node is Blocked only over one that never will be.                       *)
(***************************************************************************)
THEOREM OrderCorrect == Spec => []RunsOverReadyDeps
<1>1. ProvisionInv => RunsOverReadyDeps
  BY DEF ProvisionInv
<1> QED
  BY <1>1, ProvisionInvariant, PTL

(***************************************************************************)
(* No more than `cap` providers are ever in flight.                        *)
(***************************************************************************)
THEOREM CapCorrect == Spec => []WithinCap
<1>1. ProvisionInv => WithinCap
  BY DEF ProvisionInv, WithinCap
<1> QED
  BY <1>1, ProvisionInvariant, PTL

(***************************************************************************)
(* A NodeState never regresses.                                            *)
(***************************************************************************)
THEOREM MonotonicCorrect == Spec => Monotonic
<1> DEFINE A == \A n \in Nodes :
                  state'[n] # state[n] =>
                    /\ ~ is_terminal(state[n])
                    /\ state'[n] # "Pending"
                    /\ state[n] = "Acquiring" => state'[n] \in {"Ready", "Failed"}
<1>1. TypeOK /\ ProvisionInv /\ [Next]_vars => [A]_vars
  <2> SUFFICES ASSUME TypeOK, ProvisionInv, Next
               PROVE  A
    OBVIOUS
  <2> USE DEF TypeOK, is_terminal
  <2>1. ASSUME NEW run \in SUBSET Nodes, Round(run)
        PROVE  A
    <3>1. \A n \in run : state[n] = "Pending"
      BY <2>1 DEF Round, taken, to_run
    <3>2. \A n \in to_block : state[n] = "Pending"
      BY DEF to_block
    <3> QED
      BY <2>1, <3>1, <3>2 DEF Round
  <2>2. ASSUME NEW n \in Nodes, NEW result \in run_one, Resolve(n, result)
        PROVE  A
    BY <2>2 DEF Resolve, run_one, ProvisionInv
  <2>3. CASE state' = state
    BY <2>3
  <2> QED
    BY <2>1, <2>2, <2>3
       DEF Next, Validate, Validated, Teardown, Sweep, Returned, Peel, Removed, vars
<1> QED
  BY <1>1, ProvisionInvariant, PTL DEF Spec, Monotonic

(* On settled nodes, Ready is what no failure reaches.                     *)
LEMMA SettledIsolated ==
  ASSUME TypeOK, WellFormed, RunsOverReadyDeps,
         \A n \in Nodes : is_terminal(state[n])
  PROVE  \A n \in Nodes : state[n] = "Ready" <=> n \notin Downstream
<1> DEFINE U == {n \in Nodes : is_unavailable(state[n])}
<1> USE DEF is_terminal, is_unavailable
<1>1. \A n \in Nodes : state[n] = "Ready" <=> n \notin U
  OBVIOUS
<1>2. \A m \in Nodes : deps[m] \cap U # {} => m \in U
  BY DEF RunsOverReadyDeps
<1>3. Downstream \subseteq U
  BY <1>2, Zenon DEF Downstream
<1>4. ASSUME NEW S \in SUBSET Nodes,
             \A m \in Nodes : state[m] = "Failed" => m \in S,
             \A m \in Nodes : deps[m] \cap S # {} => m \in S
      PROVE  U \subseteq S
  <2> DEFINE B == U \ S
  <2> SUFFICES ASSUME B # {}
               PROVE  FALSE
    OBVIOUS
  <2>1. PICK n \in B : deps[n] \cap B = {}
    BY Zenon DEF WellFormed, Acyclic
  <2>2. state[n] = "Blocked"
    BY <1>4
  <2>3. PICK d \in deps[n] : is_unavailable(state[d])
    BY <2>2 DEF RunsOverReadyDeps
  <2>4. d \in Nodes
    BY <2>3 DEF WellFormed
  <2>5. d \in S
    BY <2>1, <2>3, <2>4
  <2> QED
    BY <1>4, <2>3, <2>5
<1>5. U \subseteq Downstream
  BY <1>4 DEF Downstream
<1> QED
  BY <1>1, <1>3, <1>5

(* With nothing in flight, to block or to run, nothing is Pending.         *)
LEMMA NoneLeft ==
  ASSUME TypeOK, WellFormed, \A n \in Nodes : state[n] # "Acquiring",
         to_block = {}, to_run = {}
  PROVE  \A n \in Nodes : is_terminal(state[n])
<1> DEFINE P == {n \in Nodes : state[n] = "Pending"}
<1> SUFFICES ASSUME P # {}
             PROVE  FALSE
  BY DEF TypeOK, NodeState, is_terminal
<1>1. PICK n \in P : deps[n] \cap P = {}
  BY Zenon DEF WellFormed, Acyclic
<1>2. \A d \in deps[n] : state[d] \in {"Ready", "Failed", "Blocked"}
  BY <1>1 DEF TypeOK, NodeState, WellFormed
<1>3. \A d \in deps[n] : ~ is_unavailable(state[d])
  BY <1>1 DEF to_block
<1>4. n \in to_run
  BY <1>1, <1>2, <1>3 DEF to_run, is_ready, is_unavailable
<1> QED
  BY <1>4

LEMMA IsolationStep ==
  TypeOK /\ ValidateExact /\ ProvisionInv /\ FailureIsolated /\ TypeOK' /\ ProvisionInv'
    /\ ValidateExact' /\ [Next]_vars => FailureIsolated'
<1> SUFFICES ASSUME TypeOK, ValidateExact, ProvisionInv, FailureIsolated, TypeOK',
                    ProvisionInv', ValidateExact', [Next]_vars, phase' = "provisioned"
             PROVE  FailureIsolated'
  BY DEF FailureIsolated
<1>1. ASSUME NEW run \in SUBSET Nodes, Round(run)
      PROVE  FailureIsolated'
  <2>1. /\ phase = "provisioning" /\ inflight' = {} /\ to_block = {} /\ run \in taken
        /\ inflight = {} /\ run = {}
    BY <1>1 DEF Round
  <2>2. to_run = {}
    <3>1. Cardinality({}) = 0
      BY FS_EmptySet
    <3>2. cap \in Nat \ {0}
      BY DEF TypeOK
    <3> QED
      BY <2>1, <3>1, <3>2 DEF taken
  <2>3. state' = state /\ deps' = deps
    BY <1>1, <2>1 DEF Round, TypeOK
  <2>4. WellFormed /\ WellFormed'
    BY <2>1 DEF ValidateExact
  <2>5. \A n \in Nodes : is_terminal(state[n])
    BY <2>1, <2>2, <2>4, NoneLeft DEF ProvisionInv
  <2>6. \A n \in Nodes : state[n] = "Ready" <=> n \notin Downstream
    BY <2>4, <2>5, SettledIsolated DEF ProvisionInv
  <2>7. Downstream' = Downstream
    BY <2>3 DEF Downstream
  <2> QED
    BY <2>3, <2>5, <2>6, <2>7 DEF FailureIsolated
<1>2. CASE UNCHANGED vars
  BY <1>2 DEF vars, FailureIsolated, Downstream
<1> QED
  BY <1>1, <1>2 DEF Next, Validate, Validated, Teardown, Sweep, Returned, Peel, Resolve, Removed

LEMMA IsolationInvariant ==
  Spec => [](TypeOK /\ ValidateExact /\ ProvisionInv /\ FailureIsolated)
<1>1. Init => FailureIsolated
  BY DEF Init, FailureIsolated
<1> QED
  BY <1>1, IsolationStep, ProvisionInvariant, PTL DEF Spec

(***************************************************************************)
(* provision returns with every node settled and every failure attributed. *)
(***************************************************************************)
THEOREM IsolationCorrect == Spec => []FailureIsolated
  BY IsolationInvariant, PTL

-----------------------------------------------------------------------------
(* teardown *)

(* Every nonempty set of nodes has one that no other of the set depends    *)
(* on: the last node outside a largest proper subset closed under deps.    *)
LEMMA Sink ==
  ASSUME WellFormed, NEW S \in SUBSET Nodes, S # {}
  PROVE  \E n \in S : \A m \in S : n \notin deps[m]
<1> DEFINE Closed(T) == \A m \in T : deps[m] \cap S \subseteq T
           Proper == {T \in SUBSET S : T # S /\ Closed(T)}
           sizes == {Cardinality(S \ T) : T \in Proper}
<1>1. IsFiniteSet(S)
  BY GraphAssumption, FS_Subset
<1>2. \A T \in SUBSET S : IsFiniteSet(S \ T) /\ Cardinality(S \ T) \in Nat
  BY <1>1, FS_Difference, FS_CardinalityType, Zenon
<1>3. {} \in Proper
  OBVIOUS
<1>4. sizes \subseteq Nat /\ sizes # {}
  BY <1>2, <1>3, Zenon
<1>5. PICK T \in Proper : \A V \in Proper : Cardinality(S \ T) <= Cardinality(S \ V)
  <2> HIDE DEF sizes
  <2>1. PICK k \in sizes : \A j \in sizes : k <= j
    BY <1>4, NatMinimum
  <2> USE DEF sizes
  <2> QED
    BY <2>1, Zenon
<1>6. S \ T # {} /\ S \ T \in SUBSET Nodes
  BY <1>5, Zenon
<1>7. PICK n \in S \ T : deps[n] \cap (S \ T) = {}
  BY <1>6, Zenon DEF WellFormed, Acyclic
<1>8. Closed(T \cup {n})
  BY <1>5, <1>7
<1>9. T \cup {n} = S
  <2> SUFFICES ASSUME T \cup {n} # S
               PROVE  FALSE
    OBVIOUS
  <2>1. T \cup {n} \in Proper
    BY <1>7, <1>8
  <2>2. S \ (T \cup {n}) = (S \ T) \ {n}
    OBVIOUS
  <2>3. IsFiniteSet(S \ T) /\ Cardinality(S \ T) \in Nat
    BY <1>2
  <2>4. Cardinality((S \ T) \ {n}) = Cardinality(S \ T) - 1
    <3> HIDE DEF Proper
    <3> QED
      BY <1>7, <2>3, FS_RemoveElement, Zenon
  <2>5. Cardinality(S \ T) <= Cardinality((S \ T) \ {n})
    <3> HIDE DEF Proper
    <3> QED
      BY <1>5, <2>1, <2>2, Zenon
  <2> QED
    BY <2>3, <2>4, <2>5
<1>10. \A m \in S : n \notin deps[m]
  BY <1>5, <1>7, <1>9
<1> QED
  BY <1>7, <1>10

Due == {n \in Nodes : state[n] = "Ready" /\ n \notin Cached}
Attempted == results.ok \cup results.err

(* While teardown runs, a node is in flight from its launch to its result, *)
(* and what remains is what is due and has no result.                      *)
TeardownInv ==
  /\ phase \notin {"tearing", "torn"} => launched = {} /\ Attempted = {}
  /\ phase \in {"tearing", "torn"} =>
       /\ inflight \subseteq launched
       /\ launched \subseteq Due
       /\ Attempted = launched \ inflight
       /\ remaining = Due \ Attempted
       /\ gone = Nodes \ remaining
       /\ \A n \in launched : dependents(n) \cap Due \subseteq Attempted
  /\ phase = "torn" => Attempted = Due

LEMMA SweepStep ==
  ASSUME TypeOK, ValidateExact, TeardownInv, Sweep
  PROVE  TeardownInv'
<1> DEFINE ready == {n \in remaining \ launched : dependents(n) \subseteq gone}
<1>1. /\ phase = "tearing" /\ phase' = IF inflight' = {} THEN "torn" ELSE "tearing"
      /\ launched' = launched \cup ready
      /\ inflight' = inflight \cup ready
      /\ deps' = deps /\ state' = state /\ remaining' = remaining /\ gone' = gone
      /\ results' = results
  BY DEF Sweep
<1>2. Due' = Due /\ Attempted' = Attempted /\ \A n : dependents(n)' = dependents(n)
  BY <1>1 DEF Due, Attempted, dependents
<1>3. /\ inflight \subseteq launched /\ launched \subseteq Due
      /\ Attempted = launched \ inflight
      /\ remaining = Due \ Attempted
      /\ gone = Nodes \ remaining
      /\ \A n \in launched : dependents(n) \cap Due \subseteq Attempted
  BY <1>1 DEF TeardownInv
<1>4. \A n \in ready : dependents(n) \cap Due \subseteq Attempted
  BY <1>3 DEF Due
<1>5. Attempted' = launched' \ inflight'
  BY <1>1, <1>2, <1>3
<1>6. launched' \subseteq Due /\ inflight' \subseteq launched'
  BY <1>1, <1>3
<1>7. ASSUME phase' = "torn"
      PROVE  Attempted = Due
  <2>1. inflight = {} /\ ready = {}
    BY <1>1, <1>7
  <2>2. remaining = Due \ launched
    BY <1>3, <2>1
  <2>3. CASE remaining # {}
    <3>1. WellFormed /\ remaining \in SUBSET Nodes
      BY <1>1 DEF ValidateExact, TypeOK
    <3>2. PICK n \in remaining : \A m \in remaining : n \notin deps[m]
      BY <2>3, <3>1, Sink
    <3>3. dependents(n) \subseteq gone
      BY <1>3, <3>2 DEF dependents
    <3> QED
      BY <2>1, <2>2, <3>2, <3>3
  <2> QED
    BY <1>3, <2>3
<1> HIDE DEF ready
<1> QED
  BY <1>1, <1>2, <1>3, <1>4, <1>5, <1>6, <1>7 DEF TeardownInv

LEMMA TeardownStep ==
  TypeOK /\ ValidateExact /\ ProvisionInv /\ FailureIsolated /\ TeardownInv /\ [Next]_vars
    => TeardownInv'
<1> SUFFICES ASSUME TypeOK, ValidateExact, ProvisionInv, FailureIsolated, TeardownInv,
                    [Next]_vars
             PROVE  TeardownInv'
  OBVIOUS
<1>1. CASE Sweep
  BY <1>1, SweepStep
<1>2. CASE Teardown
  <2>1. inflight = {}
    BY <1>2, SMTT(30) DEF Teardown, ProvisionInv, FailureIsolated, is_terminal
  <2>2. /\ launched = {} /\ Attempted = {} /\ Attempted' = {} /\ Due' = Due
        /\ launched' = {} /\ inflight' = {} /\ phase' = "tearing"
    BY <1>2, <2>1 DEF Teardown, TeardownInv, Attempted, Due
  <2>3. remaining' = Due
    BY <1>2 DEF Teardown, Due, is_ready, is_reaped
  <2> QED
    BY <1>2, <2>2, <2>3 DEF Teardown, TeardownInv
<1>3. ASSUME NEW n \in Nodes, NEW ok \in BOOLEAN, Removed(n, ok)
      PROVE  TeardownInv'
  <2>1. /\ phase = "tearing" /\ phase' = phase /\ n \in inflight
        /\ inflight' = inflight \ {n} /\ launched' = launched
        /\ remaining' = remaining \ {n} /\ gone' = gone \cup {n}
        /\ deps' = deps /\ state' = state
    BY <1>3 DEF Removed
  <2>2. Due' = Due /\ \A m : dependents(m)' = dependents(m)
    BY <2>1 DEF Due, dependents
  <2>3. Attempted' = Attempted \cup {n}
    BY <1>3 DEF Removed, Attempted, TypeOK
  <2> QED
    BY <2>1, <2>2, <2>3 DEF TeardownInv
<1>4. CASE /\ UNCHANGED down
           /\ phase \notin {"tearing", "torn"} /\ phase' \notin {"tearing", "torn"}
  BY <1>4 DEF TeardownInv, Attempted, down
<1>5. CASE Validate \/ Validated
  BY <1>4, <1>5 DEF Validate, Validated
<1>6. ASSUME NEW n \in Nodes, Peel(n)
      PROVE  TeardownInv'
  BY <1>4, <1>6 DEF Peel
<1>7. ASSUME NEW run \in SUBSET Nodes, Round(run)
      PROVE  TeardownInv'
  BY <1>4, <1>7 DEF Round
<1>8. ASSUME NEW n \in Nodes, NEW result \in run_one, Resolve(n, result)
      PROVE  TeardownInv'
  BY <1>4, <1>8 DEF Resolve
<1>9. CASE UNCHANGED vars
  BY <1>9 DEF vars, down, TeardownInv, Attempted, Due, dependents
<1> QED
  BY <1>1, <1>2, <1>3, <1>5, <1>6, <1>7, <1>8, <1>9 DEF Next, Returned

(***************************************************************************)
(* teardown runs in reverse order, leaves cached and never-provisioned     *)
(* nodes alone, and attempts all the rest whatever fails.                  *)
(***************************************************************************)
THEOREM TeardownCorrect == Spec => []ReverseOrder
<1>1. Init => TeardownInv
  BY DEF Init, TeardownInv, Attempted
<1>2. TypeOK /\ TeardownInv => ReverseOrder
  BY DEF TypeOK, TeardownInv, ReverseOrder, Attempted, Due
<1> QED
  BY <1>1, <1>2, TeardownStep, IsolationInvariant, PTL DEF Spec

-----------------------------------------------------------------------------
(***************************************************************************)
(* BuildSlot, which the graph does not know of: for every set of runs and  *)
(* every capacity, the build pod is never there without the reservation of *)
(* the run that made it, and nobody waits for the slot with a reservation  *)
(* in hand.                                                                *)
(***************************************************************************)

Holding == {"create", "ready", "build", "delete", "deleting", "release"}
SlotLabels == Waiting \cup Over \cup Holding \cup {"idle"}

SlotType ==
    /\ pc \in [Runs -> SlotLabels]
    /\ lease \in [Runs -> {"none", "live", "expired"}]
    /\ saw \in [Runs -> SUBSET Pod]
    /\ pod \in SUBSET Pod /\ \A p, q \in pod : p = q
    /\ uid \in Nat

(* Where a run holds its reservation, by where its Builder is.             *)
LeaseInv ==
    \A r \in Runs :
        /\ pc[r] \in Holding => lease[r] = "live"
        /\ pc[r] \in Waiting \cup {"idle"} => lease[r] = "none"
        /\ lease[r] = "expired" => pc[r] \in {"failed", "dead"}

(* Where the run that made the pod is: it makes one only, and one that is  *)
(* deleting awaits that very pod.                                          *)
OwnerInv ==
    \A p \in pod :
        /\ p.unknown => pc[p.owner] = "failed"
        /\ ~ p.unknown =>
              /\ pc[p.owner] \in {"ready", "build", "delete", "deleting", "failed", "dead"}
              /\ lease[p.owner] # "none"
        /\ pc[p.owner] = "deleting" => \E q \in saw[p.owner] : q.uid = p.uid

SlotInv == SlotType /\ LeaseInv /\ OwnerInv

USE DEF Holding, SlotLabels, Waiting, Over, Goto, SetLease, Forget

(* Nobody has begun.                                                       *)
LEMMA SlotInitInv == SlotInit => SlotInv
  BY DEF SlotInit, SlotInv, SlotType, LeaseInv, OwnerInv

(* A pod marked for deletion is the same pod to everybody.                 *)
LEMMA Marked ==
    ASSUME SlotType, pod' = {[p EXCEPT !.dying = TRUE] : p \in pod}
    PROVE  /\ pod' \in SUBSET Pod /\ \A p, q \in pod' : p = q
           /\ \A p \in pod' : \E q \in pod : p.owner = q.owner /\ p.uid = q.uid /\ p.unknown = q.unknown
<1>1. ASSUME NEW q \in pod
      PROVE  LET p == [q EXCEPT !.dying = TRUE]
             IN  p \in Pod /\ p.owner = q.owner /\ p.uid = q.uid /\ p.unknown = q.unknown
  <2>1. q \in Pod
    BY DEF SlotType
  <2> QED
    BY <2>1, Zenon DEF Pod
<1>2. \A p \in pod' : \E q \in pod : p = [q EXCEPT !.dying = TRUE]
  OBVIOUS
<1>3. \A p, q \in pod : p = q
  BY DEF SlotType
<1>4. \A p, q \in pod' : p = q
  <2> SUFFICES ASSUME NEW p \in pod', NEW q \in pod'
               PROVE  p = q
    OBVIOUS
  <2>1. PICK p0 \in pod : p = [p0 EXCEPT !.dying = TRUE]
    BY <1>2
  <2>2. PICK q0 \in pod : q = [q0 EXCEPT !.dying = TRUE]
    BY <1>2
  <2>3. p0 = q0
    BY <1>3
  <2> QED
    BY <2>1, <2>2, <2>3
<1>5. pod' \in SUBSET Pod
  BY <1>1, <1>2, Zenon
<1>6. ASSUME NEW p \in pod'
      PROVE  \E q \in pod : p.owner = q.owner /\ p.uid = q.uid /\ p.unknown = q.unknown
  <2>1. PICK q \in pod : p = [q EXCEPT !.dying = TRUE]
    BY <1>2
  <2>2. p.owner = q.owner /\ p.uid = q.uid /\ p.unknown = q.unknown
    BY <1>1, <2>1
  <2> QED
    BY <2>2
<1> QED
  BY <1>4, <1>5, <1>6

(* A step that moves one run, and touches no pod and no other lease.       *)
SlotMoves(r) ==
    /\ pc' = [pc EXCEPT ![r] = pc'[r]] /\ pc'[r] \in SlotLabels \ {"deleting"}
    /\ lease' = [lease EXCEPT ![r] = lease'[r]] /\ lease'[r] \in {"none", "live"}
    /\ saw' \in {saw, [saw EXCEPT ![r] = {}], [saw EXCEPT ![r] = pod]}
    /\ UNCHANGED <<pod, uid>>

(* What is to be shown of it concerns that run alone.                      *)
LEMMA Move ==
    ASSUME SlotInv, NEW r \in Runs, SlotMoves(r),
           pc'[r] \in Holding => lease'[r] = "live",
           pc'[r] \in Waiting \cup {"idle"} => lease'[r] = "none",
           lease'[r] = "expired" => pc'[r] \in {"failed", "dead"},
           \A p \in pod : p.owner = r =>
               /\ p.unknown => pc'[r] = "failed"
               /\ ~ p.unknown => /\ pc'[r] \in {"ready", "build", "delete", "failed", "dead"}
                                 /\ lease'[r] # "none"
    PROVE  SlotInv'
<1>1. \A q \in Runs \ {r} : pc'[q] = pc[q] /\ lease'[q] = lease[q] /\ saw'[q] = saw[q]
  BY DEF SlotMoves, SlotInv, SlotType
<1>2. SlotType'
  BY DEF SlotMoves, SlotInv, SlotType
<1>3. LeaseInv'
  BY <1>1 DEF SlotInv, LeaseInv
<1>4. OwnerInv'
  BY <1>1 DEF SlotMoves, SlotInv, OwnerInv, SlotType, Pod
<1> QED
  BY <1>2, <1>3, <1>4 DEF SlotInv

(* The steps of a run that make and delete no pod.                         *)
LEMMA SlotRunStep ==
    ASSUME SlotInv, NEW r \in Runs,
           \/ Start(r) \/ Peek(r) \/ CheckLease(r) \/ SlotFreed(r) \/ SlotFails(r) \/ Reserve(r)
           \/ CreateRaceLost(r) \/ Ready(r) \/ NotReady(r) \/ BuildOver(r) \/ DeleteFails(r)
           \/ Deleted(r) \/ Release(r) \/ Crash(r)
    PROVE  SlotInv'
<1>1. /\ pc \in [Runs -> SlotLabels] /\ lease \in [Runs -> {"none", "live", "expired"}]
      /\ saw \in [Runs -> SUBSET Pod] /\ pod \in SUBSET Pod
  BY SMTT(30) DEF SlotInv, SlotType
<1>2. \A p \in pod : p.owner = r =>
          /\ p.unknown => pc[r] = "failed"
          /\ ~ p.unknown => /\ pc[r] \in {"ready", "build", "delete", "deleting", "failed", "dead"}
                            /\ lease[r] # "none"
          /\ pc[r] = "deleting" => \E q \in saw[r] : q.uid = p.uid
  BY DEF SlotInv, OwnerInv
<1>3. /\ pc[r] \in Holding => lease[r] = "live"
      /\ pc[r] \in Waiting \cup {"idle"} => lease[r] = "none"
      /\ lease[r] = "expired" => pc[r] \in {"failed", "dead"}
  BY Zenon DEF SlotInv, LeaseInv
<1> DEFINE Shown ==
        /\ SlotMoves(r)
        /\ pc'[r] \in Holding => lease'[r] = "live"
        /\ pc'[r] \in Waiting \cup {"idle"} => lease'[r] = "none"
        /\ lease'[r] = "expired" => pc'[r] \in {"failed", "dead"}
        /\ \A p \in pod : p.owner = r =>
               /\ p.unknown => pc'[r] = "failed"
               /\ ~ p.unknown => /\ pc'[r] \in {"ready", "build", "delete", "failed", "dead"}
                                 /\ lease'[r] # "none"
<1>4. SUFFICES Shown
  BY Move, Zenon
<1>5. CASE Start(r)
  BY <1>1, <1>2, <1>3, <1>5, Zenon DEF SlotMoves, Start
<1>6. CASE Peek(r)
  BY <1>1, <1>2, <1>3, <1>6, Zenon DEF SlotMoves, Peek
<1>7. CASE CheckLease(r)
  BY <1>1, <1>2, <1>3, <1>7, Zenon DEF SlotMoves, CheckLease
<1>8. CASE SlotFreed(r)
  BY <1>1, <1>2, <1>3, <1>8, Zenon DEF SlotMoves, SlotFreed
<1>9. CASE SlotFails(r)
  BY <1>1, <1>2, <1>3, <1>9, Zenon DEF SlotMoves, SlotFails
<1>10. CASE Reserve(r)
  BY <1>1, <1>2, <1>3, <1>10, Zenon DEF SlotMoves, Reserve
<1>11. CASE CreateRaceLost(r)
  BY <1>1, <1>2, <1>3, <1>11, Zenon DEF SlotMoves, CreateRaceLost
<1>12. CASE Ready(r)
  BY <1>1, <1>2, <1>3, <1>12, Zenon DEF SlotMoves, Ready
<1>13. CASE NotReady(r)
  BY <1>1, <1>2, <1>3, <1>13, Zenon DEF SlotMoves, NotReady
<1>14. CASE BuildOver(r)
  BY <1>1, <1>2, <1>3, <1>14, Zenon DEF SlotMoves, BuildOver
<1>15. CASE DeleteFails(r)
  BY <1>1, <1>2, <1>3, <1>15, Zenon DEF SlotMoves, DeleteFails
<1>16. CASE Deleted(r)
  BY <1>1, <1>2, <1>3, <1>16, Zenon DEF SlotMoves, Deleted, Gone
<1>17. CASE Release(r)
  BY <1>1, <1>2, <1>3, <1>17, Zenon DEF SlotMoves, Release
<1>18. CASE Crash(r)
  BY <1>1, <1>2, <1>3, <1>18, Zenon DEF SlotMoves, Crash
<1> QED
  BY <1>5, <1>6, <1>7, <1>8, <1>9, <1>10, <1>11, <1>12, <1>13, <1>14, <1>15, <1>16, <1>17, <1>18, Zenon

(* A delete by name, by the run that reaps the holder or by the holder:    *)
(* what it awaits is the pod there is.                                     *)
LEMMA DeleteStep ==
    ASSUME SlotInv, NEW r \in Runs, ReapHolder(r) \/ DeleteBuilder(r)
    PROVE  SlotInv'
<1>1. /\ pod' = {[p EXCEPT !.dying = TRUE] : p \in pod} /\ saw' = [saw EXCEPT ![r] = pod]
      /\ UNCHANGED <<lease, uid>>
      /\ \/ pc[r] = "reap" /\ pc' = [pc EXCEPT ![r] = "reaping"]
         \/ pc[r] = "delete" /\ pc' = [pc EXCEPT ![r] = "deleting"]
  BY DEF ReapHolder, DeleteBuilder, DeleteByName
<1>2. /\ pod' \in SUBSET Pod /\ \A p, q \in pod' : p = q
      /\ \A p \in pod' : \E q \in pod : p.owner = q.owner /\ p.uid = q.uid /\ p.unknown = q.unknown
  BY <1>1, Marked DEF SlotInv
<1>3. \A q \in Runs \ {r} : pc'[q] = pc[q] /\ saw'[q] = saw[q]
  BY <1>1 DEF SlotInv, SlotType
<1>4. SlotType'
  BY <1>1, <1>2 DEF SlotInv, SlotType
<1>5. LeaseInv'
  BY <1>1, SMTT(30) DEF SlotInv, LeaseInv, SlotType
<1>6. OwnerInv'
  <2> SUFFICES ASSUME NEW p \in pod'
               PROVE  /\ p.unknown => pc'[p.owner] = "failed"
                      /\ ~ p.unknown =>
                            /\ pc'[p.owner] \in {"ready", "build", "delete", "deleting", "failed", "dead"}
                            /\ lease'[p.owner] # "none"
                      /\ pc'[p.owner] = "deleting" => \E q \in saw'[p.owner] : q.uid = p.uid
    BY DEF OwnerInv
  <2>1. PICK q \in pod : p.owner = q.owner /\ p.uid = q.uid /\ p.unknown = q.unknown
    BY <1>2
  <2>2. q.owner \in Runs
    BY DEF SlotInv, SlotType, Pod
  <2>3. /\ q.unknown => pc[q.owner] = "failed"
        /\ ~ q.unknown =>
              /\ pc[q.owner] \in {"ready", "build", "delete", "deleting", "failed", "dead"}
              /\ lease[q.owner] # "none"
        /\ pc[q.owner] = "deleting" => \E s \in saw[q.owner] : s.uid = q.uid
    BY DEF SlotInv, OwnerInv
  <2>4. CASE q.owner = r
    BY <1>1, <2>1, <2>3, <2>4, Zenon DEF SlotInv, SlotType
  <2>5. CASE q.owner # r
    BY <1>1, <1>3, <2>1, <2>2, <2>3, <2>5
  <2> QED
    BY <2>4, <2>5
<1> QED
  BY <1>4, <1>5, <1>6 DEF SlotInv

(* A create takes the slot only when the name is free.                     *)
LEMMA CreateStep ==
    ASSUME SlotInv, NEW r \in Runs, Created(r) \/ CreateFails(r)
    PROVE  SlotInv'
<1>1. pc[r] = "create" /\ lease[r] = "live" /\ \A p \in pod : p.owner # r
  BY DEF Created, CreateFails, SlotInv, LeaseInv, OwnerInv
<1>2. CASE Created(r)
  <2>1. pod' = {NewPod(r)} /\ NewPod(r) \in Pod /\ NewPod(r).owner = r /\ ~ NewPod(r).unknown
    BY <1>2 DEF Created, NewPod, Pod, SlotInv, SlotType
  <2>2. pc' = [pc EXCEPT ![r] = "ready"] /\ lease' = lease /\ saw' = saw /\ uid' = uid + 1
    BY <1>2 DEF Created
  <2>3. SlotType'
    BY <2>1, <2>2 DEF SlotInv, SlotType
  <2>4. LeaseInv'
    BY <1>1, <2>2, Zenon DEF SlotInv, LeaseInv, SlotType
  <2>5. OwnerInv'
    BY <1>1, <2>1, <2>2 DEF SlotInv, OwnerInv, SlotType
  <2> QED
    BY <2>3, <2>4, <2>5 DEF SlotInv
<1>3. CASE CreateFails(r)
  <2> DEFINE p == [NewPod(r) EXCEPT !.unknown = TRUE]
  <2>1. pc' = [pc EXCEPT ![r] = "failed"] /\ lease' = [lease EXCEPT ![r] = "none"] /\ saw' = saw
    BY <1>3 DEF CreateFails
  <2>2. p \in Pod /\ p.owner = r /\ p.unknown
    BY Zenon DEF NewPod, Pod, SlotInv, SlotType
  <2>3. (pod' = pod /\ uid' = uid) \/ (pod' = {p} /\ uid' = uid + 1)
    BY <1>3 DEF CreateFails
  <2> HIDE DEF p
  <2>4. SlotType'
    BY <2>1, <2>2, <2>3 DEF SlotInv, SlotType
  <2>5. LeaseInv'
    BY <1>1, <2>1 DEF SlotInv, LeaseInv, SlotType
  <2>6. CASE pod' = pod
    <3>1. OwnerInv'
      BY <1>1, <2>1, <2>6 DEF SlotInv, OwnerInv, SlotType, Pod
    <3> QED
      BY <2>4, <2>5, <3>1 DEF SlotInv
  <2>7. CASE pod' = {p}
    <3>1. OwnerInv'
      BY <2>1, <2>2, <2>7 DEF SlotInv, OwnerInv, SlotType
    <3> QED
      BY <2>4, <2>5, <3>1 DEF SlotInv
  <2> QED
    BY <2>3, <2>6, <2>7
<1> QED
  BY <1>2, <1>3

(* The cluster's steps, and a lease that lapses.                           *)
LEMMA WorldStep ==
    ASSUME SlotInv, (\E r \in Runs : Lapse(r)) \/ PodGone \/ OrphanReaped \/ UNCHANGED slot_vars
    PROVE  SlotInv'
<1>1. CASE \E r \in Runs : Lapse(r)
  <2>1. PICK r \in Runs : Lapse(r)
    BY <1>1
  <2>2. /\ pc[r] \in {"failed", "dead"} /\ lease' = [lease EXCEPT ![r] = "expired"]
        /\ UNCHANGED <<pc, saw, pod, uid>>
    BY <2>1 DEF Lapse
  <2>3. SlotType'
    BY <2>2 DEF SlotInv, SlotType
  <2>4. LeaseInv'
    BY <2>2 DEF SlotInv, LeaseInv, SlotType
  <2>5. OwnerInv'
    BY <2>2 DEF SlotInv, OwnerInv, SlotType, Pod
  <2> QED
    BY <2>3, <2>4, <2>5 DEF SlotInv
<1>2. CASE PodGone
  BY <1>2 DEF PodGone, SlotInv, SlotType, LeaseInv, OwnerInv
<1>3. CASE OrphanReaped
  <2>1. pod' = {[p EXCEPT !.dying = TRUE] : p \in pod} /\ UNCHANGED <<pc, lease, saw, uid>>
    BY <1>3 DEF OrphanReaped
  <2>2. /\ pod' \in SUBSET Pod /\ \A p, q \in pod' : p = q
        /\ \A p \in pod' : \E q \in pod : p.owner = q.owner /\ p.uid = q.uid /\ p.unknown = q.unknown
    BY <2>1, Marked DEF SlotInv
  <2>3. SlotType' /\ LeaseInv'
    BY <2>1, <2>2 DEF SlotInv, SlotType, LeaseInv
  <2>4. OwnerInv'
    BY <2>1, <2>2 DEF SlotInv, OwnerInv
  <2> QED
    BY <2>3, <2>4 DEF SlotInv
<1>4. CASE UNCHANGED slot_vars
  BY <1>4 DEF slot_vars, SlotInv, SlotType, LeaseInv, OwnerInv
<1> QED
  BY <1>1, <1>2, <1>3, <1>4

LEMMA SlotStepInv == SlotInv /\ [SlotNext]_slot_vars => SlotInv'
<1> SUFFICES ASSUME SlotInv, [SlotNext]_slot_vars
             PROVE  SlotInv'
  OBVIOUS
<1>1. CASE \E r \in Runs : BuilderStep(r) \/ SlotFails(r) \/ Crash(r)
  BY <1>1, SlotRunStep, DeleteStep, CreateStep DEF BuilderStep
<1>2. CASE (\E r \in Runs : Lapse(r)) \/ PodGone \/ OrphanReaped \/ UNCHANGED slot_vars
  BY <1>2, WorldStep, Zenon
<1> QED
  BY <1>1, <1>2 DEF SlotNext, AllOver

(* The reservation covers the build pod (Builder::acquire, release and     *)
(* await_build_slot), whatever the number of runs and the capacity: while  *)
(* there is a pod, the run that made it holds its reservation, unless that *)
(* run failed or died, or was told that its create had failed; and a run   *)
(* that waits for the slot holds none.                                     *)
THEOREM PodCovered == SlotSpec => []ReservationCoversPod
<1>1. SlotInv => ReservationCoversPod
  BY DEF SlotInv, SlotType, LeaseInv, OwnerInv, ReservationCoversPod, Pod
<1> QED
  BY <1>1, SlotInitInv, SlotStepInv, PTL DEF SlotSpec
=============================================================================
