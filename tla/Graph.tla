------------------------------- MODULE Graph --------------------------------
(***************************************************************************)
(* The resource graph, src/resource/graph.rs: `validate` checks the shape, *)
(* `provision` brings the nodes up in dependency order with at most `cap`  *)
(* providers in flight, `teardown` takes the reaped ones down in reverse.  *)
(*                                                                         *)
(* A provider is external: it is probed, provisions and tears down in its  *)
(* own time and may fail.  The nodes live in a HashMap, so any order of    *)
(* iteration is possible.  deps() names no node twice.                     *)
(***************************************************************************)
EXTENDS Naturals, FiniteSets

CONSTANTS Nodes,
          Shapes,     \* the deps() of every node, for each graph considered
          Cached,     \* nodes whose lifetime is Lifetime::Cached
          Limits      \* the values of max_concurrent considered

ASSUME GraphAssumption ==
         /\ IsFiniteSet(Nodes)
         /\ \A g \in Shapes : DOMAIN g = Nodes /\ \A n \in Nodes : IsFiniteSet(g[n])
         /\ Cached \subseteq Nodes
         /\ Limits \subseteq Nat

VARIABLES deps,      \* the graph
          cap,       \* provision's bound on the providers in flight
          phase,     \* what the caller of the graph is doing
          queue,     \* validate: nodes whose dependencies are all peeled
          peeled,    \* validate: the nodes peeled (the code keeps their number)
          indegree,  \* validate: dependencies not yet peeled
          state,     \* provision: NodeState
          inflight,  \* provision, teardown: the futures not yet resolved
          awaiting,  \* the loop is at inflight.next()
          remaining, \* teardown: nodes still to go
          gone,      \* teardown: nodes that count as gone
          launched,  \* teardown: nodes whose teardown was started
          results    \* teardown: nodes whose teardown returned Ok, and Err

kahn == <<queue, peeled, indegree>>
down == <<remaining, gone, launched, results>>
vars == <<deps, cap, phase, kahn, state, inflight, awaiting, down>>

NodeState == {"Pending", "Acquiring", "Ready", "Failed", "Blocked"}

is_ready(s) == s = "Ready"
is_terminal(s) == s \in {"Ready", "Failed", "Blocked"}
is_unavailable(s) == s \in {"Failed", "Blocked"}
is_reaped(n) == n \notin Cached

Init ==
  /\ deps \in Shapes
  /\ cap \in {IF m = 0 THEN 1 ELSE m : m \in Limits}
  /\ phase = "built"
  /\ queue = {} /\ peeled = {} /\ indegree = [n \in Nodes |-> 0]
  /\ state = [n \in Nodes |-> "Pending"]
  /\ inflight = {} /\ awaiting = FALSE
  /\ remaining = {} /\ gone = {} /\ launched = {}
  /\ results = [ok |-> {}, err |-> {}]

-----------------------------------------------------------------------------
(* validate *)

\* Every declared dep exists; then seed Kahn's queue with the roots.
Validate ==
  /\ phase = "built"
  /\ IF \E n \in Nodes : ~ deps[n] \subseteq Nodes
     THEN phase' = "rejected" /\ UNCHANGED kahn
     ELSE /\ phase' = "validating"
          /\ indegree' = [n \in Nodes |-> Cardinality(deps[n])]
          /\ queue' = {n \in Nodes : indegree'[n] = 0}
          /\ UNCHANGED peeled
  /\ UNCHANGED <<deps, cap, state, inflight, awaiting, down>>

\* Mutant: a dependent enters the queue with its first peeled dependency.
Peel_first_dep(n) ==
  /\ phase = "validating" /\ n \in queue
  /\ peeled' = peeled \cup {n}
  /\ indegree' = [m \in Nodes |-> IF n \in deps[m] THEN indegree[m] - 1 ELSE indegree[m]]
  /\ queue' = (queue \ {n}) \cup {m \in Nodes : n \in deps[m] /\ m \notin peeled'}
  /\ UNCHANGED <<deps, cap, phase, state, inflight, awaiting, down>>

Peel(n) ==
  /\ phase = "validating" /\ n \in queue
  /\ peeled' = peeled \cup {n}
  /\ indegree' = [m \in Nodes |-> IF n \in deps[m] THEN indegree[m] - 1 ELSE indegree[m]]
  /\ queue' = (queue \ {n}) \cup {m \in Nodes : n \in deps[m] /\ indegree'[m] = 0}
  /\ UNCHANGED <<deps, cap, phase, state, inflight, awaiting, down>>

Validated ==
  /\ phase = "validating" /\ queue = {}
  /\ phase' = IF peeled = Nodes THEN "provisioning" ELSE "rejected"
  /\ UNCHANGED <<deps, cap, kahn, state, inflight, awaiting, down>>

-----------------------------------------------------------------------------
(* provision *)

to_block == {n \in Nodes : state[n] = "Pending" /\ \E d \in deps[n] : is_unavailable(state[d])}

to_run ==
  {n \in Nodes \ to_block : state[n] = "Pending" /\ \A d \in deps[n] : is_ready(state[d])}

\* What take(free) may keep of to_run, in whatever order the map yields it.
taken ==
  {run \in SUBSET to_run :
     LET free == IF Cardinality(inflight) >= cap THEN 0 ELSE cap - Cardinality(inflight)
     IN  /\ Cardinality(run) <= free
         /\ run # to_run => Cardinality(run) = free}

\* Mutant: leaves the loop without propagating the last Blocked.
Round_stopping_early(run) ==
  /\ phase = "provisioning" /\ ~ awaiting
  /\ run \in taken
  /\ state' = [n \in Nodes |-> IF n \in to_block THEN "Blocked"
                               ELSE IF n \in run THEN "Acquiring" ELSE state[n]]
  /\ inflight' = inflight \cup run
  /\ awaiting' = (inflight' # {})
  /\ phase' = IF inflight' = {} THEN "provisioned" ELSE phase
  /\ UNCHANGED <<deps, cap, kahn, down>>

\* Mutant: returns only when every node is Ready.
Round_until_ready(run) ==
  /\ phase = "provisioning" /\ ~ awaiting
  /\ run \in taken
  /\ state' = [n \in Nodes |-> IF n \in to_block THEN "Blocked"
                               ELSE IF n \in run THEN "Acquiring" ELSE state[n]]
  /\ inflight' = inflight \cup run
  /\ awaiting' = (inflight' # {})
  /\ phase' = IF \A n \in Nodes : is_ready(state'[n]) THEN "provisioned" ELSE phase
  /\ UNCHANGED <<deps, cap, kahn, down>>

\* One turn of the loop: classify, block, launch up to the cap, then wait for
\* a provider or, with none in flight, go round again or return.
Round(run) ==
  /\ phase = "provisioning" /\ ~ awaiting
  /\ run \in taken
  /\ state' = [n \in Nodes |-> IF n \in to_block THEN "Blocked"
                               ELSE IF n \in run THEN "Acquiring" ELSE state[n]]
  /\ inflight' = inflight \cup run
  /\ awaiting' = (inflight' # {})
  /\ phase' = IF inflight' = {} /\ to_block = {} THEN "provisioned" ELSE phase
  /\ UNCHANGED <<deps, cap, kahn, down>>

\* run_one: the probe answers Ready, or the provider provisions and may fail.
run_one == {"Ready", "Failed"}

Resolve(n, result) ==
  /\ phase = "provisioning" /\ awaiting /\ n \in inflight
  /\ state' = [state EXCEPT ![n] = result]
  /\ inflight' = inflight \ {n}
  /\ awaiting' = FALSE
  /\ UNCHANGED <<deps, cap, phase, kahn, down>>

-----------------------------------------------------------------------------
(* teardown *)

dependents(n) == {m \in Nodes : n \in deps[m]}

\* Only nodes that are up and not cached are to go; the rest counts as gone.
Teardown ==
  /\ phase = "provisioned"
  /\ phase' = "tearing"
  /\ remaining' = {n \in Nodes : is_ready(state[n]) /\ is_reaped(n)}
  /\ gone' = Nodes \ remaining'
  /\ UNCHANGED <<deps, cap, kahn, state, inflight, awaiting, launched, results>>

\* One turn of the loop: launch every node whose dependents are all gone.
Sweep ==
  LET ready == {n \in remaining \ launched : dependents(n) \subseteq gone}
  IN  /\ phase = "tearing" /\ ~ awaiting
      /\ launched' = launched \cup ready
      /\ inflight' = inflight \cup ready
      /\ awaiting' = (inflight' # {})
      /\ phase' = IF inflight' = {} THEN "torn" ELSE phase
      /\ UNCHANGED <<deps, cap, kahn, state, remaining, gone, results>>

\* Mutant: a node whose teardown failed is not counted as gone.
Removed_only_if_ok(n, ok) ==
  /\ phase = "tearing" /\ awaiting /\ n \in inflight
  /\ inflight' = inflight \ {n}
  /\ awaiting' = FALSE
  /\ remaining' = remaining \ {n}
  /\ gone' = IF ok THEN gone \cup {n} ELSE gone
  /\ results' = IF ok THEN [results EXCEPT !.ok = @ \cup {n}]
                ELSE [results EXCEPT !.err = @ \cup {n}]
  /\ UNCHANGED <<deps, cap, phase, kahn, state, launched>>

Removed(n, ok) ==
  /\ phase = "tearing" /\ awaiting /\ n \in inflight
  /\ inflight' = inflight \ {n}
  /\ awaiting' = FALSE
  /\ remaining' = remaining \ {n}
  /\ gone' = gone \cup {n}
  /\ results' = IF ok THEN [results EXCEPT !.ok = @ \cup {n}]
                ELSE [results EXCEPT !.err = @ \cup {n}]
  /\ UNCHANGED <<deps, cap, phase, kahn, state, launched>>

-----------------------------------------------------------------------------
Returned == phase \in {"rejected", "torn"} /\ UNCHANGED vars

Next ==
  \/ Validate \/ Validated \/ Teardown \/ Sweep \/ Returned
  \/ \E n \in Nodes : Peel(n)
  \/ \E run \in SUBSET Nodes : Round(run)
  \/ \E n \in Nodes, result \in run_one : Resolve(n, result)
  \/ \E n \in Nodes, ok \in BOOLEAN : Removed(n, ok)

Spec == Init /\ [][Next]_vars

\* The loops run on and every provider's future resolves in the end.
FairSpec == Spec /\ WF_vars(Next)

-----------------------------------------------------------------------------
(* Every variable has its type. *)
TypeOK ==
  /\ deps \in Shapes
  /\ cap \in Nat \ {0}
  /\ phase \in {"built", "validating", "rejected", "provisioning", "provisioned",
                "tearing", "torn"}
  /\ queue \subseteq Nodes /\ peeled \subseteq Nodes
  /\ indegree \in [Nodes -> Nat]
  /\ state \in [Nodes -> NodeState]
  /\ inflight \subseteq Nodes
  /\ awaiting \in BOOLEAN
  /\ remaining \subseteq Nodes /\ gone \subseteq Nodes /\ launched \subseteq Nodes
  /\ results \in [ok : SUBSET Nodes, err : SUBSET Nodes]

\* No set of nodes in which each depends on another of the set.
Acyclic == \A S \in SUBSET Nodes : S # {} => \E n \in S : deps[n] \cap S = {}

WellFormed == (\A n \in Nodes : deps[n] \subseteq Nodes) /\ Acyclic

(***************************************************************************)
(* `validate` accepts exactly the graphs whose deps all exist and that     *)
(* have no cycle (graph.rs:62), whatever order its map yields the nodes    *)
(* in.                                                                     *)
(***************************************************************************)
ValidateExact ==
  /\ phase = "rejected" => ~ WellFormed
  /\ phase \notin {"built", "validating", "rejected"} => WellFormed

(***************************************************************************)
(* A provider runs, or has run, only over dependencies that are all Ready  *)
(* (graph.rs:3), and a node is Blocked only over one that never will be.   *)
(***************************************************************************)
RunsOverReadyDeps ==
  \A n \in Nodes :
    /\ state[n] \in {"Acquiring", "Ready", "Failed"} => \A d \in deps[n] : state[d] = "Ready"
    /\ state[n] = "Blocked" => \E d \in deps[n] : is_unavailable(state[d])

(***************************************************************************)
(* At most `cap` providers are in flight while provisioning (graph.rs:97), *)
(* and they are the nodes shown as Acquiring.                              *)
(***************************************************************************)
WithinCap ==
  phase \in {"provisioning", "provisioned"} =>
    Cardinality(inflight) <= cap /\ inflight = {n \in Nodes : state[n] = "Acquiring"}

\* The nodes a failure reaches through the dependencies: the least set that
\* has the failed nodes and whatever depends on a node it has.
Downstream ==
  {n \in Nodes : \A S \in SUBSET Nodes :
     /\ \A m \in Nodes : state[m] = "Failed" => m \in S
     /\ \A m \in Nodes : deps[m] \cap S # {} => m \in S
     => n \in S}

(***************************************************************************)
(* provision returns only when every node is settled, and it attributes    *)
(* every failure: Failed itself, Blocked what lies over a failure and      *)
(* nothing else (state.rs:11), Ready all the rest, siblings included.      *)
(***************************************************************************)
FailureIsolated ==
  phase = "provisioned" =>
    \A n \in Nodes :
      /\ is_terminal(state[n])
      /\ state[n] = "Ready" <=> n \notin Downstream

(***************************************************************************)
(* A NodeState never regresses: Ready, Failed and Blocked are absorbing    *)
(* and Acquiring follows only Pending (state.rs:9).                        *)
(***************************************************************************)
Monotonic ==
  [][\A n \in Nodes :
       state'[n] # state[n] =>
         /\ ~ is_terminal(state[n])
         /\ state'[n] # "Pending"
         /\ state[n] = "Acquiring" => state'[n] \in {"Ready", "Failed"}]_vars

(***************************************************************************)
(* teardown runs for a node only after teardown has returned for all its   *)
(* reaped dependents (graph.rs:5), touches neither a cached node nor one   *)
(* that never came up, and when it returns it has attempted all the rest,  *)
(* whatever failed (graph.rs:169).                                         *)
(***************************************************************************)
ReverseOrder ==
  LET attempted == results.ok \cup results.err
      due == {n \in Nodes : state[n] = "Ready" /\ n \notin Cached}
  IN  /\ \A n \in launched : dependents(n) \cap due \subseteq attempted
      /\ launched \subseteq due
      /\ phase = "torn" => attempted = due

(* The graph's caller always gets an answer: no loop waits on nothing. *)
Returns == <>(phase \in {"rejected", "torn"})

-----------------------------------------------------------------------------
(***************************************************************************)
(* graph.rs:167, of teardown: "reaped only after every dependent is gone". *)
(* A dependent is gone when its own teardown succeeded or it never came up.*)
(***************************************************************************)
DependentsGoneFirst ==
  \A n \in launched : \A m \in dependents(n) : state[m] = "Ready" => m \in results.ok

=============================================================================
