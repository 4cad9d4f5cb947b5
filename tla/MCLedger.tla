------------------------------ MODULE MCLedger ------------------------------
(* Small instances of Ledger for TLC. *)
EXTENDS Ledger, TLC

MCDims == {"cpu"}
Cpu(n) == [d \in MCDims |-> n]

CONSTANTS a, b
TwoRuns == {a, b}

FourCpus == Cpu(4)
OneCpu == Cpu(1)
Budgets == [r \in TwoRuns |-> Cpu(4)]
Swap == Permutations(TwoRuns)

\* Two test runs of two one-CPU tests each, alone on the cluster.
TwoTestRuns ==
  [want |-> [r \in TwoRuns |-> Elastic], test |-> [r \in TwoRuns |-> Cpu(1)],
   tests |-> [r \in TwoRuns |-> 2], foreign |-> {Cpu(0)}, stalls |-> FALSE]

\* A test run of n tests beside a build pod of two CPUs, each of which may be cut off for a
\* TTL, on a cluster with these other workloads.
RunBesideBuild(run, n, loads) ==
  [want |-> [r \in TwoRuns |-> IF r = run THEN Elastic ELSE Cpu(2)],
   test |-> [r \in TwoRuns |-> IF r = run THEN Cpu(1) ELSE Cpu(2)],
   tests |-> [r \in TwoRuns |-> IF r = run THEN n ELSE 1],
   foreign |-> loads, stalls |-> TRUE]

\* Closed under swapping the runs, so the symmetry is sound.
MCScenarios ==
  {TwoTestRuns} \cup {RunBesideBuild(r, 2, {Cpu(0)}) : r \in TwoRuns}
                \cup {RunBesideBuild(r, 1, {Cpu(0), Cpu(3)}) : r \in TwoRuns}

=============================================================================
