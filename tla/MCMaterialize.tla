--------------------------- MODULE MCMaterialize ---------------------------
(* Two runs that need one seed, and what goes wrong with them, for TLC.     *)
EXTENDS Materialize

CONSTANTS a, b

MCRuns == {a, b}

Quiet == [runs |-> {a, b}, crashes |-> 0, fails |-> 0, quiets |-> 0, faults |-> 0,
          prunes |-> 0, small |-> FALSE]

\* Two runs race, one of them dies, a pull fails or falls silent, a call fails.
Race == [Quiet EXCEPT !.crashes = 1, !.fails = 1, !.quiets = 1, !.faults = 1]
\* One run, killed at any point and run again, on a cluster that misbehaves.
Alone == [Race EXCEPT !.runs = {a}, !.crashes = 2, !.fails = 2, !.quiets = 2, !.small = FALSE]
\* One run, and a prune in the middle of it.
Pruned == [Race EXCEPT !.runs = {a}, !.prunes = 1]
Adopts == [Quiet EXCEPT !.small = TRUE]

MCModes == {Race, Alone, Pruned, Adopts}
FaultFree == {Quiet}

=============================================================================
