------------------------------ MODULE MCReaper ------------------------------
(* The clusters TLC explores the sweeps on.                                *)
EXTENDS Reaper

CONSTANTS r1, r2

\* One run that builds first, under every sweep.
Built == [runs |-> {r1}, litter |-> {}, builds |-> TRUE, holds |-> TRUE,
          sweeps |-> {"orphans", "cancel", "cleanup"}, fails |-> FALSE]

\* A run that may be kept, or cancelled, or crash, while calls fail.
Alone == [runs |-> {r1}, litter |-> {}, builds |-> FALSE, holds |-> TRUE,
          sweeps |-> {"orphans", "cancel"}, fails |-> TRUE]

\* A run beside the litter of another, which the same sweep may reap.
Pair == [runs |-> {r1, r2}, litter |-> {r2}, builds |-> FALSE, holds |-> FALSE,
         sweeps |-> {"orphans"}, fails |-> TRUE]

MCModes == {Built, Alone, Pair}
=============================================================================
