---------------------------- MODULE MCSyncEngine ----------------------------
(* Small registrations of the sync engine: a restart under a liveness probe, two phases with *)
(* gates and post-conditions, coverage probes, a refused fault, a driven load phase.         *)
EXTENDS SyncEngine

Probe(class, fatal) ==
    [class |-> class, fatal |-> fatal, every |-> 0, every_blocks |-> 0, hold_for |-> 0,
     window |-> 0, after |-> "", within |-> None]

Plain ==
    [subject |-> "observer", own |-> TRUE, timeout |-> None, stop_height |-> None,
     stop_after |-> None, heights |-> {0}, gates |-> {}, rows |-> {}, ready |-> [f \in {"height"} |-> 1],
     required |-> FALSE, probes |-> <<>>]

Run(throughout, phases, faults, horizon, crashes) ==
    [throughout |-> throughout, phases |-> phases, faults |-> faults, horizon |-> horizon,
     crashes |-> crashes]

Kill(at, name) == [at |-> at, name |-> name, restartable |-> TRUE]

\* liveness under one kill and one crash, the killed component being the subject's own or not
Restarts ==
    {Run(<<>>,
         <<[Plain EXCEPT !.own = own, !.timeout = 3,
              !.probes = <<[Probe("Eventually", FALSE) EXCEPT !.window = 1],
                           [Probe("Eventually", TRUE) EXCEPT !.window = 1, !.after = "kill"]>>]>>,
         <<Kill(1, "kill")>>, 4, 1) : own \in BOOLEAN}

\* an indexer phase that gates on a family and requires its work, then a driven one
TwoPhases ==
    {Run(<<[Probe("Always", FALSE) EXCEPT !.every = 1, !.hold_for = 2]>>,
         <<[Plain EXCEPT !.timeout = 2, !.stop_after = 1, !.gates = {"height"},
              !.rows = {"height"}, !.required = TRUE, !.heights = 0 .. 1],
           [Plain EXCEPT !.subject = "wallet", !.own = FALSE, !.timeout = 2,
              !.probes = <<[Probe("AtCompletion", TRUE) EXCEPT !.within = 1]>>]>>,
         <<>>, 12, 0)}

\* coverage and post-conditions, no timeout
Coverage ==
    {Run(<<[Probe("Always", TRUE) EXCEPT !.every_blocks = 2]>>,
         <<[Plain EXCEPT !.stop_height = 2, !.heights = 0 .. 2,
              !.probes = <<Probe("Sometimes", TRUE), Probe("AtCompletion", FALSE)>>],
           [Plain EXCEPT !.subject = "load", !.own = FALSE, !.heights = {0}]>>,
         <<>>, 3, 0)}

Refused == {Run(<<>>, <<Plain>>, <<[Kill(0, "kill") EXCEPT !.restartable = FALSE]>>, 1, 0)}

MCProfiles == Restarts \cup TwoPhases \cup Coverage \cup Refused

\* a load run alone: its task may die between two awaits of one tick
LoadProfiles ==
    {Run(<<>>, <<[Plain EXCEPT !.subject = "load", !.own = FALSE, !.timeout = 2]>>, <<>>, 3, 0)}

=============================================================================
