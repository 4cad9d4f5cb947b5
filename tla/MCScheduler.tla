----------------------------- MODULE MCScheduler -----------------------------
(* Small instance of Scheduler for TLC. *)
EXTENDS Scheduler

MCDims == {"cpu", "mem"}
Vec(c, m) == [d \in MCDims |-> IF d = "cpu" THEN c ELSE m]

MCTests == {"t1", "t2", "t3", "t4"}
MCAccounts == {"alice", "bob"}
MCSa == [t \in MCTests |-> IF t = "t4" THEN "bob" ELSE "alice"]
MCFootprint == [t1 |-> Vec(2, 1), t2 |-> Vec(1, 1), t3 |-> Vec(2, 2), t4 |-> Vec(1, 0)]
MCCeilings == {Vec(3, 3), Vec(1, 2), Vec(4, 7)}
MCBudgets == {Vec(2, 2), Vec(3, 3)}

=============================================================================
