------------------------------ MODULE MCGraph -------------------------------
(***************************************************************************)
(* Graph over four nodes: every acyclic shape (the deps of a node are      *)
(* later in the alphabet), and every shape of three nodes, cyclic ones and *)
(* ones that name a node that does not exist included.                     *)
(***************************************************************************)
EXTENDS Graph

Later == [a |-> {"b", "c", "d"}, b |-> {"c", "d"}, c |-> {"d"}, d |-> {}]

Acyclics == {g \in [Nodes -> SUBSET Nodes] : \A n \in Nodes : g[n] \subseteq Later[n]}

Small == {g \in [Nodes -> SUBSET {"a", "b", "c", "ghost"}] : g["d"] = {}}

MCNodes == {"a", "b", "c", "d"}
MCShapes == Acyclics \cup Small
MCCached == {"b"}
MCLimits == {0, 2}

=============================================================================
