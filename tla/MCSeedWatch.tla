---------------------------- MODULE MCSeedWatch ----------------------------
(* The clusters and drivers TLC watches a seed's pull and snapshot on.      *)
EXTENDS SeedWatch

Cow == [ordered |-> TRUE, driver |-> "cow", execs |-> FALSE, gets |-> FALSE, sibling |-> FALSE]

MCSettings == {Cow, [Cow EXCEPT !.ordered = FALSE], [Cow EXCEPT !.gets = TRUE],
               [Cow EXCEPT !.driver = "hostpath", !.gets = TRUE]}
    \cup [ordered : {TRUE}, driver : {"hostpath"}, execs : BOOLEAN, gets : {FALSE},
          sibling : BOOLEAN]

=============================================================================
