----------------------------- MODULE MCRunLoop -----------------------------
(* Small instances of RunLoop for TLC. *)
EXTENDS RunLoop

MCDims == {"cpu"}
Cpu(n) == [d \in MCDims |-> n]

MCTests == {"big", "mid", "small", "tiny"}
MCItems == <<"mid", "big", "small", "tiny">>
MCSa == [t \in MCTests |-> "sa"]
MCFootprint == [big |-> Cpu(3), mid |-> Cpu(2), small |-> Cpu(1), tiny |-> Cpu(1)]
MCRetries == [big |-> 1, mid |-> 1, small |-> 0, tiny |-> 0]
MCShares == {Cpu(1), Cpu(2), Cpu(4)}

\* A pooled run that stops at the first failure, a serial one, a run without
\* reservation whose dependency failed to provision.
MCConfigs ==
  {[fail_fast |-> TRUE,  max_inflight |-> 9, reservation |-> TRUE,  unmet |-> {},
    ceiling |-> Cpu(4)],
   [fail_fast |-> FALSE, max_inflight |-> 9, reservation |-> TRUE,  unmet |-> {},
    ceiling |-> Cpu(4)],
   [fail_fast |-> FALSE, max_inflight |-> 1, reservation |-> TRUE,  unmet |-> {},
    ceiling |-> Cpu(4)],
   [fail_fast |-> FALSE, max_inflight |-> 9, reservation |-> FALSE, unmet |-> {"tiny"},
    ceiling |-> Cpu(2)]}

=============================================================================
