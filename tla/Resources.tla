------------------------------ MODULE Resources ------------------------------
(***************************************************************************)
(* Resource amounts: src/qos/mod.rs `Resources`.  An amount is a vector of *)
(* u64 quantities, one for each dimension (CPU, memory, disk ...), and     *)
(* every operation works dimension by dimension.                           *)
(***************************************************************************)
EXTENDS Integers

CONSTANTS Dims,    \* the dimensions, e.g. {"cpu", "mem"}
          U64Max   \* u64::MAX: additions saturate here

ASSUME ResourcesAssumption == U64Max \in Nat

Amount == [Dims -> 0 .. U64Max]

ZERO == [d \in Dims |-> 0]

fits_within(a, cap) == \A d \in Dims : a[d] <= cap[d]

saturating_sub(a, b) == [d \in Dims |-> IF a[d] <= b[d] THEN 0 ELSE a[d] - b[d]]

saturating_add(a, b) ==
  [d \in Dims |-> IF a[d] + b[d] <= U64Max THEN a[d] + b[d] ELSE U64Max]

max(a, b) == [d \in Dims |-> IF a[d] <= b[d] THEN b[d] ELSE a[d]]

min(a, b) == [d \in Dims |-> IF a[d] <= b[d] THEN a[d] ELSE b[d]]

=============================================================================
