---------------------------- MODULE MCBuildSlot -----------------------------
(* Model-checking instances of BuildSlot: two or three runs after one slot. *)
EXTENDS BuildSlot

CONSTANTS r1, r2, r3

Two == {r1, r2}
Three == {r1, r2, r3}
=============================================================================
