----------------------------- MODULE MCAttempt -----------------------------
(***************************************************************************)
(* Attempt for TLC.  Two ticks of grace inside a cap of three: the grace   *)
(* can run out before the cap, and be interrupted and start again.         *)
(***************************************************************************)
EXTENDS Attempt
=============================================================================
