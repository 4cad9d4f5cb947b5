--------------------------- MODULE MCDetachedSync ---------------------------
(* The invocations of `ztest sync start` and `ztest cleanup` explored by TLC, *)
(* one adversary at a time.                                                   *)
EXTENDS DetachedSync

Plain == [watch |-> FALSE, no_cleanup |-> FALSE, force |-> FALSE,
          crash |-> FALSE, fail |-> FALSE, stop |-> FALSE, peers |-> FALSE, cleanup |-> FALSE, faults |-> 0]

Stopped == [Plain EXCEPT !.watch = TRUE, !.fail = TRUE, !.stop = TRUE, !.faults = 1]
Admissions == [Plain EXCEPT !.fail = TRUE, !.peers = TRUE, !.faults = 1]
Held == [Plain EXCEPT !.no_cleanup = TRUE, !.fail = TRUE, !.peers = TRUE]
Killed == [Plain EXCEPT !.crash = TRUE, !.fail = TRUE, !.peers = TRUE]
Cleaned == [Plain EXCEPT !.cleanup = TRUE]
Forced == [Plain EXCEPT !.cleanup = TRUE, !.force = TRUE]

MCModes == {Stopped, Admissions, Held, Killed, Cleaned, Forced}

HeldModes == {Held}

=============================================================================
