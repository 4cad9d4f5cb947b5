--------------------------- MODULE TestLifecycle ---------------------------
(***************************************************************************)
(* What a run promises each test, without scheduler, slots or queues (the  *)
(* event contract of src/engine/events.rs `TestEvent`): a test waits, runs *)
(* at most retries + 1 attempts and settles once; at most one test leaves  *)
(* "running" at a time; once the run is closing nothing starts, and it     *)
(* closes with nothing running.  RunLoop implements this specification.    *)
(***************************************************************************)
EXTENDS Naturals

CONSTANTS Tests, Retries

VARIABLES phase,    \* "waiting", "running" or "settled"
          attempts, \* how often each test was started
          closing,  \* the run admits nothing more
          closed    \* the run is over

lifecycle == <<phase, attempts, closing, closed>>

Init == /\ phase = [t \in Tests |-> "waiting"]
        /\ attempts = [t \in Tests |-> 0]
        /\ closing = FALSE
        /\ closed = FALSE

\* TestStarted; a test already running starts again when its retry is granted
\* at once.
Starts(t) == /\ ~ closing'
             /\ attempts[t] <= Retries[t]
             /\ attempts'[t] = attempts[t] + 1
             /\ phase'[t] = "running"

\* TestRetrying, TestFinished, or TestSkipped of a test refused a slot.
Leaves(t) == /\ phase'[t] \in {"waiting", "settled"}
             /\ attempts'[t] = attempts[t]

Stays(t) == phase'[t] = phase[t] /\ attempts'[t] = attempts[t]

\* One turn of the loop: `done` resolves (no test when nothing did), and any
\* waiting tests start.
Turn(done) ==
  /\ ~ closed
  /\ closing => closing'
  /\ closed' = FALSE
  /\ phase' \in [Tests -> {"waiting", "running", "settled"}]
  /\ attempts' \in [Tests -> Nat]
  /\ \A t \in done : phase[t] = "running" /\ (Leaves(t) \/ Starts(t))
  /\ \A t \in Tests \ done :
       \/ Stays(t)
       \/ phase[t] = "waiting" /\ Starts(t)

\* The first turn also skips what can never be admitted.
Sweep ==
  /\ \A t \in Tests : phase[t] = "waiting" /\ attempts[t] = 0
  /\ ~ closed /\ closed' = FALSE
  /\ closing' \in BOOLEAN
  /\ \A t \in Tests :
       \/ Stays(t)
       \/ attempts[t] = 0 /\ attempts'[t] = 1 /\ phase'[t] = "running"
       \/ attempts'[t] = 0 /\ phase'[t] = "settled"

Close == /\ ~ closed
         /\ \A t \in Tests : phase[t] # "running"
         /\ closed' = TRUE
         /\ UNCHANGED <<phase, attempts, closing>>

Next == \/ \E done \in {{}} \cup {{t} : t \in Tests} : Turn(done)
        \/ Sweep
        \/ Close

Spec == Init /\ [][Next]_lifecycle

=============================================================================
