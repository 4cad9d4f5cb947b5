----------------------------- MODULE SyncEngine -----------------------------
(***************************************************************************)
(* The sync engine: phases in declaration order, each launching its        *)
(* subject, sampling it once per tick and judging its probes, against a    *)
(* watched component that the run's own nemesis, or a crash, restarts      *)
(* under it.                                                               *)
(*                                                                         *)
(* One engine task drives everything, so the interleavings are between its *)
(* awaits and the world: a component that dies after it was sampled, a     *)
(* subject whose task ends after it was asked, a cancel that arrives       *)
(* inside a step that does not look at it.  A tick is therefore three      *)
(* steps (Tick, Judge, Completion) with the world free to move in between. *)
(*                                                                         *)
(* Abstracted: readings are a height; work vectors, balances, roots, the   *)
(* segment and the snapshot ring are data no step branches on.  A probe    *)
(* body is a nondeterministic answer of its class.  The unit of time is    *)
(* one tick; calls take no time, waits do.                                 *)
(***************************************************************************)
EXTENDS Integers, Sequences, FiniteSets, FiniteSetsExt

CONSTANTS
    Profiles         \* registrations [throughout, phases, faults], each with the bounds it
                     \* is explored under: `horizon` on the clock, `crashes` of the watched
                     \* component, and per phase the `heights` a reading can show

\* a registration has a phase, its probes are listed, and the window of one is a duration
ASSUME ProfilesAssumption ==
    \A p \in Profiles :
        /\ p.phases \in Seq(Range(p.phases)) /\ p.phases # <<>>
        /\ p.throughout \in Seq(Range(p.throughout))
        /\ \A i \in DOMAIN p.phases : p.phases[i].probes \in Seq(Range(p.phases[i].probes))
        /\ \A i \in DOMAIN p.phases :
              \A q \in Range(p.throughout) \cup Range(p.phases[i].probes) : q.window \in Nat

VARIABLES
    profile,         \* the registered run
    now, cancel,     \* clock, `ztest sync stop` requested
    pc, phase,       \* where the engine is, index of the current phase
    wake,            \* when the current sleep ends
    started, launched, tries,
    pending, fired,  \* chaos: kills not taken yet, names of those recorded
    world,           \* component, restart count, families, height, subject task
    watch, sample,   \* RestartWatch, this tick's container sample
    ph,              \* the phase in flight: probe state, stop height, findings
    post, until,     \* at_completion probes left, end of the current retry span
    results, outcome,
    lastOut, blind,  \* history: last tick inside a restart, a sample was missed
    unstopped        \* history: phases whose subject was launched and not asked to stop

vars == <<profile, now, cancel, pc, phase, wake, started, launched, tries, pending, fired,
          world, watch, sample, ph, post, until, results, outcome, lastOut, blind, unstopped>>

None == -1
WORK_PREFLIGHT_ATTEMPTS == 3

Phase == profile.phases[phase]

\* run-wide probes are judged in every phase, ahead of its own
Probes == profile.throughout \o Phase.probes

OfClass(c) == {i \in DOMAIN Probes : Probes[i].class = c}

Deadline == IF Phase.timeout = None THEN None ELSE started + Phase.timeout
Overdue  == Deadline # None /\ now >= Deadline

-----------------------------------------------------------------------------
(* Probe taxonomy and its scheduler state *)

\* what a body of each class can answer: `()` holds or not, `bool` reached yet
Answers(class) ==
    {"Satisfied", "Violated", "ProbeError"}
        \cup (IF class \in {"Eventually", "Sometimes"} THEN {"Pending"} ELSE {})

Verdicts == {v \in [DOMAIN Probes -> {"Satisfied", "Pending", "Violated", "ProbeError"}] :
                \A i \in DOMAIN Probes : v[i] \in Answers(Probes[i].class)}

fresh == [fired_height |-> None, next_due |-> 0, violation_streak |-> 0,
          last_satisfied |-> None, ever_satisfied |-> FALSE]

\* consecutive violations before an `always` probe reports (hold_for over its cadence)
violation_threshold(spec) ==
    IF spec.hold_for > 0 /\ spec.every > 0
    THEN (spec.hold_for + spec.every - 1) \div spec.every
    ELSE 1

due(spec, st, height) ==
    CASE spec.every > 0        -> now >= st.next_due
      [] spec.every_blocks > 0 -> st.fired_height = None
                                  \/ height - st.fired_height >= spec.every_blocks
      [] OTHER                 -> TRUE

mark_fired(spec, st, height) ==
    [st EXCEPT !.fired_height = height,
               !.next_due = IF spec.every > 0 THEN now + spec.every ELSE @]

NewPhase(n) ==
    LET p == profile.phases[n] IN
    [probes      |-> [i \in 1 .. Len(profile.throughout) + Len(p.probes) |-> fresh],
     stop_height |-> p.stop_height,
     stop_after  |-> p.stop_after,
     rows        |-> p.rows,
     unpublished |-> {},
     height      |-> None,
     reported    |-> {},
     violations  |-> {},
     fatal       |-> FALSE]

-----------------------------------------------------------------------------
(* Restart window *)

NoSample == [read |-> FALSE, restarts |-> 0, ready |-> TRUE, comp |-> "serving"]

\* restarts are counted from the phase's first readable sample
observe(w, s, answered) ==
    LET base     == IF w.baseline = None /\ s.read THEN s.restarts ELSE w.baseline
        restarts == IF s.read THEN Max({0, s.restarts - base}) ELSE 0
        down     == s.read /\ ~s.ready
        held     == w.holding \/ restarts > w.seen \/ down
    IN  [baseline |-> base,
         seen     |-> Max({w.seen, restarts}),
         holding  |-> held /\ ~(~down /\ answered)]

\* mutant: an unread tick inside a restart counts against the window
credit_nothing(probes) == probes

credit_liveness(probes) ==
    [i \in DOMAIN probes |->
        IF Probes[i].class = "Eventually" THEN [probes[i] EXCEPT !.last_satisfied = now]
                                          ELSE probes[i]]

-----------------------------------------------------------------------------
(* Evaluation of the probes due at a tick *)

\* first index of S in probe order; past the end when S is empty
First(S) == IF S = {} THEN Len(Probes) + 1 ELSE Min(S)

\* unlatched `sometimes` probes in order, up to the first that errors
eval_sometimes(probes, v) ==
    LET open == {i \in OfClass("Sometimes") : ~probes[i].ever_satisfied}
        err  == First({i \in open : v[i] = "ProbeError"})
    IN  [probes |-> [i \in DOMAIN probes |->
                        IF i \in open /\ i < err /\ v[i] = "Satisfied"
                        THEN [probes[i] EXCEPT !.ever_satisfied = TRUE]
                        ELSE probes[i]],
         err    |-> err \in DOMAIN probes]

coverage_gaps(probes) == {i \in OfClass("Sometimes") : ~probes[i].ever_satisfied}

\* an `eventually` window is paused inside a restart and until its fault has fired
armed(spec) == spec.after = "" \/ spec.after \in fired
paused(spec, restarting) == restarting \/ ~armed(spec)

\* one due probe after its body answered `a`: next scheduler state, and what it reports
JudgeAlways(spec, st, a, height) ==
    LET marked == mark_fired(spec, st, height)
        streak == IF a = "Violated" THEN st.violation_streak + 1 ELSE 0
    IN  [st |-> IF a = "ProbeError" THEN marked
                ELSE [marked EXCEPT !.violation_streak = streak],
         reports |-> a = "Violated" /\ streak >= violation_threshold(spec)]

JudgeEventually(spec, st, a) ==
    LET opened == IF st.last_satisfied = None THEN now ELSE st.last_satisfied
    IN  [st |-> [st EXCEPT !.last_satisfied = IF a = "Satisfied" THEN now ELSE opened],
         reports |-> a \in {"Pending", "Violated"} /\ now - opened > spec.window]

eval_tick(v, height, restarting) ==
    LET some == eval_sometimes(ph.probes, v)
        step(i) ==
            LET spec == Probes[i]
                st   == some.probes[i]
            IN  CASE spec.class = "Always" /\ due(spec, st, height) ->
                        JudgeAlways(spec, st, v[i], height)
                  [] spec.class = "Eventually" /\ paused(spec, restarting) ->
                        [st |-> [st EXCEPT !.last_satisfied = now], reports |-> FALSE]
                  [] spec.class = "Eventually" /\ ~paused(spec, restarting) ->
                        JudgeEventually(spec, st, v[i])
                  [] OTHER -> [st |-> st, reports |-> FALSE]
        judged(i) == \/ Probes[i].class = "Always" /\ due(Probes[i], some.probes[i], height)
                     \/ Probes[i].class = "Eventually" /\ ~paused(Probes[i], restarting)
        errs     == {i \in DOMAIN Probes : judged(i) /\ v[i] = "ProbeError"}
        breaks   == {i \in DOMAIN Probes : step(i).reports /\ Probes[i].fatal}
        last     == First(errs \cup breaks)
    IN  IF some.err
        THEN [probes |-> some.probes, reported |-> {}, flow |-> "Abort"]
        ELSE [probes   |-> [i \in DOMAIN Probes |->
                               IF i <= last THEN step(i).st ELSE some.probes[i]],
              reported |-> {i \in DOMAIN Probes : i <= last /\ step(i).reports},
              flow     |-> CASE last \in errs   -> "Abort"
                             [] last \in breaks -> "FailFast"
                             [] OTHER           -> "Continue"]

-----------------------------------------------------------------------------
(* Outcome *)

Passing(verdict) == verdict = "Passed"

\* mutant: the last phase's verdict
fold_last(rs) ==
    [verdict    |-> rs[Len(rs)].verdict,
     error      |-> \E i \in DOMAIN rs : rs[i].error,
     violations |-> UNION {{<<i, x>> : x \in rs[i].violations} : i \in DOMAIN rs},
     gaps       |-> UNION {{<<i, x>> : x \in rs[i].gaps} : i \in DOMAIN rs},
     phases     |-> Len(rs)]

\* the verdict of the first phase that did not pass, else Passed
fold(rs) ==
    LET bad == {i \in DOMAIN rs : ~Passing(rs[i].verdict)}
    IN  [verdict    |-> IF bad = {} THEN "Passed" ELSE rs[Min(bad)].verdict,
         error      |-> \E i \in DOMAIN rs : rs[i].error,
         violations |-> UNION {{<<i, x>> : x \in rs[i].violations} : i \in DOMAIN rs},
         gaps       |-> UNION {{<<i, x>> : x \in rs[i].gaps} : i \in DOMAIN rs},
         phases     |-> Len(rs)]

NoOutcome == [verdict |-> "", error |-> FALSE, violations |-> {}, gaps |-> {}, phases |-> 0]

\* mutant: a coverage miss or a fatal post-condition lets the next phase start
Result_unjudged(verdict, error, completed, p) ==
    [verdict |-> verdict, error |-> error, violations |-> p.violations,
     gaps |-> coverage_gaps(p.probes), completed |-> completed,
     proceed |-> completed /\ ~error]

\* leaving a phase: what it found, and whether the next one may start
Result(verdict, error, completed, p) ==
    [verdict |-> verdict, error |-> error, violations |-> p.violations,
     gaps |-> coverage_gaps(p.probes), completed |-> completed,
     proceed |-> completed /\ ~p.fatal /\ ~error]

\* a phase that never reached its first tick reports no findings of its own
EarlyResult(verdict, error) ==
    [verdict |-> verdict, error |-> error, violations |-> {}, gaps |-> {},
     completed |-> FALSE, proceed |-> FALSE]

Over(r) ==
    /\ results' = Append(results, r)
    /\ outcome' = fold(results')
    /\ pc' = "done"

\* `let _ = self.subject.stop().await`: asked to stop, whatever it answers; an observer and
\* a load have nothing to stop, a wallet's checkpoint may err, and the engine looks at none
StopSubject == unstopped' = unstopped \ {phase}

\* the tick loop is cut short: the subject is asked to stop, then the phase (and the run) ends
Cut(verdict, error, p) == StopSubject /\ Over(Result(verdict, error, FALSE, p))

EnterPhase(n) ==
    /\ phase' = n
    /\ pc' = "build"
    /\ started' = now
    /\ wake' = LET t == profile.phases[n].timeout IN IF t = None THEN profile.horizon ELSE now + t
    /\ ph' = NewPhase(n)
    /\ watch' = [baseline |-> None, seen |-> 0, holding |-> FALSE]
    /\ blind' = FALSE
    /\ lastOut' = None

InPhase == <<phase, started, ph, watch, blind, lastOut>>

\* the finish line: gaps are fatal, an error outranks violations; only from here does the
\* next phase start
Complete(error, p) ==
    LET gaps    == coverage_gaps(p.probes)
        verdict == CASE error -> "Errored"
                     [] ~error /\ p.violations = {} /\ gaps = {} -> "Passed"
                     [] OTHER -> "Failed"
        r == Result(verdict, error, TRUE, [p EXCEPT !.fatal = @ \/ gaps # {}])
    IN  /\ IF r.proceed /\ phase < Len(profile.phases)
           THEN /\ results' = Append(results, r)
                /\ EnterPhase(phase + 1)
                /\ UNCHANGED outcome
           ELSE Over(r) /\ UNCHANGED <<InPhase, wake>>
        /\ UNCHANGED unstopped

-----------------------------------------------------------------------------
(* The engine's steps *)

Init ==
    /\ profile \in Profiles
    /\ now = 0 /\ cancel = FALSE
    /\ pc = "preflight_faults" /\ phase = 1 /\ wake = 0 /\ started = 0 /\ launched = 0 /\ tries = 0
    /\ pending = profile.faults /\ fired = {}
    /\ world = [comp |-> "serving", restarts |-> 0, published |-> {}, task |-> "idle"]
    /\ watch = [baseline |-> None, seen |-> 0, holding |-> FALSE]
    /\ sample = NoSample
    /\ ph = NewPhase(1)
    /\ post = <<>> /\ until = None
    /\ results = <<>> /\ outcome = NoOutcome
    /\ lastOut = None /\ blind = FALSE /\ unstopped = {}

\* every kill must name exactly one restartable component, or no phase runs
preflight_faults ==
    /\ pc = "preflight_faults"
    /\ IF \A i \in DOMAIN pending : pending[i].restartable
       THEN EnterPhase(1) /\ UNCHANGED outcome
       ELSE /\ pc' = "done"
            /\ outcome' = [NoOutcome EXCEPT !.verdict = "Errored", !.error = TRUE]
            /\ UNCHANGED <<InPhase, wake>>
    /\ UNCHANGED <<profile, now, cancel, launched, tries, pending, fired, world, sample, post,
                   until, results, unstopped>>

\* mutant: the factory loses to the deadline alone
BuildCut_uncancelled ==
    /\ pc = "build" /\ Overdue
    /\ Over(EarlyResult("TimedOut", FALSE))
    /\ UNCHANGED <<InPhase, wake, profile, now, cancel, launched, tries, pending, fired, world,
                   sample, post, until, unstopped>>

\* the subject's factory loses to a cancel and to the phase's deadline
BuildCut ==
    /\ pc = "build" /\ (cancel \/ Overdue)
    /\ Over(EarlyResult(IF cancel THEN "Cancelled" ELSE "TimedOut", FALSE))
    /\ UNCHANGED <<InPhase, wake, profile, now, cancel, launched, tries, pending, fired, world,
                   sample, post, until, unstopped>>

\* a built subject is launched; one whose launch failed is not asked to stop
launch ==
    \/ /\ Over(EarlyResult("Errored", TRUE))
       /\ UNCHANGED <<world, launched, unstopped>>
    \/ /\ pc' = "gate"
       /\ launched' = now
       /\ unstopped' = unstopped \cup {phase}
       /\ world' = [world EXCEPT !.task = "running"]
       /\ UNCHANGED <<results, outcome>>

\* the factory answered: it failed, or its subject is launched
BuildAndLaunch ==
    /\ pc = "build" /\ ~cancel /\ ~Overdue
    /\ \/ Over(EarlyResult("Errored", TRUE)) /\ UNCHANGED <<world, launched, unstopped>>
       \/ launch
    /\ UNCHANGED <<InPhase, wake, profile, now, cancel, tries, pending, fired, sample, post,
                   until>>

\* one scrape: every gate family published, one of them late, or wait a tick
await_ready ==
    /\ \/ pc = "gate"
       \/ pc = "gatewait" /\ now >= wake /\ ~cancel
    /\ \E reachable \in BOOLEAN :
        LET missing == IF reachable THEN Phase.gates \ world.published ELSE Phase.gates
            late    == {f \in missing : now - launched >= Phase.ready[f]}
        IN  \/ /\ missing = {}
               /\ pc' = "work" /\ tries' = 0
               /\ UNCHANGED <<wake, results, outcome, unstopped>>
            \/ /\ late # {}
               /\ StopSubject
               /\ Over(EarlyResult("Errored", TRUE))
               /\ UNCHANGED <<wake, tries>>
            \/ /\ missing # {} /\ late = {}
               /\ pc' = "gatewait" /\ wake' = now + 1
               /\ UNCHANGED <<results, outcome, unstopped, tries>>
    /\ UNCHANGED <<InPhase, profile, now, cancel, launched, pending, fired, world, sample, post,
                   until>>

ReadyCancelled ==
    /\ pc = "gatewait" /\ cancel
    /\ StopSubject
    /\ Over(EarlyResult("Cancelled", FALSE))
    /\ UNCHANGED <<InPhase, wake, profile, now, cancel, launched, tries, pending, fired, world,
                   sample, post, until>>

\* the work preflight: a reading with an op missing refuses the phase, an unreadable subject
\* is asked again a tick later, WORK_PREFLIGHT_ATTEMPTS times in all; nothing here looks at
\* a cancel or at the deadline
check_required_work ==
    /\ pc = "work" \/ (pc = "workwait" /\ now >= wake)
    /\ \/ /\ pc' = "wait" /\ wake' = now
          /\ UNCHANGED <<results, outcome, unstopped, tries>>
       \/ /\ Phase.required
          /\ StopSubject
          /\ Over(EarlyResult("Errored", TRUE))
          /\ UNCHANGED <<wake, tries>>
       \/ /\ Phase.required /\ tries + 1 < WORK_PREFLIGHT_ATTEMPTS
          /\ pc' = "workwait" /\ wake' = now + 1 /\ tries' = tries + 1
          /\ UNCHANGED <<results, outcome, unstopped>>
    /\ UNCHANGED <<InPhase, profile, now, cancel, launched, pending, fired, world, sample, post,
                   until>>

\* the biased select takes a cancel before the tick
TickCancelled ==
    /\ pc = "wait" /\ cancel
    /\ Cut("Cancelled", FALSE, ph)
    /\ UNCHANGED <<InPhase, wake, profile, now, cancel, launched, tries, pending, fired, world,
                   sample, post, until>>

\* kills whose offset passed leave the schedule together
take_due == {i \in DOMAIN pending : pending[i].at <= now}

\* rows whose window closed: resolved ones are dropped, absent ones are named unpublished
settle_rows(p) ==
    LET closed == {f \in p.rows : now - launched >= Phase.ready[f]}
    IN  IF closed = {} THEN p
        ELSE [p EXCEPT !.rows = (@ \ world.published) \ closed,
                       !.unpublished = @ \cup (closed \ world.published)]

\* the kills land: the component dies, the restart window opens before kubelet shows it
apply_faults ==
    /\ take_due # {} => world.comp \in {"serving", "warming"}
    /\ fired' = fired \cup {pending[i].name : i \in take_due}
    /\ world' = IF take_due = {} THEN world ELSE [world EXCEPT !.comp = "killed"]
    /\ watch' = [watch EXCEPT !.holding = @ \/ take_due # {}]

\* an unreadable pod is no sample, never "down"
sample_watched ==
    /\ sample' \in {NoSample, [read |-> TRUE, restarts |-> world'.restarts,
                               ready |-> world'.comp # "down", comp |-> world'.comp]}
    /\ blind' = (blind \/ ~sample'.read)

\* start of a tick: deadline, due faults, rows, and one sample of the watched component
Tick ==
    /\ pc = "wait" /\ now >= wake /\ ~cancel
    /\ pending' = IF Overdue THEN pending
                  ELSE SubSeq(pending, Cardinality(take_due) + 1, Len(pending))
    /\ \/ /\ Overdue
          /\ Cut("TimedOut", FALSE, ph)
          /\ UNCHANGED <<world, fired, sample, ph, watch, blind, wake>>
       \/ /\ ~Overdue /\ take_due # {}               \* a kill that is refused
          /\ Cut("Errored", TRUE, ph)
          /\ UNCHANGED <<world, fired, sample, ph, watch, blind, wake>>
       \/ /\ ~Overdue
          /\ apply_faults
          /\ \E reachable \in BOOLEAN : ph' = IF reachable THEN settle_rows(ph) ELSE ph
          /\ sample_watched
          /\ pc' = "judge" /\ wake' = now + 1
          /\ UNCHANGED <<results, outcome, unstopped>>
    /\ UNCHANGED <<phase, started, lastOut, profile, now, cancel, launched, tries, post, until>>

\* the watched component was inside a restart at this tick
InRestart(answered) ==
    /\ sample.read
    /\ \/ sample.comp = "down"
       \/ sample.comp \in {"killed", "warming"} /\ ~answered /\ Phase.own

failure == world.task = "failed"

\* progress is read, then the subject's failure, then the probes judge one snapshot
Judge ==
    /\ pc = "judge"
    /\ \E answered \in BOOLEAN :
        LET w == observe(watch, sample, answered) IN
        /\ answered /\ Phase.own => world.comp = "serving"
        /\ lastOut' = IF InRestart(answered) THEN now ELSE lastOut
        /\ \/ /\ failure
              /\ Cut("Failed", TRUE, ph)
              /\ ph' = [ph EXCEPT !.reported = {}]
              /\ UNCHANGED watch
           \/ /\ ~failure /\ ~answered
              /\ watch' = w
              /\ ph' = [ph EXCEPT !.reported = {},
                                  !.probes = IF w.holding THEN credit_liveness(@) ELSE @]
              /\ pc' = "wait"
              /\ UNCHANGED <<results, outcome, unstopped>>
           \/ /\ ~failure /\ answered
              /\ watch' = w
              /\ \E height \in Phase.heights, v \in Verdicts :
                   LET e == eval_tick(v, height, w.holding)
                   IN  /\ ph' = [ph EXCEPT
                              !.probes = e.probes,
                              !.height = height,
                              !.reported = e.reported,
                              !.violations = @ \cup e.reported,
                              !.fatal = @ \/ e.flow = "FailFast",
                              !.stop_height = IF ph.stop_after = None THEN @
                                              ELSE height + ph.stop_after,
                              !.stop_after = None]
                       /\ CASE e.flow = "Continue" ->
                                 pc' = "complete" /\ UNCHANGED <<results, outcome, unstopped>>
                            [] e.flow = "FailFast" -> Cut("Failed", FALSE, ph')
                            [] e.flow = "Abort"    -> Cut("Errored", TRUE, ph')
    /\ UNCHANGED <<phase, started, blind, wake, profile, now, cancel, launched, tries, pending,
                   fired, world, sample, post, until>>

\* a subject that does not ask how its task ended reads complete when the task died
is_complete ==
    \/ world.task = "finished"
    \/ world.task = "failed" /\ Phase.subject = "load"

reached_stop == ph.stop_height # None /\ ph.height >= ph.stop_height

\* is the phase over?  Then one more reading, its coverage, and the post-conditions
Completion ==
    /\ pc = "complete"
    /\ \/ /\ ~reached_stop /\ ~is_complete
          /\ pc' = "wait"
          /\ UNCHANGED <<InPhase, wake, results, outcome, unstopped, post>>
       \/ /\ reached_stop \/ is_complete
          /\ Complete(FALSE, ph)                      \* the final reading failed
          /\ UNCHANGED post
       \/ /\ reached_stop \/ is_complete
          /\ \E v \in Verdicts :
               LET some == eval_sometimes(ph.probes, v)
                   p    == [ph EXCEPT !.probes = some.probes, !.reported = {}]
               IN  \/ /\ some.err
                      /\ Complete(TRUE, p)
                      /\ UNCHANGED post
                   \/ /\ ~some.err
                      /\ pc' = "post" /\ ph' = p
                      /\ post' = SelectSeq([i \in DOMAIN Probes |-> i],
                                          LAMBDA i : Probes[i].class = "AtCompletion")
                      /\ UNCHANGED <<phase, started, watch, blind, lastOut, wake, results,
                                     outcome, unstopped>>
    /\ UNCHANGED <<profile, now, cancel, launched, tries, pending, fired, world, sample, until>>

BrokenPost(p, i) ==
    [p EXCEPT !.violations = @ \cup {i}, !.fatal = @ \/ Probes[i].fatal]

\* the post-conditions in order; a violation is judged again each tick for `within`
eval_at_completion ==
    /\ pc = "post" \/ (pc = "retry" /\ now >= wake /\ ~cancel)
    /\ \/ /\ post = <<>>
          /\ Complete(FALSE, ph)
          /\ UNCHANGED <<post, until>>
       \/ /\ post # <<>>
          /\ LET i    == Head(post)
                 end  == IF until = None /\ Probes[i].within # None
                         THEN now + Probes[i].within ELSE until
             IN \E a \in Answers("AtCompletion") :
                 \/ /\ a = "Violated" /\ end # None /\ now < end
                    /\ pc' = "retry" /\ wake' = now + 1 /\ until' = end
                    /\ UNCHANGED <<InPhase, results, outcome, unstopped, post>>
                 \/ /\ a = "ProbeError"
                    /\ Complete(TRUE, ph)
                    /\ post' = <<>> /\ until' = None
                 \/ /\ a = "Satisfied" \/ (a = "Violated" /\ (end = None \/ now >= end))
                    /\ pc' = "post" /\ post' = Tail(post) /\ until' = None
                    /\ ph' = IF a = "Violated" THEN BrokenPost(ph, i) ELSE ph
                    /\ UNCHANGED <<phase, started, watch, blind, lastOut, wake, results, outcome,
                                   unstopped>>
    /\ UNCHANGED <<profile, now, cancel, launched, tries, pending, fired, world, sample>>

\* a cancel ends the retries and lets the violation stand
RetryCancelled ==
    /\ pc = "retry" /\ cancel
    /\ pc' = "post" /\ post' = Tail(post) /\ until' = None
    /\ ph' = BrokenPost(ph, Head(post))
    /\ UNCHANGED <<phase, started, watch, blind, lastOut, wake, profile, now, cancel, launched,
                   tries, pending, fired, world, sample, results, outcome, unstopped>>

-----------------------------------------------------------------------------
(* The world *)

EngineUnchanged ==
    UNCHANGED <<InPhase, wake, profile, pc, launched, tries, pending, fired, sample, post, until,
                results, outcome, unstopped>>

\* a process dies, kubelet notices, restarts it in place, and it answers again later
ComponentMoves ==
    /\ pc # "done"
    /\ \/ /\ world.comp = "serving" /\ world.restarts < profile.crashes
          /\ world' = [world EXCEPT !.comp = "crashed"]
       \/ /\ world.comp \in {"killed", "crashed"}
          /\ world' = [world EXCEPT !.comp = "down"]
       \/ /\ world.comp = "down"
          /\ world' = [world EXCEPT !.comp = "warming", !.restarts = @ + 1]
       \/ /\ world.comp = "warming"
          /\ world' = [world EXCEPT !.comp = "serving"]
    /\ EngineUnchanged /\ UNCHANGED <<now, cancel>>

Publish ==
    /\ pc # "done"
    /\ \E f \in (Phase.gates \cup Phase.rows) \ world.published :
          world' = [world EXCEPT !.published = @ \cup {f}]
    /\ EngineUnchanged /\ UNCHANGED <<now, cancel>>

\* the subject finishes, or (when it drives a task) dies
SubjectMoves ==
    /\ pc # "done" /\ world.task = "running"
    /\ \/ world' = [world EXCEPT !.task = "finished"]
       \/ /\ Phase.subject # "observer"
          /\ world' = [world EXCEPT !.task = "failed"]
    /\ EngineUnchanged /\ UNCHANGED <<now, cancel>>

\* an observed component at the tip falls behind again
TipMoves ==
    /\ pc # "done" /\ world.task = "finished" /\ Phase.subject = "observer"
    /\ world' = [world EXCEPT !.task = "running"]
    /\ EngineUnchanged /\ UNCHANGED <<now, cancel>>

RequestStop ==
    /\ pc # "done" /\ ~cancel
    /\ cancel' = TRUE
    /\ EngineUnchanged /\ UNCHANGED <<now, world>>

\* timers are prompt: the clock never passes the end of a sleep
Elapse ==
    /\ pc \in {"build", "gatewait", "workwait", "wait", "retry"}
    /\ now < wake /\ now < profile.horizon
    /\ now' = now + 1
    /\ EngineUnchanged /\ UNCHANGED <<cancel, world>>

\* every step but the factory's answer, which nothing bounds
EngineStep ==
    \/ preflight_faults \/ BuildCut \/ await_ready \/ ReadyCancelled \/ check_required_work
    \/ TickCancelled \/ Tick \/ Judge \/ Completion \/ eval_at_completion \/ RetryCancelled

Next == \/ EngineStep \/ BuildAndLaunch
        \/ ComponentMoves \/ Publish \/ SubjectMoves \/ TipMoves \/ RequestStop \/ Elapse

Spec == Init /\ [][Next]_vars

FairSpec == Spec /\ WF_vars(EngineStep) /\ WF_vars(Elapse)

-----------------------------------------------------------------------------
(* Properties *)

ProbesOf(i) == profile.throughout \o profile.phases[i].probes

\* A run passes exactly when every registered phase was attempted and every one completed
\* with no violation, no coverage gap and no error, whatever order faults, probe answers,
\* cancels and deadlines came in (fold, and the verdict at the finish line).
PassIsClean ==
    pc = "done" =>
        (outcome.verdict = "Passed" <=>
            /\ Len(results) = Len(profile.phases)
            /\ \A i \in DOMAIN results :
                  /\ results[i].completed /\ ~results[i].error
                  /\ results[i].violations = {} /\ results[i].gaps = {})

\* A phase runs only behind phases that completed with no error, no coverage miss and no
\* violation of a fatal probe (run's `proceed`); a recorded violation alone lets it start.
\* And every launched subject is asked to stop unless its phase completed: no cut of the
\* tick loop, of the readiness wait or of the work preflight forgets the call.  Whether the
\* subject then stops is not the engine's to know: it drops the answer.
PhasesInTurn ==
    /\ \A i \in 1 .. phase - 1 :
          /\ results[i].completed /\ ~results[i].error /\ results[i].gaps = {}
          /\ \A v \in results[i].violations : ~ProbesOf(i)[v].fatal
    /\ pc = "done" => \A i \in unstopped : results[i].completed

\* A liveness stall is never clocked across a restart: with every sample readable, more than
\* the window passed since the last tick that found the component down, or restarted and not
\* answering; and a window armed by a fault reports only once that fault has fired.
StallIsReal ==
    [][pc = "judge" => \A i \in ph'.reported :
          LET spec == Probes[i] IN
          spec.class = "Eventually" =>
              /\ blind \/ lastOut' = None \/ now - lastOut' > spec.window
              /\ spec.after = "" \/ spec.after \in fired]_vars

\* A requested stop is always answered with an outcome, and a run whose phases all carry a
\* timeout reports one even when nobody stops it and its subjects never answer: no wait of
\* the engine, however interleaved with restarts and read failures, outlasts both.
OutcomeReported ==
    /\ cancel ~> pc = "done"
    /\ (\A i \in DOMAIN profile.phases : profile.phases[i].timeout # None) ~> pc = "done"

\* A driven subject whose task died is never the subject of a passing run: the comment on the
\* check says that a dead task also reads complete, which is why it is asked for first.
DeadTaskNeverPasses ==
    pc = "done" /\ outcome.verdict = "Passed" /\ Phase.stop_height = None
                /\ Phase.stop_after = None =>
        world.task # "failed"

=============================================================================
