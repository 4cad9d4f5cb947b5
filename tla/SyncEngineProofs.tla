--------------------------- MODULE SyncEngineProofs -------------------------
(***************************************************************************)
(* Proofs about SyncEngine, for every registration: a run passes exactly   *)
(* when all of its phases were clean, a phase starts only behind phases    *)
(* that let it, and no liveness stall is clocked across a restart.         *)
(***************************************************************************)
EXTENDS SyncEngine, WellFoundedInduction, TLAPS

(* A nonempty set of naturals has a least element.                         *)
LEMMA NatMinimum ==
  ASSUME NEW S \in SUBSET Nat, S # {}
  PROVE  \E m \in S : \A k \in S : m <= k
<1> DEFINE R == OpToRel(<, Nat)
<1>1. R = {p \in Nat \X Nat : p[1] < p[2]}
  BY DEF OpToRel
<1>2. IsWellFoundedOn(R, Nat)
  BY NatLessThanWellFounded, Zenon
<1> HIDE DEF R
<1>3. PICK m \in S : \A k \in S : ~ (<<k, m>> \in R)
  BY <1>2, WFMin, Zenon
<1>4. ASSUME NEW k \in S PROVE m <= k
  <2>1. k \in Nat /\ m \in Nat
    OBVIOUS
  <2>2. k < m => <<k, m>> \in R
    BY <2>1, <1>1
  <2>3. QED
    BY <1>3, <2>1, <2>2
<1>5. QED
  BY <1>4

(* A phase's record, whatever its data.                                    *)
IsPh(p) ==
    p \in [probes : {p.probes}, stop_height : {p.stop_height}, stop_after : {p.stop_after},
           rows : {p.rows}, unpublished : {p.unpublished}, height : {p.height},
           reported : {p.reported}, violations : {p.violations}, fatal : {p.fatal}]

(* A phase that found a fatal violation knows it.                          *)
FatalKnown(p) ==
    /\ \A v \in p.violations : Probes[v].fatal => p.fatal
    /\ p.fatal => p.violations # {}

Judged(r) ==
    Passing(r.verdict) <=> r.completed /\ ~ r.error /\ r.violations = {} /\ r.gaps = {}

(* The verdicts so far, and the phases they belong to.                     *)
ResultsInv ==
    /\ profile \in Profiles
    /\ phase \in 1 .. Len(profile.phases)
    /\ \E X : results \in Seq(X)
    /\ \A i \in 1 .. Len(results) : Judged(results[i])
    /\ \A i \in 1 .. phase - 1 :
          /\ results[i].completed /\ ~results[i].error /\ results[i].gaps = {}
          /\ \A v \in results[i].violations : ~ProbesOf(i)[v].fatal

OpenInv ==
    pc # "done" =>
        /\ Len(results) = phase - 1
        /\ IsPh(ph) /\ FatalKnown(ph)
        /\ pc = "preflight_faults" => phase = 1 /\ unstopped = {}
        /\ pc = "build" => phase \notin unstopped

Refused == results = <<>> /\ phase = 1 /\ unstopped = {} /\ outcome.verdict = "Errored"
Closed ==
    /\ Len(results) = phase
    /\ Passing(outcome.verdict) <=> \A i \in 1 .. Len(results) : Passing(results[i].verdict)
    /\ phase < Len(profile.phases) => ~ Passing(results[phase].verdict)
    /\ \A i \in unstopped : results[i].completed

DoneInv ==
    /\ unstopped \subseteq 1 .. phase
    /\ pc = "done" => Refused \/ Closed

Inv == ResultsInv /\ OpenInv /\ DoneInv

-----------------------------------------------------------------------------
LEMMA Registered ==
    ASSUME NEW p \in Profiles
    PROVE  /\ p.phases \in Seq(Range(p.phases)) /\ Len(p.phases) \in Nat \ {0}
           /\ DOMAIN p.phases = 1 .. Len(p.phases)
           /\ p.throughout \in Seq(Range(p.throughout))
           /\ \A i \in 1 .. Len(p.phases) : p.phases[i].probes \in Seq(Range(p.phases[i].probes))
  BY ProfilesAssumption

(* Append keeps what was there.                                            *)
LEMMA Appended ==
    ASSUME NEW s, \E X : s \in Seq(X), NEW e
    PROVE  /\ \E X : Append(s, e) \in Seq(X)
           /\ Len(s) \in Nat /\ Len(Append(s, e)) = Len(s) + 1
           /\ Append(s, e)[Len(s) + 1] = e
           /\ \A i \in 1 .. Len(s) : Append(s, e)[i] = s[i]
<1>1. PICK X : s \in Seq(X)
  OBVIOUS
<1>2. s \in Seq(X \cup {e}) /\ e \in X \cup {e}
  BY <1>1
<1>3. Append(s, e) \in Seq(X \cup {e})
  BY <1>2
<1> QED
  BY <1>2, <1>3

LEMMA MinIn ==
    ASSUME NEW S \in SUBSET Nat, S # {}
    PROVE  Min(S) \in S
  BY NatMinimum, Zenon DEF Min

(* fold passes a run exactly when each of its phases passed.               *)
LEMMA FoldVerdict ==
    ASSUME NEW rs, \E X : rs \in Seq(X)
    PROVE  Passing(fold(rs).verdict) <=> \A i \in 1 .. Len(rs) : Passing(rs[i].verdict)
<1> DEFINE bad == {i \in DOMAIN rs : ~Passing(rs[i].verdict)}
<1>1. DOMAIN rs = 1 .. Len(rs) /\ Len(rs) \in Nat
  OBVIOUS
<1>2. fold(rs).verdict = IF bad = {} THEN "Passed" ELSE rs[Min(bad)].verdict
  BY DEF fold
<1>3. bad # {} => Min(bad) \in bad
  <2>1. bad \in SUBSET Nat
    BY <1>1
  <2> HIDE DEF bad
  <2> QED
    BY <2>1, MinIn
<1> QED
  BY <1>1, <1>2, <1>3 DEF Passing

(* eval_tick goes on only when no fatal probe reports.                     *)
LEMMA Reports ==
    ASSUME ResultsInv, NEW v, NEW h, NEW w
    PROVE  /\ eval_tick(v, h, w).flow \in {"Continue", "FailFast", "Abort"}
           /\ eval_tick(v, h, w).flow = "Continue" =>
               \A i \in eval_tick(v, h, w).reported : ~ Probes[i].fatal
<1> DEFINE some == eval_sometimes(ph.probes, v)
           step(i) ==
               LET spec == Probes[i]
                   st   == some.probes[i]
               IN  CASE spec.class = "Always" /\ due(spec, st, h) ->
                           JudgeAlways(spec, st, v[i], h)
                     [] spec.class = "Eventually" /\ paused(spec, w) ->
                           [st |-> [st EXCEPT !.last_satisfied = now], reports |-> FALSE]
                     [] spec.class = "Eventually" /\ ~paused(spec, w) ->
                           JudgeEventually(spec, st, v[i])
                     [] OTHER -> [st |-> st, reports |-> FALSE]
           judged(i) == \/ Probes[i].class = "Always" /\ due(Probes[i], some.probes[i], h)
                        \/ Probes[i].class = "Eventually" /\ ~paused(Probes[i], w)
           errs     == {i \in DOMAIN Probes : judged(i) /\ v[i] = "ProbeError"}
           breaks   == {i \in DOMAIN Probes : step(i).reports /\ Probes[i].fatal}
           last     == First(errs \cup breaks)
           aborted  == [probes |-> some.probes, reported |-> {}, flow |-> "Abort"]
           rest     == [probes   |-> [i \in DOMAIN Probes |->
                                         IF i <= last THEN step(i).st ELSE some.probes[i]],
                        reported |-> {i \in DOMAIN Probes : i <= last /\ step(i).reports},
                        flow     |-> CASE last \in errs   -> "Abort"
                                       [] last \in breaks -> "FailFast"
                                       [] OTHER           -> "Continue"]
<1>1. eval_tick(v, h, w) = IF some.err THEN aborted ELSE rest
  BY DEF eval_tick
<1>2. DOMAIN Probes \in SUBSET Nat
  <2>1. /\ profile.throughout \in Seq(Range(profile.throughout))
        /\ Phase.probes \in Seq(Range(Phase.probes))
    BY Registered DEF ResultsInv, Phase
  <2>2. Probes \in Seq(Range(profile.throughout) \cup Range(Phase.probes))
    BY <2>1 DEF Probes
  <2> QED
    BY <2>2
<1>3. errs \cup breaks # {} => last \in errs \cup breaks
  <2>1. errs \cup breaks \in SUBSET Nat
    BY <1>2
  <2> HIDE DEF errs, breaks
  <2> QED
    BY <2>1, MinIn DEF First
<1>4. aborted.flow = "Abort"
  BY Zenon
<1>5. /\ rest.reported = {i \in DOMAIN Probes : i <= last /\ step(i).reports}
      /\ rest.flow = CASE last \in errs   -> "Abort"
                      [] last \in breaks -> "FailFast"
                      [] OTHER           -> "Continue"
  BY Zenon
<1>6. /\ rest.flow \in {"Continue", "FailFast", "Abort"}
      /\ rest.flow = "Continue" => errs \cup breaks = {}
  <2> HIDE DEF errs, breaks, last, rest
  <2> QED
    BY <1>3, <1>5
<1>7. \A i \in rest.reported : Probes[i].fatal => i \in breaks
  <2> HIDE DEF step, last, rest
  <2> QED
    BY <1>5
<1> HIDE DEF aborted, rest, some, breaks, errs
<1> QED
  BY <1>1, <1>4, <1>6, <1>7

-----------------------------------------------------------------------------
(* A step inside a phase.                                                  *)
LEMMA Stays ==
    ASSUME Inv, pc # "done", pc' \notin {"done", "preflight_faults", "build"} \/ (pc' = pc /\ unstopped' = unstopped),
           UNCHANGED <<profile, phase, results, outcome>>,
           unstopped' = unstopped \/ unstopped' = unstopped \cup {phase},
           IsPh(ph'), FatalKnown(ph')
    PROVE  Inv'
<1>1. Probes' = Probes
  BY DEF Probes, Phase
<1>2. FatalKnown(ph)'
  BY <1>1 DEF FatalKnown
<1>3. IsPh(ph)'
  BY DEF IsPh
<1>4. ResultsInv'
  BY Zenon DEF Inv, ResultsInv, Judged, Passing, ProbesOf
<1>5. OpenInv'
  BY <1>2, <1>3 DEF Inv, OpenInv
<1>6. phase \in Nat \ {0} /\ phase \in 1 .. phase
  BY Registered DEF Inv, ResultsInv
<1>7. DoneInv'
  BY <1>6, Zenon DEF Inv, DoneInv
<1> QED
  BY <1>4, <1>5, <1>7 DEF Inv

(* The result of the current phase joins those before it.                  *)
LEMMA Grows ==
    ASSUME Inv, pc # "done", NEW r, results' = Append(results, r)
    PROVE  /\ \E X : results' \in Seq(X)
           /\ Len(results') = phase /\ results'[phase] = r
           /\ \A i \in 1 .. phase - 1 : results'[i] = results[i]
<1>1. /\ \E X : results \in Seq(X)
      /\ phase \in Nat \ {0} /\ Len(results) = phase - 1
  BY Registered DEF Inv, ResultsInv, OpenInv
<1> QED
  BY <1>1, Appended

(* A phase that is cut short, and the run with it.                         *)
LEMMA Ends ==
    ASSUME Inv, pc # "done", NEW r, Over(r), ~ Passing(r.verdict), ~ r.completed,
           UNCHANGED <<profile, phase>>, unstopped' \subseteq unstopped, phase \notin unstopped'
    PROVE  Inv'
<1>1. /\ results' = Append(results, r) /\ outcome' = fold(results') /\ pc' = "done"
  BY DEF Over
<1>2. /\ \E X : results \in Seq(X)
      /\ phase \in Nat \ {0} /\ Len(results) = phase - 1 /\ Len(profile.phases) \in Nat
  BY Registered DEF Inv, ResultsInv, OpenInv
<1>3. /\ \E X : results' \in Seq(X)
      /\ Len(results') = phase /\ results'[phase] = r
      /\ \A i \in 1 .. phase - 1 : results'[i] = results[i]
  BY <1>1, Grows
<1>4. \A i \in 1 .. phase : i \in 1 .. phase - 1 \/ i = phase
  BY <1>2
<1>5. ResultsInv'
  <2>1. \A i \in 1 .. phase : Judged(results'[i])
    BY <1>2, <1>3, <1>4, Zenon DEF Inv, ResultsInv, Judged
  <2>2. \A i : ProbesOf(i)' = ProbesOf(i)
    BY DEF ProbesOf
  <2>3. \A i \in 1 .. Len(results') : Judged(results[i])'
    BY <1>3, <2>1 DEF Judged, Passing
  <2> QED
    BY <1>3, <2>2, <2>3 DEF Inv, ResultsInv
<1>6. Passing(outcome'.verdict) <=> \A i \in 1 .. Len(results') : Passing(results'[i].verdict)
  BY <1>1, <1>3, FoldVerdict, Zenon
<1>7. \A i \in unstopped' : results'[i].completed
  BY <1>2, <1>3, <1>4 DEF Inv, DoneInv, ResultsInv
<1>8. Closed'
  BY <1>3, <1>6, <1>7 DEF Closed, Passing
<1>9. DoneInv' /\ OpenInv'
  BY <1>1, <1>8 DEF Inv, DoneInv, OpenInv
<1> QED
  BY <1>5, <1>9 DEF Inv

(* A phase begins with a clean slate.                                      *)
LEMMA Entered ==
    ASSUME NEW n, EnterPhase(n), UNCHANGED profile
    PROVE  phase' = n /\ pc' = "build" /\ IsPh(ph)' /\ FatalKnown(ph)'
<1>1. phase' = n /\ pc' = "build" /\ ph' = NewPhase(n)
  BY DEF EnterPhase
<1>2. IsPh(ph)'
  BY <1>1 DEF IsPh, NewPhase
<1>3. ph'.violations = {} /\ ph'.fatal = FALSE
  BY <1>1 DEF NewPhase
<1> QED
  BY <1>1, <1>2, <1>3 DEF FatalKnown

(* The finish line: its verdict is what was found, and the next phase      *)
(* starts behind it when it may.                                           *)
LEMMA Completes ==
    ASSUME Inv, pc \notin {"done", "preflight_faults", "build"},
           NEW error \in BOOLEAN, NEW p, IsPh(p), FatalKnown(p), Complete(error, p), UNCHANGED profile
    PROVE  Inv'
<1> DEFINE gaps == coverage_gaps(p.probes)
           verdict == CASE error -> "Errored"
                        [] ~error /\ p.violations = {} /\ gaps = {} -> "Passed"
                        [] OTHER -> "Failed"
           q == [p EXCEPT !.fatal = @ \/ gaps # {}]
           r == Result(verdict, error, TRUE, q)
<1>1. /\ IF r.proceed /\ phase < Len(profile.phases)
         THEN results' = Append(results, r) /\ EnterPhase(phase + 1)
         ELSE Over(r) /\ UNCHANGED phase
      /\ unstopped' = unstopped
  BY Zenon DEF Complete, InPhase
<1>2. q.violations = p.violations /\ q.probes = p.probes /\ (q.fatal <=> p.fatal \/ gaps # {})
  BY Zenon DEF IsPh
<1>3. /\ r.verdict = verdict /\ r.error = error /\ r.violations = q.violations
      /\ r.gaps = coverage_gaps(q.probes) /\ r.completed = TRUE
      /\ r.proceed = (TRUE /\ ~ q.fatal /\ ~ error)
  BY DEF Result
<1>4. /\ Passing(r.verdict) <=> ~ error /\ p.violations = {} /\ gaps = {}
      /\ r.completed /\ (r.error <=> error) /\ r.violations = p.violations /\ r.gaps = gaps
      /\ r.proceed <=> ~ p.fatal /\ gaps = {} /\ ~ error
  <2>1. verdict = "Passed" <=> ~ error /\ p.violations = {} /\ gaps = {}
    <3> HIDE DEF gaps
    <3> QED
      OBVIOUS
  <2> HIDE DEF verdict, r, q
  <2> QED
    BY <1>2, <1>3, <2>1, Zenon DEF Passing
<1> HIDE DEF gaps, verdict, q, r
<1>5. Judged(r)
  BY <1>4 DEF Judged
<1>6. /\ \E X : results \in Seq(X)
      /\ phase \in Nat \ {0} /\ Len(results) = phase - 1 /\ Len(profile.phases) \in Nat
      /\ phase <= Len(profile.phases)
  BY Registered DEF Inv, ResultsInv, OpenInv
<1>7. results' = Append(results, r)
  BY <1>1 DEF Over
<1>8. /\ \E X : results' \in Seq(X)
      /\ Len(results') = phase /\ results'[phase] = r
      /\ \A i \in 1 .. phase - 1 : results'[i] = results[i]
  BY <1>7, Grows
<1>9. \A i \in 1 .. phase : i \in 1 .. phase - 1 \/ i = phase
  BY <1>6
<1>10. \A i \in 1 .. Len(results') : Judged(results[i])'
  BY <1>5, <1>6, <1>8, <1>9, ZenonT(60) DEF Inv, ResultsInv, Judged, Passing
<1>11. \A i : ProbesOf(i)' = ProbesOf(i)
  BY DEF ProbesOf
<1>12. \A i \in 1 .. phase - 1 :
          /\ results'[i].completed /\ ~results'[i].error /\ results'[i].gaps = {}
          /\ \A v \in results'[i].violations : ~ProbesOf(i)'[v].fatal
  BY <1>8, <1>11 DEF Inv, ResultsInv
<1>13. CASE r.proceed /\ phase < Len(profile.phases)
  <2>1. phase' = phase + 1 /\ pc' = "build" /\ IsPh(ph)' /\ FatalKnown(ph)'
    BY <1>1, <1>13, Entered, Zenon
  <2>2. \A v \in r.violations : ~ ProbesOf(phase)[v].fatal
    BY <1>4, <1>13, Zenon DEF FatalKnown, Probes, Phase, ProbesOf
  <2>3. \A i \in 1 .. phase' - 1 :
          /\ results'[i].completed /\ ~results'[i].error /\ results'[i].gaps = {}
          /\ \A v \in results'[i].violations : ~ProbesOf(i)'[v].fatal
    <3>1. \A i \in 1 .. phase' - 1 : i \in 1 .. phase
      BY <1>6, <2>1
    <3> QED
      BY <1>4, <1>8, <1>9, <1>11, <1>12, <1>13, <2>2, <3>1
  <2>4. phase' \in 1 .. Len(profile'.phases)
    BY <1>6, <1>13, <2>1
  <2>5. ResultsInv'
    BY <1>8, <1>10, <2>3, <2>4, Zenon DEF Inv, ResultsInv
  <2>6. unstopped' \subseteq 1 .. phase /\ phase' \notin unstopped' /\ unstopped' \subseteq 1 .. phase'
    BY <1>1, <1>6, <2>1 DEF Inv, DoneInv
  <2>7. OpenInv'
    BY <1>6, <1>8, <2>1, <2>6 DEF OpenInv
  <2>8. DoneInv'
    BY <2>1, <2>6, Zenon DEF DoneInv
  <2> QED
    BY <2>5, <2>7, <2>8, Zenon DEF Inv
<1>14. CASE ~ (r.proceed /\ phase < Len(profile.phases))
  <2>1. /\ outcome' = fold(results') /\ pc' = "done" /\ phase' = phase /\ unstopped' = unstopped
    BY <1>1, <1>14, Zenon DEF Over
  <2>2. ResultsInv'
    BY <1>6, <1>8, <1>10, <1>12, <2>1, Zenon DEF Inv, ResultsInv
  <2>3. Passing(outcome'.verdict) <=> \A i \in 1 .. Len(results') : Passing(results'[i].verdict)
    BY <1>8, <2>1, FoldVerdict, Zenon
  <2>4. \A i \in unstopped' : results'[i].completed
    BY <1>4, <1>8, <1>9, <1>12, <2>1, Zenon DEF Inv, DoneInv
  <2>5. phase < Len(profile.phases) => ~ Passing(results'[phase].verdict)
    BY <1>4, <1>8, <1>14, Zenon DEF FatalKnown
  <2>6. Closed'
    BY <1>8, <2>1, <2>3, <2>4, <2>5, Zenon DEF Closed, Passing
  <2>7. OpenInv' /\ DoneInv'
    BY <2>1, <2>6 DEF Inv, OpenInv, DoneInv
  <2> QED
    BY <2>2, <2>7, Zenon DEF Inv
<1> QED
  BY <1>13, <1>14

LEMMA CutEnds ==
    ASSUME Inv, pc # "done", NEW verdict \in {"Cancelled", "TimedOut", "Errored", "Failed"},
           NEW error, NEW p, Cut(verdict, error, p), UNCHANGED <<profile, phase>>
    PROVE  Inv'
<1> DEFINE r == Result(verdict, error, FALSE, p)
<1>1. unstopped' = unstopped \ {phase} /\ Over(r)
  BY Zenon DEF Cut, StopSubject
<1>2. ~ Passing(r.verdict) /\ ~ r.completed
  BY DEF Result, Passing
<1> HIDE DEF r
<1> QED
  BY <1>1, <1>2, Ends

LEMMA EarlyEnds ==
    ASSUME Inv, pc # "done", NEW verdict \in {"Cancelled", "TimedOut", "Errored"}, NEW error,
           Over(EarlyResult(verdict, error)), UNCHANGED <<profile, phase>>,
           StopSubject \/ (pc = "build" /\ unstopped' = unstopped)
    PROVE  Inv'
<1> DEFINE r == EarlyResult(verdict, error)
<1>1. ~ Passing(r.verdict) /\ ~ r.completed /\ Over(r)
  BY DEF EarlyResult, Passing
<1>2. unstopped' \subseteq unstopped /\ phase \notin unstopped'
  BY DEF StopSubject, Inv, OpenInv
<1> HIDE DEF r
<1> QED
  BY <1>1, <1>2, Ends

(* What the engine does not see of the world moves nothing of its own.     *)
LEMMA Frame ==
    ASSUME Inv, UNCHANGED <<profile, pc, phase, ph, results, outcome, unstopped>>
    PROVE  Inv'
<1>1. Probes' = Probes
  BY Zenon DEF Probes, Phase
<1>2. ResultsInv'
  BY Zenon DEF Inv, ResultsInv, Judged, Passing, ProbesOf
<1>3. OpenInv'
  BY <1>1 DEF Inv, OpenInv, IsPh, FatalKnown
<1>4. DoneInv'
  BY DEF Inv, DoneInv, Refused, Closed, Passing
<1> QED
  BY <1>2, <1>3, <1>4 DEF Inv

LEMMA InitInv == Init => Inv
<1> SUFFICES ASSUME Init
             PROVE  Inv
  OBVIOUS
<1>1. /\ profile \in Profiles /\ pc = "preflight_faults" /\ phase = 1 /\ ph = NewPhase(1)
      /\ results = <<>> /\ unstopped = {}
  BY DEF Init
<1>2. Len(profile.phases) \in Nat \ {0}
  BY <1>1, Registered
<1>3. results \in Seq({}) /\ Len(results) = 0
  BY <1>1
<1>4. ResultsInv
  BY <1>1, <1>2, <1>3 DEF ResultsInv
<1>5. IsPh(ph) /\ FatalKnown(ph)
  <2>1. ph.violations = {} /\ ph.fatal = FALSE
    BY <1>1 DEF NewPhase
  <2>2. IsPh(ph)
    BY <1>1 DEF NewPhase, IsPh
  <2> QED
    BY <2>1, <2>2, Zenon DEF FatalKnown
<1>6. OpenInv /\ DoneInv
  BY <1>1, <1>3, <1>5 DEF OpenInv, DoneInv
<1> QED
  BY <1>4, <1>6 DEF Inv

LEMMA PreflightStep ==
    ASSUME Inv, preflight_faults
    PROVE  Inv'
<1>1. /\ pc = "preflight_faults" /\ UNCHANGED <<profile, results, unstopped>>
      /\ \/ EnterPhase(1)
         \/ pc' = "done" /\ UNCHANGED phase /\ outcome' = [NoOutcome EXCEPT !.verdict = "Errored", !.error = TRUE]
  BY DEF preflight_faults, InPhase
<1>2. phase = 1 /\ unstopped = {} /\ Len(results) = 0 /\ \E X : results \in Seq(X)
  BY <1>1 DEF Inv, OpenInv, ResultsInv
<1>3. results = <<>>
  BY <1>2
<1>4. phase' = 1
  BY <1>1, <1>2, Entered
<1>5. ResultsInv'
  BY <1>1, <1>2, <1>4 DEF Inv, ResultsInv
<1>6. CASE EnterPhase(1)
  <2>1. pc' = "build" /\ IsPh(ph)' /\ FatalKnown(ph)'
    BY <1>1, <1>6, Entered, Zenon
  <2>2. OpenInv' /\ DoneInv'
    BY <1>1, <1>2, <1>4, <2>1 DEF OpenInv, DoneInv
  <2> QED
    BY <1>5, <2>2 DEF Inv
<1>7. CASE pc' = "done" /\ UNCHANGED phase /\ outcome' = [NoOutcome EXCEPT !.verdict = "Errored", !.error = TRUE]
  <2>1. outcome'.verdict = "Errored"
    BY <1>7 DEF NoOutcome
  <2>2. OpenInv' /\ DoneInv'
    BY <1>1, <1>2, <1>3, <1>7, <2>1, Zenon DEF OpenInv, DoneInv, Refused
  <2> QED
    BY <1>5, <2>2 DEF Inv
<1> QED
  BY <1>1, <1>6, <1>7

(* Before the first tick.                                                  *)
LEMMA EarlyStep ==
    ASSUME Inv, \/ BuildCut \/ BuildAndLaunch \/ await_ready \/ ReadyCancelled \/ check_required_work
    PROVE  Inv'
<1>0. pc # "done" /\ UNCHANGED <<profile, phase, ph>>
  BY Zenon DEF BuildCut, BuildAndLaunch, launch, await_ready, ReadyCancelled, check_required_work, InPhase
<1>1. IsPh(ph') /\ FatalKnown(ph')
  BY <1>0 DEF Inv, OpenInv
<1>2. CASE BuildCut
  <2>1. \E v \in {"Cancelled", "TimedOut"} : Over(EarlyResult(v, FALSE))
    BY <1>2, Zenon DEF BuildCut
  <2>2. pc = "build" /\ unstopped' = unstopped
    BY <1>2 DEF BuildCut
  <2> QED
    BY <1>0, <2>1, <2>2, EarlyEnds, Zenon
<1>3. CASE BuildAndLaunch
  <2>1. CASE Over(EarlyResult("Errored", TRUE)) /\ pc = "build" /\ unstopped' = unstopped
    BY <1>0, <2>1, EarlyEnds, Zenon
  <2>2. CASE pc' = "gate" /\ unstopped' = unstopped \cup {phase} /\ UNCHANGED <<results, outcome>>
    BY <1>0, <1>1, <2>2, Stays
  <2> QED
    BY <1>3, <2>1, <2>2, Zenon DEF BuildAndLaunch, launch
<1>4. CASE await_ready \/ ReadyCancelled \/ check_required_work
  <2>1. \/ pc' \in {"work", "gatewait", "wait", "workwait"} /\ UNCHANGED <<results, outcome, unstopped>>
        \/ StopSubject /\ Over(EarlyResult("Errored", TRUE))
        \/ StopSubject /\ Over(EarlyResult("Cancelled", FALSE))
    <3>1. CASE await_ready
      BY <3>1, Zenon DEF await_ready
    <3>2. CASE ReadyCancelled
      BY <3>2, Zenon DEF ReadyCancelled
    <3>3. CASE check_required_work
      BY <3>3, Zenon DEF check_required_work
    <3> QED
      BY <1>4, <3>1, <3>2, <3>3, Zenon
  <2>2. CASE pc' \in {"work", "gatewait", "wait", "workwait"} /\ UNCHANGED <<results, outcome, unstopped>>
    BY <1>0, <1>1, <2>2, Stays
  <2>3. CASE \/ StopSubject /\ Over(EarlyResult("Errored", TRUE))
             \/ StopSubject /\ Over(EarlyResult("Cancelled", FALSE))
    BY <1>0, <2>3, EarlyEnds, Zenon
  <2> QED
    BY <2>1, <2>2, <2>3, Zenon
<1> QED
  BY <1>2, <1>3, <1>4, Zenon

(* The tick loop.                                                          *)
LEMMA TickStep ==
    ASSUME Inv, TickCancelled \/ Tick
    PROVE  Inv'
<1>0. pc = "wait" /\ UNCHANGED <<profile, phase>>
  BY Zenon DEF TickCancelled, Tick, InPhase
<1>1. IsPh(ph) /\ FatalKnown(ph)
  BY <1>0 DEF Inv, OpenInv
<1>2. /\ IsPh(settle_rows(ph)) /\ settle_rows(ph).violations = ph.violations
      /\ settle_rows(ph).fatal = ph.fatal
  BY <1>1, Zenon DEF IsPh, settle_rows
<1>3. \/ Cut("Cancelled", FALSE, ph) \/ Cut("TimedOut", FALSE, ph) \/ Cut("Errored", TRUE, ph)
      \/ pc' = "judge" /\ ph' \in {ph, settle_rows(ph)} /\ UNCHANGED <<results, outcome, unstopped>>
  BY Zenon DEF TickCancelled, Tick
<1>4. CASE Cut("Cancelled", FALSE, ph) \/ Cut("TimedOut", FALSE, ph) \/ Cut("Errored", TRUE, ph)
  BY <1>0, <1>4, CutEnds, Zenon
<1>5. CASE pc' = "judge" /\ ph' \in {ph, settle_rows(ph)} /\ UNCHANGED <<results, outcome, unstopped>>
  <2>1. IsPh(ph') /\ FatalKnown(ph')
    BY <1>1, <1>2, <1>5 DEF FatalKnown
  <2> QED
    BY <1>0, <1>5, <2>1, Stays
<1> QED
  BY <1>3, <1>4, <1>5, Zenon

LEMMA JudgeStep ==
    ASSUME Inv, Judge
    PROVE  Inv'
<1>0. pc = "judge" /\ UNCHANGED <<profile, phase>>
  BY Zenon DEF Judge
<1>1. IsPh(ph) /\ FatalKnown(ph)
  BY <1>0 DEF Inv, OpenInv
<1>6. ResultsInv
  BY DEF Inv
<1>3. CASE Cut("Failed", TRUE, ph)
  BY <1>0, <1>3, CutEnds, Zenon
<1>4. CASE \E c : ph' = [ph EXCEPT !.reported = {}, !.probes = c] /\ pc' = "wait"
                 /\ UNCHANGED <<results, outcome, unstopped>>
  <2>1. IsPh(ph') /\ ph'.violations = ph.violations /\ ph'.fatal = ph.fatal
    BY <1>1, <1>4, Zenon DEF IsPh
  <2>2. FatalKnown(ph')
    BY <1>1, <2>1 DEF FatalKnown
  <2> QED
    BY <1>0, <1>4, <2>1, <2>2, Stays
<1>5. ASSUME NEW e, NEW height, NEW s,
             ph' = [ph EXCEPT !.probes = e.probes, !.height = height, !.reported = e.reported,
                              !.violations = @ \cup e.reported,
                              !.fatal = @ \/ e.flow = "FailFast",
                              !.stop_height = s, !.stop_after = None],
             e.flow = "Continue" => \A i \in e.reported : ~ Probes[i].fatal,
             \/ Cut("Failed", FALSE, ph') \/ Cut("Errored", TRUE, ph')
             \/ /\ e.flow = "Continue" /\ pc' = "complete"
                /\ UNCHANGED <<results, outcome, unstopped>>
      PROVE  Inv'
  <2>1. CASE Cut("Failed", FALSE, ph') \/ Cut("Errored", TRUE, ph')
    BY <1>0, <2>1, CutEnds, Zenon
  <2>2. CASE /\ e.flow = "Continue" /\ pc' = "complete"
             /\ UNCHANGED <<results, outcome, unstopped>>
    <3>1. IsPh(ph')
      BY <1>1, <1>5, Zenon DEF IsPh
    <3>2. ph'.violations = ph.violations \cup e.reported /\ (ph'.fatal <=> ph.fatal)
      BY <1>1, <1>5, <2>2, Zenon DEF IsPh
    <3>3. FatalKnown(ph')
      BY <1>1, <1>5, <2>2, <3>2 DEF FatalKnown
    <3> QED
      BY <1>0, <2>2, <3>1, <3>3, Stays, Zenon
  <2> QED
    BY <1>5, <2>1, <2>2, Zenon
<1>7. PICK answered \in BOOLEAN :
        LET w == observe(watch, sample, answered) IN
        \/ Cut("Failed", TRUE, ph)
        \/ /\ ph' = [ph EXCEPT !.reported = {},
                               !.probes = IF w.holding THEN credit_liveness(@) ELSE @]
           /\ pc' = "wait"
           /\ UNCHANGED <<results, outcome, unstopped>>
        \/ \E height \in Phase.heights, v \in Verdicts :
              LET e == eval_tick(v, height, w.holding)
              IN  /\ ph' = [ph EXCEPT
                         !.probes = e.probes,
                         !.height = height,
                         !.reported = e.reported,
                         !.violations = @ \cup e.reported,
                         !.fatal = @ \/ e.flow = "FailFast",
                         !.stop_height = IF ph.stop_after = None THEN @
                                         ELSE height + ph.stop_after,
                         !.stop_after = None]
                  /\ CASE e.flow = "Continue" ->
                            pc' = "complete" /\ UNCHANGED <<results, outcome, unstopped>>
                       [] e.flow = "FailFast" -> Cut("Failed", FALSE, ph')
                       [] e.flow = "Abort"    -> Cut("Errored", TRUE, ph')
  BY ZenonT(120) DEF Judge
<1> DEFINE w == observe(watch, sample, answered).holding
<1>8. CASE /\ ph' = [ph EXCEPT !.reported = {}, !.probes = IF w THEN credit_liveness(@) ELSE @]
           /\ pc' = "wait"
           /\ UNCHANGED <<results, outcome, unstopped>>
  <2> HIDE DEF w
  <2> QED
    BY <1>4, <1>8, Zenon
<1>9. ASSUME NEW height, NEW v, NEW e, e = eval_tick(v, height, w),
             ph' = [ph EXCEPT
                         !.probes = e.probes,
                         !.height = height,
                         !.reported = e.reported,
                         !.violations = @ \cup e.reported,
                         !.fatal = @ \/ e.flow = "FailFast",
                         !.stop_height = IF ph.stop_after = None THEN @
                                         ELSE height + ph.stop_after,
                         !.stop_after = None],
             CASE e.flow = "Continue" -> pc' = "complete" /\ UNCHANGED <<results, outcome, unstopped>>
               [] e.flow = "FailFast" -> Cut("Failed", FALSE, ph')
               [] e.flow = "Abort"    -> Cut("Errored", TRUE, ph')
      PROVE  Inv'
  <2> HIDE DEF w
  <2>1. /\ e.flow \in {"Continue", "FailFast", "Abort"}
        /\ e.flow = "Continue" => \A i \in e.reported : ~ Probes[i].fatal
    BY <1>6, <1>9, Reports, Zenon
  <2>2. \/ Cut("Failed", FALSE, ph') \/ Cut("Errored", TRUE, ph')
        \/ /\ e.flow = "Continue" /\ pc' = "complete"
           /\ UNCHANGED <<results, outcome, unstopped>>
    BY <1>9, <2>1, Zenon
  <2> DEFINE s == IF ph.stop_after = None THEN ph.stop_height ELSE height + ph.stop_after
  <2>3. ph' = [ph EXCEPT !.probes = e.probes, !.height = height, !.reported = e.reported,
                         !.violations = @ \cup e.reported,
                         !.fatal = @ \/ e.flow = "FailFast",
                         !.stop_height = s, !.stop_after = None]
    BY <1>9
  <2> HIDE DEF s
  <2> QED
    BY <1>5, <2>1, <2>2, <2>3, Zenon
<1> QED
  BY <1>3, <1>7, <1>8, <1>9, Zenon

(* The finish line.                                                        *)
LEMMA CompletionStep ==
    ASSUME Inv, Completion
    PROVE  Inv'
<1>0. pc = "complete" /\ UNCHANGED profile
  BY Zenon DEF Completion
<1>1. IsPh(ph) /\ FatalKnown(ph)
  BY <1>0 DEF Inv, OpenInv
<1>2. ASSUME NEW c
      PROVE  LET p == [ph EXCEPT !.probes = c, !.reported = {}] IN IsPh(p) /\ FatalKnown(p)
  BY <1>1, Zenon DEF IsPh, FatalKnown
<1>3. \/ pc' = "wait" /\ UNCHANGED <<phase, ph, results, outcome, unstopped>>
      \/ Complete(FALSE, ph)
      \/ \E c : LET p == [ph EXCEPT !.probes = c, !.reported = {}]
                IN  \/ Complete(TRUE, p)
                    \/ pc' = "post" /\ ph' = p /\ UNCHANGED <<phase, results, outcome, unstopped>>
  BY Zenon DEF Completion, InPhase
<1>4. CASE pc' = "wait" /\ UNCHANGED <<phase, ph, results, outcome, unstopped>>
  BY <1>0, <1>1, <1>4, Stays
<1>5. CASE Complete(FALSE, ph)
  BY <1>0, <1>1, <1>5, Completes, Zenon
<1>6. ASSUME NEW p, IsPh(p), FatalKnown(p),
             \/ Complete(TRUE, p)
             \/ pc' = "post" /\ ph' = p /\ UNCHANGED <<phase, results, outcome, unstopped>>
      PROVE  Inv'
  BY <1>0, <1>6, Completes, Stays, Zenon
<1> QED
  BY <1>2, <1>3, <1>4, <1>5, <1>6, Zenon

LEMMA PostStep ==
    ASSUME Inv, eval_at_completion \/ RetryCancelled
    PROVE  Inv'
<1>0. pc \in {"post", "retry"} /\ UNCHANGED profile
  BY Zenon DEF eval_at_completion, RetryCancelled
<1>1. IsPh(ph) /\ FatalKnown(ph)
  BY <1>0 DEF Inv, OpenInv
<1>2. ASSUME NEW i
      PROVE  IsPh(BrokenPost(ph, i)) /\ FatalKnown(BrokenPost(ph, i))
  <2>1. /\ IsPh(BrokenPost(ph, i)) /\ BrokenPost(ph, i).violations = ph.violations \cup {i}
        /\ BrokenPost(ph, i).fatal <=> ph.fatal \/ Probes[i].fatal
    BY <1>1, Zenon DEF IsPh, BrokenPost
  <2> QED
    BY <1>1, <2>1 DEF FatalKnown
<1>3. \/ Complete(FALSE, ph) \/ Complete(TRUE, ph)
      \/ /\ pc' \in {"retry", "post"} /\ UNCHANGED <<phase, results, outcome, unstopped>>
         /\ ph' = ph \/ \E i : ph' = BrokenPost(ph, i)
  BY Zenon DEF eval_at_completion, RetryCancelled, InPhase
<1>4. CASE Complete(FALSE, ph) \/ Complete(TRUE, ph)
  BY <1>0, <1>1, <1>4, Completes, Zenon
<1>5. CASE /\ pc' \in {"retry", "post"} /\ UNCHANGED <<phase, results, outcome, unstopped>>
           /\ ph' = ph \/ \E i : ph' = BrokenPost(ph, i)
  <2>1. IsPh(ph') /\ FatalKnown(ph')
    BY <1>1, <1>2, <1>5, Zenon
  <2> QED
    BY <1>0, <1>5, <2>1, Stays
<1> QED
  BY <1>3, <1>4, <1>5, Zenon

-----------------------------------------------------------------------------
LEMMA StepInv == Inv /\ [Next]_vars => Inv'
<1> SUFFICES ASSUME Inv, [Next]_vars
             PROVE  Inv'
  OBVIOUS
<1>1. CASE EngineStep \/ BuildAndLaunch
  BY <1>1, PreflightStep, EarlyStep, TickStep, JudgeStep, CompletionStep, PostStep, Zenon DEF EngineStep
<1>2. CASE ComponentMoves \/ Publish \/ SubjectMoves \/ TipMoves \/ RequestStop \/ Elapse
  <2>1. EngineUnchanged
    BY <1>2 DEF ComponentMoves, Publish, SubjectMoves, TipMoves, RequestStop, Elapse
  <2> QED
    BY <2>1, Frame DEF EngineUnchanged, InPhase
<1>3. CASE UNCHANGED vars
  BY <1>3, Frame DEF vars
<1> QED
  BY <1>1, <1>2, <1>3 DEF Next

(* A run of any registration passes exactly when every phase was attempted *)
(* and completed with nothing found (run, fold).                           *)
THEOREM PassedIsClean == Spec => []PassIsClean
<1>1. Inv => PassIsClean
  <2> SUFFICES ASSUME Inv, pc = "done"
               PROVE  outcome.verdict = "Passed" <=>
                         /\ Len(results) = Len(profile.phases)
                         /\ \A i \in DOMAIN results :
                               /\ results[i].completed /\ ~results[i].error
                               /\ results[i].violations = {} /\ results[i].gaps = {}
    BY DEF PassIsClean
  <2>1. /\ \E X : results \in Seq(X)
        /\ phase \in 1 .. Len(profile.phases) /\ Len(profile.phases) \in Nat \ {0}
        /\ \A i \in 1 .. Len(results) : Judged(results[i])
    BY Registered DEF Inv, ResultsInv
  <2>2. DOMAIN results = 1 .. Len(results) /\ Len(results) \in Nat
    BY <2>1
  <2>3. CASE Refused
    BY <2>1, <2>3 DEF Refused
  <2>4. CASE Closed
    <3>1. /\ Len(results) = phase
          /\ outcome.verdict = "Passed" <=> \A i \in 1 .. Len(results) : Passing(results[i].verdict)
          /\ phase < Len(profile.phases) => ~ Passing(results[phase].verdict)
      BY <2>4 DEF Closed, Passing
    <3>2. outcome.verdict = "Passed" => Len(results) = Len(profile.phases)
      BY <2>1, <3>1
    <3> QED
      BY <2>1, <2>2, <3>1, <3>2, Zenon DEF Judged
  <2> QED
    BY <2>3, <2>4 DEF Inv, DoneInv
<1> QED
  BY <1>1, InitInv, StepInv, PTL DEF Spec

(* Whatever the registration, a phase runs only behind phases that let it  *)
(* start, and every launched subject is asked to stop by a phase that was  *)
(* cut short (run's proceed, Cut); the answer is dropped.                  *)
THEOREM InTurn == Spec => []PhasesInTurn
<1>1. Inv => PhasesInTurn
  BY DEF Inv, ResultsInv, DoneInv, Refused, Closed, PhasesInTurn
<1> QED
  BY <1>1, InitInv, StepInv, PTL DEF Spec

-----------------------------------------------------------------------------
(* The restart window.  A stall is judged against the clock of its window, *)
(* so the invariant says what that clock may reach back over: with every   *)
(* sample read, no open window is older than the last tick inside a        *)
(* restart.  That is inductive only with what the watch knows: the         *)
(* restarts it counted happened, and a component that is away is held or   *)
(* will be by the sample that shows it, unless the phase has opened no     *)
(* window yet (it may start under a restart of the phase before).          *)
Live == pc \notin {"post", "retry", "done"}

(* The scheduler state of an `eventually` probe.                           *)
IsSt(s) ==
    /\ s \in [fired_height : {s.fired_height}, next_due : {s.next_due},
              violation_streak : {s.violation_streak}, last_satisfied : {s.last_satisfied},
              ever_satisfied : {s.ever_satisfied}]
    /\ s.last_satisfied \in Nat \cup {None}

Windows == OfClass("Eventually")
Opened(i) == IF ph.probes[i].last_satisfied = None THEN now ELSE ph.probes[i].last_satisfied
Unopened == \A i \in Windows : ph.probes[i].last_satisfied = None

WorldType ==
    world \in [comp : {"serving", "crashed", "killed", "down", "warming"}, restarts : Nat,
               published : {world.published}, task : {world.task}]
WatchType == watch \in [baseline : Nat \cup {None}, seen : Nat, holding : BOOLEAN]
SampleType ==
    /\ sample \in [read : BOOLEAN, restarts : Nat, ready : BOOLEAN,
                   comp : {"serving", "crashed", "killed", "down", "warming"}]
    /\ sample.ready <=> sample.comp # "down"
ClockType == now \in Nat /\ lastOut \in Nat \cup {None} /\ lastOut <= now

StallTypes == WorldType /\ WatchType /\ SampleType /\ ClockType /\ blind \in BOOLEAN

(* Every window in flight is one of the phase's probes.                    *)
ProbesTyped ==
    /\ DOMAIN ph.probes = DOMAIN Probes
    /\ \A i \in Windows : IsSt(ph.probes[i])

Stalled(i) ==
    /\ blind \/ lastOut = None \/ now - lastOut > Probes[i].window
    /\ Probes[i].after = "" \/ Probes[i].after \in fired

(* What was reported still stands.                                         *)
ReportsStand ==
    \A i \in ph.reported : i \in DOMAIN Probes /\ (i \in Windows => Stalled(i))

(* No open window reaches back over a tick inside a restart.               *)
Clocked ==
    \A i \in Windows : \/ ph.probes[i].last_satisfied = None
                       \/ lastOut <= ph.probes[i].last_satisfied

(* The restarts the watch has counted did happen.                          *)
Counted ==
    IF watch.baseline = None THEN watch.seen = 0
    ELSE watch.baseline <= world.restarts /\ watch.seen <= world.restarts - watch.baseline

(* A component that is away is held, or its next sample will show it.      *)
Noticed(comp, restarts) ==
    /\ watch.baseline # None
    /\ comp = "killed" => watch.holding
    /\ comp = "warming" => watch.holding \/ restarts - watch.baseline > watch.seen

Tracked ==
    /\ Clocked
    /\ Counted
    /\ Phase.own => Unopened \/ Noticed(world.comp, world.restarts)
    /\ pc = "judge" =>
        /\ sample.read /\ sample.restarts <= world.restarts
        /\ watch.baseline # None => watch.baseline <= sample.restarts
        /\ Phase.own => Unopened \/ Noticed(sample.comp, sample.restarts)

StallInv ==
    /\ StallTypes
    /\ Live => ProbesTyped /\ ReportsStand /\ (~blind => Tracked)

-----------------------------------------------------------------------------
LEMMA Listed ==
    ASSUME ResultsInv
    PROVE  /\ DOMAIN Probes \in SUBSET Nat
           /\ \A i \in DOMAIN Probes : i <= Len(Probes) /\ Probes[i].window \in Nat
           /\ Len(Probes) \in Nat
           /\ Windows \subseteq DOMAIN Probes
<1> DEFINE R == Range(profile.throughout) \cup Range(Phase.probes)
<1>1. /\ profile.throughout \in Seq(Range(profile.throughout))
      /\ Phase.probes \in Seq(Range(Phase.probes))
  BY Registered DEF ResultsInv, Phase
<1>2. \A q \in R : q.window \in Nat
  BY Registered, ProfilesAssumption, Zenon DEF ResultsInv, Phase
<1> HIDE DEF R
<1>3. Probes \in Seq(R)
  BY <1>1 DEF Probes, R
<1> QED
  BY <1>2, <1>3 DEF Windows, OfClass

LEMMA MaxTwo ==
    ASSUME NEW a \in Int, NEW b \in Int
    PROVE  Max({a, b}) = IF a >= b THEN a ELSE b
<1>1. CASE a >= b
  <2>1. a \in {a, b} /\ \A y \in {a, b} : a >= y
    BY <1>1
  <2>2. \A x \in {a, b} : (\A y \in {a, b} : x >= y) => x = a
    BY <1>1
  <2> QED
    BY <1>1, <2>1, <2>2 DEF Max
<1>2. CASE b > a
  <2>1. b \in {a, b} /\ \A y \in {a, b} : b >= y
    BY <1>2
  <2>2. \A x \in {a, b} : (\A y \in {a, b} : x >= y) => x = b
    BY <1>2
  <2> QED
    BY <1>2, <2>1, <2>2 DEF Max
<1> QED
  BY <1>1, <1>2

(* What one tick does to a window: a restart credits it, and outside one   *)
(* it is credited, opened or left as it was.                               *)
TickClocks(e, w) ==
    /\ e.reported \subseteq DOMAIN Probes
    /\ \A i \in Windows : i \in e.reported =>
          ~w /\ armed(Probes[i]) /\ now - Opened(i) > Probes[i].window
    /\ e.flow = "Continue" =>
          /\ DOMAIN e.probes = DOMAIN Probes
          /\ \A i \in Windows :
                /\ IsSt(e.probes[i])
                /\ e.probes[i].last_satisfied \in {now, Opened(i)}
                /\ w => e.probes[i].last_satisfied = now

LEMMA Clocks ==
    ASSUME ResultsInv, ProbesTyped, now \in Nat, NEW v, NEW h, NEW w \in BOOLEAN, NEW e,
           e = eval_tick(v, h, w)
    PROVE  TickClocks(e, w)
<1> DEFINE some == eval_sometimes(ph.probes, v)
           step(i) ==
               LET spec == Probes[i]
                   st   == some.probes[i]
               IN  CASE spec.class = "Always" /\ due(spec, st, h) ->
                           JudgeAlways(spec, st, v[i], h)
                     [] spec.class = "Eventually" /\ paused(spec, w) ->
                           [st |-> [st EXCEPT !.last_satisfied = now], reports |-> FALSE]
                     [] spec.class = "Eventually" /\ ~paused(spec, w) ->
                           JudgeEventually(spec, st, v[i])
                     [] OTHER -> [st |-> st, reports |-> FALSE]
           judged(i) == \/ Probes[i].class = "Always" /\ due(Probes[i], some.probes[i], h)
                        \/ Probes[i].class = "Eventually" /\ ~paused(Probes[i], w)
           errs     == {i \in DOMAIN Probes : judged(i) /\ v[i] = "ProbeError"}
           breaks   == {i \in DOMAIN Probes : step(i).reports /\ Probes[i].fatal}
           last     == First(errs \cup breaks)
           aborted  == [probes |-> some.probes, reported |-> {}, flow |-> "Abort"]
           rest     == [probes   |-> [i \in DOMAIN Probes |->
                                         IF i <= last THEN step(i).st ELSE some.probes[i]],
                        reported |-> {i \in DOMAIN Probes : i <= last /\ step(i).reports},
                        flow     |-> CASE last \in errs   -> "Abort"
                                       [] last \in breaks -> "FailFast"
                                       [] OTHER           -> "Continue"]
<1>1. e = IF some.err THEN aborted ELSE rest
  BY Zenon DEF eval_tick
<1>2. \A i \in Windows : some.probes[i] = ph.probes[i] /\ Probes[i].class = "Eventually"
  <2>1. some.probes = [i \in DOMAIN ph.probes |->
                        IF /\ i \in {j \in OfClass("Sometimes") : ~ph.probes[j].ever_satisfied}
                           /\ i < First({j \in {k \in OfClass("Sometimes") : ~ph.probes[k].ever_satisfied} : v[j] = "ProbeError"})
                           /\ v[i] = "Satisfied"
                        THEN [ph.probes[i] EXCEPT !.ever_satisfied = TRUE]
                        ELSE ph.probes[i]]
    BY DEF eval_sometimes
  <2>2. \A i \in Windows : i \in DOMAIN ph.probes /\ i \notin OfClass("Sometimes") /\ Probes[i].class = "Eventually"
    BY DEF ProbesTyped, Windows, OfClass
  <2> QED
    BY <2>1, <2>2
<1>3. /\ DOMAIN Probes \in SUBSET Nat /\ Len(Probes) \in Nat
      /\ \A i \in DOMAIN Probes : i <= Len(Probes)
      /\ Windows \subseteq DOMAIN Probes
  BY Listed
<1>4. errs \cup breaks # {} => last \in errs \cup breaks
  <2>1. errs \cup breaks \in SUBSET Nat
    BY <1>3, Zenon
  <2> HIDE DEF errs, breaks
  <2> QED
    BY <2>1, MinIn, Zenon DEF First
<1>5. errs \cup breaks = {} => last = Len(Probes) + 1
  BY Zenon DEF First
<1>6. /\ aborted.flow = "Abort" /\ aborted.reported = {}
      /\ rest.reported = {i \in DOMAIN Probes : i <= last /\ step(i).reports}
      /\ rest.probes = [i \in DOMAIN Probes |-> IF i <= last THEN step(i).st ELSE some.probes[i]]
      /\ rest.flow = CASE last \in errs   -> "Abort"
                      [] last \in breaks -> "FailFast"
                      [] OTHER           -> "Continue"
  BY Zenon
<1>7. rest.flow = "Continue" => errs \cup breaks = {}
  <2> HIDE DEF errs, breaks, last, rest
  <2> QED
    BY <1>4, <1>6, Zenon
<1>8. ASSUME NEW i \in Windows
      PROVE  /\ step(i).reports =>
                   ~w /\ armed(Probes[i]) /\ now - Opened(i) > Probes[i].window
             /\ IsSt(step(i).st) /\ step(i).st.last_satisfied \in {now, Opened(i)}
             /\ w => step(i).st.last_satisfied = now
  <2>1. step(i) = IF paused(Probes[i], w)
                  THEN [st |-> [ph.probes[i] EXCEPT !.last_satisfied = now], reports |-> FALSE]
                  ELSE JudgeEventually(Probes[i], ph.probes[i], v[i])
    <3> HIDE DEF some
    <3> QED
      BY <1>2, <1>8, Zenon
  <2>2. IsSt(ph.probes[i])
    BY <1>8 DEF ProbesTyped
  <2>3. /\ Opened(i) \in Nat
        /\ \A t \in Nat : /\ IsSt([ph.probes[i] EXCEPT !.last_satisfied = t])
                          /\ [ph.probes[i] EXCEPT !.last_satisfied = t].last_satisfied = t
    BY <2>2 DEF IsSt, Opened
  <2> HIDE DEF step
  <2>4. CASE paused(Probes[i], w)
    <3> DEFINE st == [ph.probes[i] EXCEPT !.last_satisfied = now]
    <3>1. IsSt(st) /\ st.last_satisfied = now
      BY <2>3
    <3>2. step(i) = [st |-> st, reports |-> FALSE]
      BY <2>1, <2>4, Zenon
    <3> HIDE DEF st
    <3>3. step(i).st = st /\ step(i).reports = FALSE
      BY <3>2
    <3> QED
      BY <3>1, <3>3, Zenon
  <2>5. CASE ~ paused(Probes[i], w)
    <3> DEFINE t == IF v[i] = "Satisfied" THEN now ELSE Opened(i)
               st == [ph.probes[i] EXCEPT !.last_satisfied = t]
               late == v[i] \in {"Pending", "Violated"} /\ now - Opened(i) > Probes[i].window
    <3>1. /\ step(i).st = [ph.probes[i] EXCEPT !.last_satisfied = t]
          /\ step(i).reports => now - Opened(i) > Probes[i].window
      <4>1. step(i) = JudgeEventually(Probes[i], ph.probes[i], v[i])
        BY <2>1, <2>5, Zenon
      <4>2. step(i) = [st |-> st, reports |-> late]
        BY <4>1, Zenon DEF JudgeEventually, Opened
      <4>3. step(i).st = st /\ step(i).reports = late
        <5> HIDE DEF st, late
        <5> QED
          BY <4>2
      <4> QED
        BY <4>3, Zenon
    <3>2. t \in Nat /\ t \in {now, Opened(i)}
      BY <2>3
    <3>3. ~ w /\ armed(Probes[i])
      BY <2>5 DEF paused
    <3> HIDE DEF t
    <3> QED
      BY <2>3, <3>1, <3>2, <3>3, Zenon
  <2> QED
    BY <2>4, <2>5, Zenon
<1> HIDE DEF step, some, errs, breaks
<1>9. errs \cup breaks = {} => \A i \in DOMAIN Probes : i <= last
  BY <1>3, <1>5
<1> HIDE DEF last, aborted, rest
<1>10. /\ e.reported \subseteq DOMAIN Probes
       /\ \A i \in Windows : i \in e.reported => step(i).reports
  BY <1>1, <1>6, Zenon
<1>11. e.flow = "Continue" => /\ DOMAIN e.probes = DOMAIN Probes
                              /\ \A i \in Windows : e.probes[i] = step(i).st
  <2> SUFFICES ASSUME e.flow = "Continue"
               PROVE  /\ DOMAIN e.probes = DOMAIN Probes
                      /\ \A i \in Windows : e.probes[i] = step(i).st
    OBVIOUS
  <2>1. e = rest /\ \A i \in DOMAIN Probes : i <= last
    BY <1>1, <1>6, <1>7, <1>9, Zenon
  <2> QED
    BY <1>3, <1>6, <2>1, Zenon
<1> QED
  BY <1>8, <1>10, <1>11, Zenon DEF TickClocks

-----------------------------------------------------------------------------
(* The watch after one sample.                                             *)
LEMMA ObservedType ==
    ASSUME StallTypes, NEW answered \in BOOLEAN
    PROVE  observe(watch, sample, answered) \in
               [baseline : Nat \cup {None}, seen : Nat, holding : BOOLEAN]
<1> DEFINE base     == IF watch.baseline = None /\ sample.read THEN sample.restarts ELSE watch.baseline
           restarts == IF sample.read THEN Max({0, sample.restarts - base}) ELSE 0
           held     == watch.holding \/ restarts > watch.seen \/ (sample.read /\ ~ sample.ready)
<1>1. /\ watch.baseline \in Nat \cup {None} /\ watch.seen \in Nat /\ watch.holding \in BOOLEAN
      /\ sample.restarts \in Nat /\ sample.read \in BOOLEAN /\ sample.ready \in BOOLEAN
  BY DEF StallTypes, WatchType, SampleType
<1>2. base \in Nat \cup {None} /\ base \in Int
  BY <1>1 DEF None
<1>3. restarts \in Nat
  <2>1. sample.restarts - base \in Int
    BY <1>1, <1>2
  <2> HIDE DEF base
  <2> QED
    BY <2>1, MaxTwo
<1>4. Max({watch.seen, restarts}) \in Nat
  <2> HIDE DEF restarts
  <2> QED
    BY <1>1, <1>3, MaxTwo
<1>5. observe(watch, sample, answered) =
        [baseline |-> base, seen |-> Max({watch.seen, restarts}),
         holding |-> held /\ ~(~(sample.read /\ ~ sample.ready) /\ answered)]
  BY DEF observe
<1> HIDE DEF base, restarts, held
<1> QED
  BY <1>2, <1>4, <1>5

LEMMA Observed ==
    ASSUME StallTypes, Counted, sample.read,
           watch.baseline # None => watch.baseline <= sample.restarts,
           NEW answered \in BOOLEAN, NEW w, w = observe(watch, sample, answered)
    PROVE  /\ w.baseline = IF watch.baseline = None THEN sample.restarts ELSE watch.baseline
           /\ w.baseline # None
           /\ w.seen = IF watch.seen >= sample.restarts - w.baseline
                       THEN watch.seen ELSE sample.restarts - w.baseline
           /\ w.holding <=> /\ \/ watch.holding
                               \/ sample.restarts - w.baseline > watch.seen
                               \/ sample.comp = "down"
                            /\ sample.comp = "down" \/ ~ answered
<1> DEFINE base     == IF watch.baseline = None /\ sample.read THEN sample.restarts ELSE watch.baseline
           restarts == IF sample.read THEN Max({0, sample.restarts - base}) ELSE 0
           held     == watch.holding \/ restarts > watch.seen \/ (sample.read /\ ~ sample.ready)
<1>1. /\ watch.baseline \in Nat \cup {None} /\ watch.seen \in Nat /\ watch.holding \in BOOLEAN
      /\ sample.restarts \in Nat
      /\ sample.ready <=> sample.comp # "down"
  BY DEF StallTypes, WatchType, SampleType
<1>2. base \in Nat /\ base <= sample.restarts /\ base # None
      /\ base = IF watch.baseline = None THEN sample.restarts ELSE watch.baseline
  BY <1>1 DEF None
<1>3. restarts = sample.restarts - base /\ restarts \in Nat
  <2>1. sample.restarts - base \in Nat
    BY <1>1, <1>2
  <2>2. Max({0, sample.restarts - base}) = sample.restarts - base
    <3> HIDE DEF base
    <3> QED
      BY <2>1, MaxTwo
  <2> QED
    BY <2>1, <2>2
<1>4. Max({watch.seen, restarts}) = IF watch.seen >= restarts THEN watch.seen ELSE restarts
  <2> HIDE DEF restarts
  <2> QED
    BY <1>1, <1>3, MaxTwo
<1>5. w = [baseline |-> base, seen |-> Max({watch.seen, restarts}),
           holding |-> held /\ ~(~(sample.read /\ ~ sample.ready) /\ answered)]
  BY DEF observe
<1>6. held <=> watch.holding \/ restarts > watch.seen \/ sample.comp = "down"
  BY <1>1
<1>7. /\ w.baseline = base /\ w.seen = Max({watch.seen, restarts})
      /\ w.holding <=> held /\ (sample.comp = "down" \/ ~ answered)
  <2> HIDE DEF base, restarts, held
  <2>1. /\ w.baseline = base /\ w.seen = Max({watch.seen, restarts})
        /\ w.holding = (held /\ ~(~(sample.read /\ ~ sample.ready) /\ answered))
    BY <1>5
  <2> QED
    BY <1>1, <2>1, Zenon
<1> HIDE DEF base, restarts, held
<1> QED
  BY <1>2, <1>3, <1>4, <1>6, <1>7, Zenon

-----------------------------------------------------------------------------
(* The component's own moves: it is not killed by them, and it warms up    *)
(* only after one more restart.                                            *)
Onward ==
    /\ WorldType'
    /\ world'.restarts >= world.restarts
    /\ world'.comp = "killed" => world.comp = "killed"
    /\ world'.comp = "warming" => \/ world'.restarts > world.restarts
                                  \/ world.comp = "warming"

LEMMA OnwardStill ==
    ASSUME StallInv, UNCHANGED world
    PROVE  Onward
<1>1. WorldType /\ world.restarts \in Nat
  BY DEF StallInv, StallTypes, WorldType
<1> QED
  BY <1>1 DEF Onward, WorldType

LEMMA TypesStay ==
    ASSUME StallTypes, UNCHANGED <<now, world, watch, sample, lastOut, blind>>
    PROVE  StallTypes'
  BY DEF StallTypes, WorldType, WatchType, SampleType, ClockType

(* A step that leaves the windows, the watch and the sample alone.         *)
LEMMA StallStays ==
    ASSUME Inv, StallInv, Onward,
           UNCHANGED <<profile, now, phase, ph, watch, sample, blind, lastOut, fired>>,
           pc' = pc \/ (pc' # "judge" /\ (Live' => Live))
    PROVE  StallInv'
<1>1. Probes' = Probes /\ Windows' = Windows /\ Phase' = Phase
  BY DEF Probes, Phase, Windows, OfClass
<1>2. StallTypes'
  BY DEF StallInv, StallTypes, WatchType, SampleType, ClockType, Onward
<1> SUFFICES ASSUME Live'
             PROVE  ProbesTyped' /\ ReportsStand' /\ (~ blind' => Tracked')
  BY <1>2 DEF StallInv
<1>3. Live
  BY DEF Live
<1>4. ProbesTyped' /\ ReportsStand'
  BY <1>1, <1>3, Zenon DEF StallInv, ProbesTyped, ReportsStand, Stalled, IsSt
<1>5. ASSUME ~ blind'
      PROVE  Tracked'
  <2>1. Tracked
    BY <1>3, <1>5, Zenon DEF StallInv
  <2>2. /\ world.restarts \in Nat /\ world'.restarts \in Nat /\ sample.restarts \in Nat
        /\ watch.baseline \in Nat \cup {None} /\ watch.seen \in Nat
    BY DEF StallInv, StallTypes, WorldType, WatchType, SampleType, Onward
  <2>3. Clocked' /\ (Unopened => Unopened')
    BY <1>1, <2>1, Zenon DEF Tracked, Clocked, Unopened
  <2>4. Counted'
    BY <2>1, <2>2 DEF Tracked, Counted, Onward
  <2>5. Noticed(world.comp, world.restarts) => Noticed(world.comp, world.restarts)'
    BY <2>1, <2>2 DEF Tracked, Counted, Noticed, Onward
  <2>6. Noticed(sample.comp, sample.restarts) => Noticed(sample.comp, sample.restarts)'
    BY DEF Noticed
  <2>7. pc' = "judge" => /\ sample'.read /\ sample'.restarts <= world'.restarts
                         /\ watch'.baseline # None => watch'.baseline <= sample'.restarts
    BY <2>1, <2>2 DEF Tracked, Onward
  <2> QED
    BY <1>1, <2>1, <2>3, <2>4, <2>5, <2>6, <2>7, Zenon DEF Tracked
<1> QED
  BY <1>4, <1>5

(* A phase that ends leaves nothing to say of its windows.                 *)
LEMMA StallEnds ==
    ASSUME StallTypes', ~ Live'
    PROVE  StallInv'
  BY DEF StallInv

LEMMA FreshSt == fresh.last_satisfied = None /\ IsSt(fresh)
<1>1. /\ fresh = [fired_height |-> fresh.fired_height, next_due |-> fresh.next_due,
                  violation_streak |-> fresh.violation_streak,
                  last_satisfied |-> fresh.last_satisfied,
                  ever_satisfied |-> fresh.ever_satisfied]
      /\ fresh.last_satisfied = None
  BY DEF fresh
<1> QED
  BY <1>1 DEF IsSt

LEMMA StallEnters ==
    ASSUME Inv, StallInv, NEW n \in 1 .. Len(profile.phases), EnterPhase(n),
           UNCHANGED <<profile, now, world, sample, fired>>
    PROVE  StallInv'
<1>1. /\ phase' = n /\ pc' = "build" /\ ph' = NewPhase(n) /\ blind' = FALSE /\ lastOut' = None
      /\ watch' = [baseline |-> None, seen |-> 0, holding |-> FALSE]
  BY DEF EnterPhase
<1>2. StallTypes'
  <2>1. WorldType' /\ SampleType'
    BY DEF StallInv, StallTypes, WorldType, SampleType
  <2>2. WatchType'
    BY <1>1 DEF WatchType
  <2>3. ClockType'
    BY <1>1 DEF StallInv, StallTypes, ClockType, None
  <2> QED
    BY <1>1, <2>1, <2>2, <2>3, Zenon DEF StallTypes
<1>3. ph'.reported = {} /\ ph'.probes = [i \in 1 .. Len(profile.throughout) + Len(profile.phases[n].probes) |-> fresh]
  BY <1>1 DEF NewPhase
<1>4. DOMAIN Probes' = 1 .. Len(profile.throughout) + Len(profile.phases[n].probes)
  <2>1. /\ profile.throughout \in Seq(Range(profile.throughout))
        /\ profile.phases[n].probes \in Seq(Range(profile.phases[n].probes))
    BY Registered DEF Inv, ResultsInv
  <2>2. Probes' = profile.throughout \o profile.phases[n].probes
    BY <1>1 DEF Probes, Phase
  <2> QED
    BY <2>1, <2>2
<1>5. fresh.last_satisfied = None /\ IsSt(fresh)
  BY FreshSt
<1>6. \A i \in Windows' : ph'.probes[i] = fresh
  BY <1>3, <1>4 DEF Windows, OfClass
<1>7. \A i \in Windows' : IsSt(ph'.probes[i])
  BY <1>5, <1>6, Zenon
<1>8. ProbesTyped' /\ ReportsStand'
  BY <1>3, <1>4, <1>7, Zenon DEF ProbesTyped, ReportsStand, IsSt
<1>9. Unopened' /\ Clocked'
  BY <1>5, <1>6 DEF Unopened, Clocked
<1>10. Counted'
  BY <1>1 DEF Counted
<1>11. Tracked'
  BY <1>1, <1>9, <1>10, Zenon DEF Tracked
<1> QED
  BY <1>2, <1>8, <1>11, Zenon DEF StallInv

LEMMA StallInit == Init => StallInv
<1> SUFFICES ASSUME Init
             PROVE  StallInv
  OBVIOUS
<1>1. /\ profile \in Profiles /\ pc = "preflight_faults" /\ phase = 1 /\ ph = NewPhase(1) /\ now = 0
      /\ watch = [baseline |-> None, seen |-> 0, holding |-> FALSE]
      /\ world = [comp |-> "serving", restarts |-> 0, published |-> {}, task |-> "idle"]
      /\ sample = NoSample /\ lastOut = None /\ blind = FALSE
  BY DEF Init
<1>2. StallTypes
  <2>1. WorldType
    BY <1>1 DEF WorldType
  <2>2. SampleType
    BY <1>1 DEF SampleType, NoSample
  <2>3. WatchType
    BY <1>1 DEF WatchType
  <2>4. ClockType
    BY <1>1 DEF ClockType, None
  <2> QED
    BY <1>1, <2>1, <2>2, <2>3, <2>4, Zenon DEF StallTypes
<1>3. ph.reported = {} /\ ph.probes = [i \in 1 .. Len(profile.throughout) + Len(profile.phases[1].probes) |-> fresh]
  BY <1>1, Zenon DEF NewPhase
<1>4. DOMAIN Probes = 1 .. Len(profile.throughout) + Len(profile.phases[1].probes)
  <2>1. /\ profile.throughout \in Seq(Range(profile.throughout))
        /\ profile.phases[1].probes \in Seq(Range(profile.phases[1].probes))
    BY <1>1, Registered
  <2> QED
    BY <1>1, <2>1 DEF Probes, Phase
<1>5. fresh.last_satisfied = None /\ IsSt(fresh)
  BY FreshSt
<1>6. \A i \in Windows : ph.probes[i] = fresh
  BY <1>3, <1>4, Zenon DEF Windows, OfClass
<1>7. ProbesTyped /\ ReportsStand
  BY <1>3, <1>4, <1>5, <1>6, Zenon DEF ProbesTyped, ReportsStand
<1>8. Unopened /\ Clocked
  BY <1>5, <1>6 DEF Unopened, Clocked
<1>9. Counted
  BY <1>1 DEF Counted
<1>10. Tracked
  BY <1>1, <1>8, <1>9, Zenon DEF Tracked
<1> QED
  BY <1>2, <1>7, <1>10, Zenon DEF StallInv

(* Time passes, but not under a tick.                                      *)
LEMMA StallElapse ==
    ASSUME Inv, StallInv, Elapse
    PROVE  StallInv'
<1>1. /\ pc # "judge" /\ pc' = pc /\ now' = now + 1
      /\ UNCHANGED <<profile, phase, ph, world, watch, sample, blind, lastOut, fired>>
  BY DEF Elapse, EngineUnchanged, InPhase
<1>2. Probes' = Probes /\ Windows' = Windows /\ Phase' = Phase
  BY <1>1 DEF Probes, Phase, Windows, OfClass
<1>3. StallTypes'
  <2>1. WorldType' /\ WatchType' /\ SampleType'
    BY <1>1 DEF StallInv, StallTypes, WorldType, WatchType, SampleType
  <2>2. ClockType'
    BY <1>1 DEF StallInv, StallTypes, ClockType, None
  <2> QED
    BY <1>1, <2>1, <2>2, Zenon DEF StallInv, StallTypes
<1> SUFFICES ASSUME Live'
             PROVE  ProbesTyped' /\ ReportsStand' /\ (~ blind' => Tracked')
  BY <1>3 DEF StallInv
<1>4. Live
  BY <1>1, Zenon DEF Live
<1>5. ProbesTyped'
  BY <1>1, <1>2, <1>4, Zenon DEF StallInv, ProbesTyped, IsSt
<1>6. ReportsStand'
  <2> SUFFICES ASSUME NEW i \in ph.reported, i \in Windows
               PROVE  i \in DOMAIN Probes /\ Stalled(i)'
    BY <1>1, <1>2, <1>4, Zenon DEF ReportsStand, StallInv
  <2>1. i \in DOMAIN Probes /\ Stalled(i)
    BY <1>4 DEF StallInv, ReportsStand
  <2>2. Probes[i].window \in Nat
    BY <2>1, Listed DEF Inv
  <2>3. now \in Nat /\ lastOut \in Nat \cup {None}
    BY DEF StallInv, StallTypes, ClockType
  <2>4. now - lastOut > Probes[i].window => now' - lastOut' > Probes'[i].window
    BY <1>1, <1>2, <2>2, <2>3 DEF None
  <2>5. \/ blind' \/ lastOut' = None \/ now' - lastOut' > Probes'[i].window
    BY <1>1, <2>1, <2>4, Zenon DEF Stalled
  <2>6. Probes'[i].after = "" \/ Probes'[i].after \in fired'
    BY <1>1, <1>2, <2>1, Zenon DEF Stalled
  <2> QED
    BY <2>1, <2>5, <2>6, Zenon DEF Stalled
<1>7. ASSUME ~ blind'
      PROVE  Tracked'
  <2>1. Tracked
    BY <1>1, <1>4, <1>7, Zenon DEF StallInv
  <2> QED
    BY <1>1, <1>2, <2>1, Zenon DEF Tracked, Clocked, Counted, Noticed, Unopened
<1> QED
  BY <1>5, <1>6, <1>7, Zenon

LEMMA StallMoves ==
    ASSUME Inv, StallInv, ComponentMoves \/ Publish \/ SubjectMoves \/ TipMoves \/ RequestStop
    PROVE  StallInv'
<1>1. /\ UNCHANGED <<profile, now, phase, ph, watch, sample, blind, lastOut, fired>>
      /\ pc' = pc
  BY DEF ComponentMoves, Publish, SubjectMoves, TipMoves, RequestStop, EngineUnchanged, InPhase
<1>2. WorldType /\ world.restarts \in Nat
  BY DEF StallInv, StallTypes, WorldType
<1>3. CASE ComponentMoves
  <2>1. \/ \E c \in {"crashed", "down", "serving"} : world' = [world EXCEPT !.comp = c]
        \/ world' = [world EXCEPT !.comp = "warming", !.restarts = @ + 1]
    BY <1>3 DEF ComponentMoves
  <2>2. Onward
    <3>1. ASSUME NEW c \in {"crashed", "down", "serving"}, world' = [world EXCEPT !.comp = c]
          PROVE  Onward
      <4>1. world'.comp = c /\ world'.restarts = world.restarts /\ WorldType'
        BY <1>2, <3>1 DEF WorldType
      <4> QED
        BY <1>2, <4>1 DEF Onward
    <3>2. CASE world' = [world EXCEPT !.comp = "warming", !.restarts = @ + 1]
      <4> DEFINE x == [world EXCEPT !.comp = "warming"]
                 n == world.restarts + 1
      <4>1. /\ x.comp = "warming" /\ n \in Nat
            /\ x \in [comp : {"serving", "crashed", "killed", "down", "warming"}, restarts : Nat,
                      published : {x.published}, task : {x.task}]
        BY <1>2 DEF WorldType
      <4>2. world' = [x EXCEPT !.restarts = n]
        BY <3>2
      <4> HIDE DEF x, n
      <4>3. world'.comp = "warming" /\ world'.restarts = n /\ WorldType'
        BY <4>1, <4>2 DEF WorldType
      <4>4. n > world.restarts
        BY <1>2 DEF n
      <4> QED
        BY <1>2, <4>1, <4>3, <4>4 DEF Onward
    <3> QED
      BY <2>1, <3>1, <3>2, Zenon
  <2> QED
    BY <1>1, <2>2, StallStays, Zenon
<1>4. CASE Publish \/ SubjectMoves \/ TipMoves
  <2>1. \/ \E f : world' = [world EXCEPT !.published = @ \cup {f}]
        \/ \E t : world' = [world EXCEPT !.task = t]
    BY <1>4 DEF Publish, SubjectMoves, TipMoves
  <2>2. Onward
    BY <1>2, <2>1 DEF WorldType, Onward
  <2> QED
    BY <1>1, <2>2, StallStays
<1>5. CASE RequestStop
  <2>1. Onward
    BY <1>5, OnwardStill DEF RequestStop
  <2> QED
    BY <1>1, <2>1, StallStays
<1> QED
  BY <1>3, <1>4, <1>5, Zenon

(* Before the first tick, and a cancel at one.                             *)
LEMMA StallEarly ==
    ASSUME Inv, StallInv,
           \/ BuildCut \/ BuildAndLaunch \/ await_ready \/ ReadyCancelled \/ check_required_work
           \/ TickCancelled
    PROVE  StallInv'
<1>1. /\ UNCHANGED <<profile, now, phase, ph, watch, sample, blind, lastOut, fired>>
      /\ pc \in {"build", "gate", "gatewait", "work", "workwait", "wait"}
      /\ pc' # "judge"
      /\ UNCHANGED world \/ world' = [world EXCEPT !.task = "running"]
  <2>1. CASE BuildCut \/ BuildAndLaunch
    BY <2>1, Zenon DEF BuildCut, BuildAndLaunch, launch, InPhase, Over
  <2>2. CASE await_ready
    BY <2>2, Zenon DEF await_ready, InPhase, Over
  <2>3. CASE ReadyCancelled \/ check_required_work
    BY <2>3, Zenon DEF ReadyCancelled, check_required_work, InPhase, Over
  <2>4. CASE TickCancelled
    BY <2>4 DEF TickCancelled, InPhase, Over, Cut
  <2> QED
    BY <2>1, <2>2, <2>3, <2>4, Zenon
<1>2. Onward
  <2>1. WorldType /\ world.restarts \in Nat
    BY DEF StallInv, StallTypes, WorldType
  <2> QED
    BY <1>1, <2>1, OnwardStill DEF WorldType, Onward
<1> QED
  BY <1>1, <1>2, StallStays, Zenon DEF Live

LEMMA StallCompletes ==
    ASSUME Inv, StallInv, NEW error, NEW p, Complete(error, p),
           UNCHANGED <<profile, now, world, sample, fired>>
    PROVE  StallInv'
<1>1. \/ phase < Len(profile.phases) /\ EnterPhase(phase + 1)
      \/ pc' = "done" /\ UNCHANGED <<watch, lastOut, blind>>
  BY Zenon DEF Complete, Over, InPhase
<1>2. CASE phase < Len(profile.phases) /\ EnterPhase(phase + 1)
  <2>1. phase + 1 \in 1 .. Len(profile.phases)
    BY <1>2, Registered DEF Inv, ResultsInv
  <2> QED
    BY <1>2, <2>1, StallEnters
<1>3. CASE pc' = "done" /\ UNCHANGED <<watch, lastOut, blind>>
  BY <1>3, TypesStay, StallEnds, Zenon DEF StallInv, Live
<1> QED
  BY <1>1, <1>2, <1>3

(* The finish line and what follows it.                                    *)
LEMMA StallFinish ==
    ASSUME Inv, StallInv, preflight_faults \/ Completion \/ eval_at_completion \/ RetryCancelled
    PROVE  StallInv'
<1>1. UNCHANGED <<profile, now, world, sample, fired>>
  BY Zenon DEF preflight_faults, Completion, eval_at_completion, RetryCancelled
<1>2. \/ EnterPhase(1)
      \/ pc' \in {"done", "post", "retry"} /\ UNCHANGED <<watch, lastOut, blind>>
      \/ pc = "complete" /\ pc' = "wait" /\ UNCHANGED InPhase
      \/ \E error, p : Complete(error, p)
  <2>1. CASE preflight_faults
    BY <2>1 DEF preflight_faults, InPhase
  <2>2. CASE Completion
    BY <2>2, Zenon DEF Completion, InPhase
  <2>3. CASE eval_at_completion
    BY <2>3, Zenon DEF eval_at_completion, InPhase
  <2>4. CASE RetryCancelled
    BY <2>4 DEF RetryCancelled
  <2> QED
    BY <2>1, <2>2, <2>3, <2>4, Zenon
<1>3. CASE EnterPhase(1)
  <2>1. 1 \in 1 .. Len(profile.phases)
    BY Registered DEF Inv, ResultsInv
  <2> QED
    BY <1>1, <1>3, <2>1, StallEnters
<1>4. CASE pc' \in {"done", "post", "retry"} /\ UNCHANGED <<watch, lastOut, blind>>
  BY <1>1, <1>4, TypesStay, StallEnds, Zenon DEF StallInv, Live
<1>5. CASE pc = "complete" /\ pc' = "wait" /\ UNCHANGED InPhase
  BY <1>1, <1>5, OnwardStill, StallStays, Zenon DEF InPhase, Live
<1>6. CASE \E error, p : Complete(error, p)
  BY <1>1, <1>6, StallCompletes, Zenon
<1> QED
  BY <1>2, <1>3, <1>4, <1>5, <1>6, Zenon

(* A tick begins: its kills land under a raised hold, and the sample shows *)
(* the component they left.                                                *)
LEMMA StallTick ==
    ASSUME Inv, StallInv, Tick
    PROVE  StallInv'
<1>1. /\ pc = "wait" /\ UNCHANGED <<profile, phase, now, lastOut>>
      /\ \/ pc' = "done" /\ UNCHANGED <<world, watch, sample, blind>>
         \/ /\ apply_faults /\ sample_watched /\ pc' = "judge"
            /\ ph' \in {ph, settle_rows(ph)}
  BY Zenon DEF Tick, Cut, Over
<1>2. CASE pc' = "done" /\ UNCHANGED <<world, watch, sample, blind>>
  BY <1>1, <1>2, TypesStay, StallEnds DEF StallInv, Live
<1>3. CASE /\ apply_faults /\ sample_watched /\ pc' = "judge"
           /\ ph' \in {ph, settle_rows(ph)}
  <2> DEFINE hit == take_due # {}
             hold == watch.holding \/ hit
  <2>1. /\ WorldType /\ WatchType /\ blind \in BOOLEAN /\ ClockType
        /\ ProbesTyped /\ ReportsStand /\ (~ blind => Tracked)
    BY <1>1 DEF StallInv, StallTypes, Live
  <2>2. /\ WorldType' /\ world'.restarts = world.restarts /\ world.restarts \in Nat
        /\ world'.comp = IF hit THEN "killed" ELSE world.comp
    <3>1. world' = IF hit THEN [world EXCEPT !.comp = "killed"] ELSE world
      BY <1>3 DEF apply_faults
    <3> HIDE DEF hit
    <3> QED
      BY <2>1, <3>1 DEF WorldType
  <2>3. /\ WatchType' /\ watch'.baseline = watch.baseline /\ watch'.seen = watch.seen
        /\ watch'.holding = hold
    <3>1. watch' = [watch EXCEPT !.holding = hold] /\ hold \in BOOLEAN
      BY <1>3, Zenon DEF apply_faults
    <3> HIDE DEF hold
    <3> QED
      BY <2>1, <3>1, Zenon DEF WatchType
  <2>4. /\ SampleType' /\ blind' \in BOOLEAN /\ (~ blind' => sample'.read /\ ~ blind)
        /\ sample'.read => sample'.restarts = world'.restarts /\ sample'.comp = world'.comp
    <3> DEFINE seen == [read |-> TRUE, restarts |-> world'.restarts,
                        ready |-> world'.comp # "down", comp |-> world'.comp]
    <3>1. sample' \in {NoSample, seen} /\ blind' = (blind \/ ~ sample'.read)
      BY <1>3 DEF sample_watched
    <3>2. world'.restarts \in Nat /\ world'.comp \in {"serving", "crashed", "killed", "down", "warming"}
      BY <2>2 DEF WorldType
    <3>3. CASE sample' = NoSample
      <4>1. /\ sample'.read = FALSE /\ sample'.comp = "serving" /\ sample'.ready = TRUE
            /\ SampleType'
        BY <3>3 DEF NoSample, SampleType
      <4> QED
        BY <3>1, <4>1, Zenon
    <3>4. CASE sample' = seen
      <4>1. /\ sample'.read = TRUE /\ sample'.restarts = world'.restarts /\ sample'.comp = world'.comp
            /\ SampleType'
        BY <3>2, <3>4, Zenon DEF SampleType
      <4>2. blind' = blind
        BY <2>1, <3>1, <4>1, Zenon
      <4> QED
        BY <2>1, <4>1, <4>2
    <3> QED
      BY <3>1, <3>3, <3>4, Zenon
  <2>5. StallTypes'
    BY <1>1, <2>1, <2>2, <2>3, <2>4 DEF StallTypes, ClockType
  <2>6. ph'.probes = ph.probes /\ ph'.reported = ph.reported
    <3>1. IsPh(ph)
      BY <1>1 DEF Inv, OpenInv
    <3> QED
      BY <1>3, <3>1, Zenon DEF IsPh, settle_rows
  <2>7. Probes' = Probes /\ Windows' = Windows /\ Phase' = Phase
    BY <1>1 DEF Probes, Phase, Windows, OfClass
  <2>8. fired \subseteq fired'
    BY <1>3 DEF apply_faults
  <2>9. ProbesTyped'
    BY <2>1, <2>6, <2>7, Zenon DEF ProbesTyped, IsSt
  <2>10. ReportsStand'
    <3>1. \A i : Stalled(i) => Stalled(i)'
      BY <1>1, <2>4, <2>7, <2>8, Zenon DEF Stalled
    <3> QED
      BY <2>1, <2>6, <2>7, <3>1, Zenon DEF ReportsStand
  <2>11. ASSUME ~ blind'
         PROVE  Tracked'
    <3>1. Tracked /\ sample'.read
      BY <2>1, <2>4, <2>11, Zenon
    <3>2. Clocked' /\ (Unopened => Unopened')
      BY <1>1, <2>6, <2>7, <3>1, Zenon DEF Tracked, Clocked, Unopened
    <3>3. Counted'
      BY <2>2, <2>3, <3>1, Zenon DEF Tracked, Counted
    <3>4. Noticed(world.comp, world.restarts) => Noticed(world.comp, world.restarts)'
      BY <2>2, <2>3, Zenon DEF Noticed
    <3>5. Noticed(world.comp, world.restarts)' => Noticed(sample.comp, sample.restarts)'
      BY <2>4, <3>1 DEF Noticed
    <3>6. /\ sample'.restarts <= world'.restarts
          /\ watch'.baseline # None => watch'.baseline <= sample'.restarts
      BY <2>2, <2>4, <3>1, <3>3 DEF Counted
    <3> QED
      BY <2>7, <3>1, <3>2, <3>3, <3>4, <3>5, <3>6, Zenon DEF Tracked
  <2> QED
    BY <2>5, <2>9, <2>10, <2>11 DEF StallInv
<1> QED
  BY <1>1, <1>2, <1>3, Zenon

(* A tick the subject answered, and one it did not.                        *)
JudgedBy(e, height) ==
    /\ ph' = [ph EXCEPT
                  !.probes = e.probes,
                  !.height = height,
                  !.reported = e.reported,
                  !.violations = @ \cup e.reported,
                  !.fatal = @ \/ e.flow = "FailFast",
                  !.stop_height = IF ph.stop_after = None THEN @ ELSE height + ph.stop_after,
                  !.stop_after = None]
    /\ CASE e.flow = "Continue" -> pc' = "complete" /\ UNCHANGED <<results, outcome, unstopped>>
         [] e.flow = "FailFast" -> Cut("Failed", FALSE, ph')
         [] e.flow = "Abort"    -> Cut("Errored", TRUE, ph')

Unanswered(w) ==
    /\ pc' = "wait"
    /\ ph' = [ph EXCEPT !.reported = {},
                        !.probes = IF w.holding THEN credit_liveness(@) ELSE @]

LEMMA JudgeCases ==
    ASSUME Judge
    PROVE  \E answered \in BOOLEAN :
              /\ answered /\ Phase.own => world.comp = "serving"
              /\ lastOut' = IF InRestart(answered) THEN now ELSE lastOut
              /\ \/ pc' = "done" /\ ph' = [ph EXCEPT !.reported = {}] /\ UNCHANGED watch
                 \/ /\ watch' = observe(watch, sample, answered)
                    /\ \/ ~answered /\ Unanswered(watch')
                       \/ /\ answered
                          /\ \E height, v : JudgedBy(eval_tick(v, height, watch'.holding), height)
<1> DEFINE Failing == failure /\ Cut("Failed", TRUE, ph) /\ ph' = [ph EXCEPT !.reported = {}] /\ UNCHANGED watch
           Missed(w) == /\ pc' = "wait"
                        /\ ph' = [ph EXCEPT !.reported = {},
                                            !.probes = IF w.holding THEN credit_liveness(@) ELSE @]
           Read(w) == \E height \in Phase.heights, v \in Verdicts :
                         JudgedBy(eval_tick(v, height, w.holding), height)
<1>1. PICK answered \in BOOLEAN :
         /\ answered /\ Phase.own => world.comp = "serving"
         /\ lastOut' = IF InRestart(answered) THEN now ELSE lastOut
         /\ \/ Failing
            \/ /\ ~answered /\ watch' = observe(watch, sample, answered)
               /\ Missed(observe(watch, sample, answered))
            \/ /\ answered /\ watch' = observe(watch, sample, answered)
               /\ Read(observe(watch, sample, answered))
  BY ZenonT(120) DEF Judge, JudgedBy
<1>2. Failing => pc' = "done" /\ ph' = [ph EXCEPT !.reported = {}] /\ UNCHANGED watch
  BY Zenon DEF Cut, Over
<1>3. Missed(watch') => Unanswered(watch')
  BY Zenon DEF Unanswered
<1>4. Read(watch') => \E height, v : JudgedBy(eval_tick(v, height, watch'.holding), height)
  BY Zenon
<1> HIDE DEF Failing, Missed, Read
<1> QED
  BY <1>1, <1>2, <1>3, <1>4, Zenon

(* A tick that reads the sample right: inside a restart the windows are    *)
(* credited, or none was opened yet.                                       *)
LEMMA RestartHeld ==
    ASSUME StallTypes, Tracked, pc = "judge", NEW answered \in BOOLEAN, InRestart(answered)
    PROVE  \/ observe(watch, sample, answered).holding
           \/ ~ answered /\ Unopened
<1> DEFINE w == observe(watch, sample, answered)
<1>1. /\ Counted /\ sample.read /\ (watch.baseline # None => watch.baseline <= sample.restarts)
      /\ Phase.own => Unopened \/ Noticed(sample.comp, sample.restarts)
  BY DEF Tracked
<1>2. /\ w.baseline = IF watch.baseline = None THEN sample.restarts ELSE watch.baseline
      /\ w.holding <=> /\ \/ watch.holding
                          \/ sample.restarts - w.baseline > watch.seen
                          \/ sample.comp = "down"
                       /\ sample.comp = "down" \/ ~ answered
  BY <1>1, Observed
<1> HIDE DEF w
<1>3. CASE sample.comp = "down"
  BY <1>2, <1>3 DEF w
<1>4. CASE sample.comp \in {"killed", "warming"} /\ ~answered /\ Phase.own
  <2>1. Noticed(sample.comp, sample.restarts) => w.holding
    BY <1>2, <1>4 DEF Noticed
  <2> QED
    BY <1>1, <1>4, <2>1 DEF w
<1> QED
  BY <1>3, <1>4 DEF InRestart

(* The watch goes on counting what happened, and lets go only of a         *)
(* component that answers.                                                 *)
LEMMA WatchKept ==
    ASSUME StallTypes, Tracked, pc = "judge", NEW answered \in BOOLEAN,
           answered /\ Phase.own => world.comp = "serving",
           watch' = observe(watch, sample, answered), UNCHANGED <<world, phase, profile>>
    PROVE  /\ Counted'
           /\ Phase.own /\ Noticed(world.comp, world.restarts) => Noticed(world.comp, world.restarts)'
           /\ Phase.own /\ (answered \/ watch'.holding) => Noticed(world.comp, world.restarts)'
<1>1. /\ Counted /\ sample.read /\ (watch.baseline # None => watch.baseline <= sample.restarts)
      /\ sample.restarts <= world.restarts
  BY DEF Tracked
<1>2. /\ watch'.baseline = IF watch.baseline = None THEN sample.restarts ELSE watch.baseline
      /\ watch'.baseline # None
      /\ watch'.seen = IF watch.seen >= sample.restarts - watch'.baseline
                       THEN watch.seen ELSE sample.restarts - watch'.baseline
      /\ watch'.holding <=> /\ \/ watch.holding
                               \/ sample.restarts - watch'.baseline > watch.seen
                               \/ sample.comp = "down"
                            /\ sample.comp = "down" \/ ~ answered
  BY <1>1, Observed
<1>3. /\ world.restarts \in Nat /\ sample.restarts \in Nat
      /\ watch.baseline \in Nat \cup {None} /\ watch.seen \in Nat
  BY DEF StallTypes, WorldType, WatchType, SampleType
<1>4. Counted'
  BY <1>1, <1>2, <1>3 DEF Counted
<1>5. ASSUME Phase.own, Noticed(world.comp, world.restarts)
      PROVE  Noticed(world.comp, world.restarts)'
  <2>1. CASE answered
    BY <1>2, <1>5, <2>1, Zenon DEF Noticed
  <2>2. CASE ~ answered
    <3>1. watch.baseline # None /\ watch'.baseline = watch.baseline
      BY <1>2, <1>5 DEF Noticed
    <3>2. watch.holding => watch'.holding
      BY <1>2, <2>2
    <3>3. ~ watch'.holding => watch'.seen = watch.seen
      BY <1>2, <1>3, <2>2, <3>1
    <3> QED
      BY <1>5, <3>1, <3>2, <3>3 DEF Noticed
  <2> QED
    BY <2>1, <2>2
<1>6. ASSUME Phase.own, answered \/ watch'.holding
      PROVE  Noticed(world.comp, world.restarts)'
  BY <1>2, <1>6 DEF Noticed
<1> QED
  BY <1>4, <1>5, <1>6

(* The types at a judged tick.                                             *)
LEMMA JudgeTypes ==
    ASSUME StallTypes, UNCHANGED <<now, blind, world, sample>>, NEW answered \in BOOLEAN,
           lastOut' \in {now, lastOut},
           UNCHANGED watch \/ watch' = observe(watch, sample, answered)
    PROVE  StallTypes'
<1>1. ClockType'
  BY DEF StallTypes, ClockType
<1>2. WorldType' /\ SampleType' /\ blind' \in BOOLEAN
  BY DEF StallTypes, WorldType, SampleType
<1>3. WatchType'
  BY ObservedType DEF StallTypes, WatchType
<1> QED
  BY <1>1, <1>2, <1>3 DEF StallTypes

(* A tick the subject did not answer.                                      *)
LEMMA StallUnanswered ==
    ASSUME Inv, StallInv, pc = "judge", Unanswered(watch'),
           NEW answered \in BOOLEAN, ~ answered, watch' = observe(watch, sample, answered),
           lastOut' = IF InRestart(answered) THEN now ELSE lastOut,
           UNCHANGED <<phase, profile, now, blind, fired, world, sample>>
    PROVE  StallInv' /\ ReportsStand'
<1>1. /\ StallTypes /\ ClockType /\ ProbesTyped /\ IsPh(ph) /\ (~ blind => Tracked)
  BY DEF StallInv, StallTypes, Live, Inv, OpenInv
<1>2. /\ Probes' = Probes /\ Windows' = Windows /\ Phase' = Phase
      /\ Windows \subseteq DOMAIN Probes
  BY Zenon DEF Probes, Phase, Windows, OfClass
<1>3. StallTypes'
  BY <1>1, JudgeTypes
<1> DEFINE c == IF watch'.holding THEN credit_liveness(ph.probes) ELSE ph.probes
<1>4. pc' = "wait" /\ ph'.reported = {} /\ ph'.probes = c
  <2>1. pc' = "wait" /\ ph' = [ph EXCEPT !.reported = {}, !.probes = c]
    BY DEF Unanswered
  <2> HIDE DEF c
  <2> QED
    BY <1>1, <2>1 DEF IsPh
<1>5. DOMAIN c = DOMAIN Probes
  BY <1>1 DEF credit_liveness, ProbesTyped
<1>6. ASSUME NEW i \in Windows
      PROVE  /\ IsSt(c[i])
             /\ c[i].last_satisfied = IF watch'.holding THEN now ELSE ph.probes[i].last_satisfied
  <2>1. IsSt(ph.probes[i]) /\ i \in DOMAIN ph.probes /\ Probes[i].class = "Eventually"
    BY <1>1, <1>2 DEF ProbesTyped, Windows, OfClass
  <2>2. c[i] = IF watch'.holding THEN [ph.probes[i] EXCEPT !.last_satisfied = now] ELSE ph.probes[i]
    BY <2>1 DEF credit_liveness
  <2>3. now \in Nat
    BY <1>1, Zenon DEF ClockType
  <2> HIDE DEF c
  <2> QED
    BY <2>1, <2>2, <2>3, Zenon DEF IsSt
<1> HIDE DEF c
<1>7. ProbesTyped'
  <2>1. \A i \in Windows' : IsSt(ph'.probes[i])
    BY <1>2, <1>4, <1>6, Zenon
  <2> QED
    BY <1>2, <1>4, <1>5, <2>1, Zenon DEF ProbesTyped, IsSt
<1>8. ReportsStand'
  BY <1>4, Zenon DEF ReportsStand
<1>9. ASSUME ~ blind'
      PROVE  Tracked'
  <2>1. Tracked
    BY <1>1, <1>9, Zenon
  <2>2. Clocked'
    <3> SUFFICES ASSUME NEW i \in Windows
                 PROVE  \/ c[i].last_satisfied = None
                        \/ lastOut' <= c[i].last_satisfied
      BY <1>2, <1>4, Zenon DEF Clocked
    <3>1. /\ now \in Nat /\ lastOut \in Nat \cup {None} /\ lastOut <= now
          /\ lastOut' \in Int /\ lastOut' <= now
      <4>1. lastOut' = now \/ lastOut' = lastOut
        BY Zenon
      <4> QED
        BY <1>1, <4>1 DEF ClockType, None
    <3>2. CASE watch'.holding
      BY <1>6, <3>1, <3>2, Zenon
    <3>3. CASE ~ watch'.holding /\ InRestart(answered)
      <4>1. Unopened
        BY <1>1, <2>1, <3>3, RestartHeld, Zenon
      <4> QED
        BY <1>6, <3>3, <4>1, Zenon DEF Unopened
    <3>4. CASE ~ watch'.holding /\ ~ InRestart(answered)
      BY <1>6, <2>1, <3>4, Zenon DEF Tracked, Clocked
    <3> QED
      BY <3>2, <3>3, <3>4, Zenon
  <2>3. /\ Counted'
        /\ Phase.own /\ Noticed(world.comp, world.restarts) => Noticed(world.comp, world.restarts)'
        /\ Phase.own /\ watch'.holding => Noticed(world.comp, world.restarts)'
    BY <1>1, <2>1, WatchKept, Zenon
  <2>4. ~ watch'.holding /\ Unopened => Unopened'
    BY <1>2, <1>4, <1>6, Zenon DEF Unopened
  <2> QED
    BY <1>2, <1>4, <2>1, <2>2, <2>3, <2>4, Zenon DEF Tracked
<1> QED
  BY <1>3, <1>7, <1>8, <1>9 DEF StallInv

(* A tick the subject answered.                                            *)
LEMMA StallAnswered ==
    ASSUME Inv, StallInv, pc = "judge", NEW height, NEW v, NEW answered \in BOOLEAN, answered,
           JudgedBy(eval_tick(v, height, watch'.holding), height),
           watch' = observe(watch, sample, answered),
           Phase.own => world.comp = "serving",
           lastOut' = IF InRestart(answered) THEN now ELSE lastOut,
           UNCHANGED <<phase, profile, now, blind, fired, world, sample>>
    PROVE  StallInv' /\ ReportsStand'
<1> DEFINE e == eval_tick(v, height, watch'.holding)
<1>1. /\ StallTypes /\ ClockType /\ ProbesTyped /\ IsPh(ph) /\ ResultsInv /\ (~ blind => Tracked)
  BY Zenon DEF StallInv, StallTypes, Live, Inv, OpenInv
<1>2. /\ Probes' = Probes /\ Windows' = Windows /\ Phase' = Phase
      /\ Windows \subseteq DOMAIN Probes
  BY Zenon DEF Probes, Phase, Windows, OfClass
<1>3. StallTypes'
  BY <1>1, JudgeTypes, Zenon
<1>4. watch'.holding \in BOOLEAN /\ now \in Nat /\ lastOut \in Nat \cup {None} /\ lastOut <= now
  BY <1>1, <1>3, Zenon DEF StallTypes, WatchType, ClockType
<1>5. TickClocks(e, watch'.holding)
  BY <1>1, <1>4, Clocks, Zenon
<1>6. e.flow \in {"Continue", "FailFast", "Abort"}
  BY <1>1, Reports, Zenon
<1>7. JudgedBy(e, height)
  OBVIOUS
<1> HIDE DEF e
<1>8. ph'.probes = e.probes /\ ph'.reported = e.reported
  BY <1>1, <1>7, Zenon DEF IsPh, JudgedBy
<1>9. pc' = "done" \/ (pc' = "complete" /\ e.flow = "Continue")
  BY <1>6, <1>7, Zenon DEF JudgedBy, Cut, Over
<1>10. ~ blind /\ InRestart(answered) => watch'.holding
  BY <1>1, RestartHeld, Zenon
<1>11. ReportsStand'
  <2> SUFFICES ASSUME NEW i \in Windows, i \in e.reported
               PROVE  Stalled(i)'
    BY <1>2, <1>5, <1>8, Zenon DEF ReportsStand, TickClocks
  <2>1. ~ watch'.holding /\ armed(Probes[i]) /\ now - Opened(i) > Probes[i].window
    BY <1>5, Zenon DEF TickClocks
  <2>2. Probes[i].window \in Nat
    BY <1>1, Listed
  <2>3. ~ blind => lastOut = None \/ now - lastOut > Probes[i].window
    <3> SUFFICES ASSUME ~ blind
                 PROVE  lastOut = None \/ now - lastOut > Probes[i].window
      BY Zenon
    <3>1. \/ ph.probes[i].last_satisfied = None
          \/ lastOut <= ph.probes[i].last_satisfied
      BY <1>1, Zenon DEF Tracked, Clocked
    <3>2. ph.probes[i].last_satisfied \in Nat \cup {None}
      BY <1>1, Zenon DEF ProbesTyped, IsSt
    <3>3. now - Opened(i) > Probes[i].window
      BY <2>1
    <3>4. CASE ph.probes[i].last_satisfied = None
      <4>1. Opened(i) = now
        BY <3>4, Zenon DEF Opened
      <4>2. ~ (now - now > Probes[i].window)
        BY <1>4, <2>2
      <4> QED
        BY <3>3, <4>1, <4>2, Zenon
    <3>5. CASE ph.probes[i].last_satisfied # None
      <4> DEFINE t == ph.probes[i].last_satisfied
                 d == Probes[i].window
      <4>1. /\ Opened(i) = t /\ t \in Nat /\ d \in Nat
            /\ lastOut <= t /\ lastOut \in Nat \cup {-1} /\ now \in Nat
        BY <1>4, <2>2, <3>1, <3>2, <3>5, Zenon DEF Opened, None
      <4>2. now - t > d
        BY <3>3, <4>1, Zenon
      <4> HIDE DEF t, d
      <4>3. now - lastOut > d
        BY <4>1, <4>2
      <4> QED
        BY <4>3, Zenon DEF d
    <3> QED
      BY <3>4, <3>5
  <2>4. ~ blind => lastOut' = lastOut
    BY <1>10, <2>1, Zenon
  <2>5. blind' \/ lastOut' = None \/ now' - lastOut' > Probes'[i].window
    BY <1>2, <2>3, <2>4, Zenon
  <2>6. Probes'[i].after = "" \/ Probes'[i].after \in fired'
    BY <1>2, <2>1, Zenon DEF armed
  <2> QED
    BY <2>5, <2>6, Zenon DEF Stalled
<1>12. CASE pc' = "done"
  BY <1>3, <1>11, <1>12, StallEnds, Zenon DEF Live
<1>13. CASE pc' = "complete" /\ e.flow = "Continue"
  <2>1. ProbesTyped'
    <3>1. \A i \in Windows' : IsSt(ph'.probes[i])
      BY <1>2, <1>5, <1>8, <1>13, Zenon DEF TickClocks
    <3>2. DOMAIN ph'.probes = DOMAIN Probes'
      BY <1>2, <1>5, <1>8, <1>13 DEF TickClocks
    <3> QED
      BY <3>1, <3>2, Zenon DEF ProbesTyped, IsSt
  <2>2. ASSUME ~ blind'
        PROVE  Tracked'
    <3>1. Tracked
      BY <1>1, <2>2, Zenon
    <3>2. Clocked'
      <4> SUFFICES ASSUME NEW i \in Windows
                   PROVE  lastOut' <= e.probes[i].last_satisfied
        BY <1>2, <1>8, Zenon DEF Clocked
      <4>1. /\ e.probes[i].last_satisfied \in {now, Opened(i)}
            /\ watch'.holding => e.probes[i].last_satisfied = now
        BY <1>5, <1>13, Zenon DEF TickClocks
      <4>2. \/ ph.probes[i].last_satisfied = None
            \/ lastOut <= ph.probes[i].last_satisfied
        BY <3>1 DEF Tracked, Clocked
      <4>3. lastOut <= Opened(i)
        BY <1>4, <4>2, Zenon DEF Opened
      <4>4. CASE InRestart(answered)
        <5>1. watch'.holding
          BY <1>10, <2>2, <4>4, Zenon
        <5>2. lastOut' = now /\ e.probes[i].last_satisfied = now
          BY <4>1, <4>4, <5>1, Zenon
        <5>3. now <= now
          BY <1>4
        <5> QED
          BY <5>2, <5>3, Zenon
      <4>5. CASE ~ InRestart(answered)
        BY <1>4, <4>1, <4>3, <4>5, Zenon
      <4> QED
        BY <4>4, <4>5, Zenon
    <3>3. Counted' /\ (Phase.own => Noticed(world.comp, world.restarts)')
      BY <1>1, <3>1, WatchKept, Zenon
    <3> QED
      BY <1>2, <1>13, <3>2, <3>3, Zenon DEF Tracked
  <2> QED
    BY <1>3, <1>11, <2>1, <2>2, Zenon DEF StallInv
<1> QED
  BY <1>9, <1>12, <1>13, Zenon

LEMMA StallJudge ==
    ASSUME Inv, StallInv, Judge
    PROVE  StallInv' /\ ReportsStand'
<1>1. pc = "judge" /\ UNCHANGED <<phase, profile, now, blind, fired, world, sample>>
  BY Zenon DEF Judge
<1>2. PICK answered \in BOOLEAN :
        /\ answered /\ Phase.own => world.comp = "serving"
        /\ lastOut' = IF InRestart(answered) THEN now ELSE lastOut
        /\ \/ pc' = "done" /\ ph' = [ph EXCEPT !.reported = {}] /\ UNCHANGED watch
           \/ /\ watch' = observe(watch, sample, answered)
              /\ \/ ~answered /\ Unanswered(watch')
                 \/ /\ answered
                    /\ \E height, v : JudgedBy(eval_tick(v, height, watch'.holding), height)
  BY JudgeCases, Zenon
<1>3. CASE pc' = "done" /\ ph' = [ph EXCEPT !.reported = {}] /\ UNCHANGED watch
  <2>1. StallTypes'
    BY <1>1, <1>2, <1>3, JudgeTypes, Zenon DEF StallInv
  <2>2. ph'.reported = {}
    BY <1>1, <1>3, Zenon DEF Inv, OpenInv, IsPh
  <2> QED
    BY <1>3, <2>1, <2>2, StallEnds, Zenon DEF Live, ReportsStand
<1>4. CASE watch' = observe(watch, sample, answered) /\ ~answered /\ Unanswered(watch')
  BY <1>1, <1>2, <1>4, StallUnanswered, Zenon
<1>5. CASE /\ watch' = observe(watch, sample, answered) /\ answered
           /\ \E height, v : JudgedBy(eval_tick(v, height, watch'.holding), height)
  <2>1. PICK height, v : JudgedBy(eval_tick(v, height, watch'.holding), height)
    BY <1>5, Zenon
  <2>2. Phase.own => world.comp = "serving"
    BY <1>2, <1>5
  <2> QED
    BY <1>1, <1>2, <1>5, <2>1, <2>2, StallAnswered, Zenon
<1> QED
  BY <1>2, <1>3, <1>4, <1>5

LEMMA StallStep == Inv /\ StallInv /\ [Next]_vars => StallInv'
<1> SUFFICES ASSUME Inv, StallInv, [Next]_vars
             PROVE  StallInv'
  OBVIOUS
<1>1. CASE EngineStep \/ BuildAndLaunch
  BY <1>1, StallEarly, StallTick, StallJudge, StallFinish, Zenon DEF EngineStep
<1>2. CASE ComponentMoves \/ Publish \/ SubjectMoves \/ TipMoves \/ RequestStop \/ Elapse
  BY <1>2, StallMoves, StallElapse, Zenon
<1>3. CASE UNCHANGED vars
  BY <1>3, OnwardStill, StallStays, Zenon DEF vars
<1> QED
  BY <1>1, <1>2, <1>3 DEF Next

(* Whatever the registration and however a phase inherits a restart from   *)
(* the one before it, a liveness stall is never clocked across a restart   *)
(* the samples showed, nor before the fault that arms its window           *)
(* (RestartWatch.observe, credit_liveness, eval_tick).                     *)
THEOREM StallsAreReal == Spec => StallIsReal
<1>1. ASSUME Inv, StallInv, [Next]_vars, pc = "judge", NEW i \in ph'.reported,
             Probes[i].class = "Eventually"
      PROVE  /\ blind \/ lastOut' = None \/ now - lastOut' > Probes[i].window
             /\ Probes[i].after = "" \/ Probes[i].after \in fired
  <2>1. UNCHANGED <<profile, phase, now, blind, fired>> /\ ReportsStand'
    <3>1. CASE Judge
      BY <1>1, <3>1, StallJudge, Zenon DEF Judge
    <3>2. CASE ~ Judge
      <4>1. UNCHANGED <<profile, phase, now, blind, fired, ph, lastOut>>
        <5>1. CASE EngineStep \/ BuildAndLaunch
          BY <1>1, <3>2, <5>1, Zenon
             DEF EngineStep, preflight_faults, BuildCut, await_ready, ReadyCancelled,
                 check_required_work, TickCancelled, Tick, Completion, eval_at_completion,
                 RetryCancelled, BuildAndLaunch, launch
        <5>2. CASE ComponentMoves \/ Publish \/ SubjectMoves \/ TipMoves \/ RequestStop \/ Elapse
          BY <1>1, <5>2, Zenon DEF ComponentMoves, Publish, SubjectMoves, TipMoves, RequestStop, Elapse,
                            EngineUnchanged, InPhase
        <5>3. CASE UNCHANGED vars
          BY <5>3, Zenon DEF vars
        <5> QED
          BY <1>1, <5>1, <5>2, <5>3, Zenon DEF Next
      <4>2. ReportsStand
        BY <1>1 DEF StallInv, Live
      <4>3. Probes' = Probes /\ Windows' = Windows
        BY <4>1 DEF Probes, Phase, Windows, OfClass
      <4>4. \A j : Stalled(j) => Stalled(j)'
        BY <4>1, <4>3, Zenon DEF Stalled
      <4> QED
        BY <4>1, <4>2, <4>3, <4>4, Zenon DEF ReportsStand
    <3> QED
      BY <3>1, <3>2, Zenon
  <2>2. Probes' = Probes /\ Windows' = Windows
    BY <2>1, Zenon DEF Probes, Phase, Windows, OfClass
  <2>3. Stalled(i)'
    BY <1>1, <2>1, <2>2, Zenon DEF ReportsStand, Windows, OfClass
  <2>4. /\ blind' \/ lastOut' = None \/ now' - lastOut' > Probes'[i].window
        /\ Probes'[i].after = "" \/ Probes'[i].after \in fired'
    BY <2>3, Zenon DEF Stalled
  <2> QED
    BY <2>1, <2>2, <2>4, Zenon
<1>2. Inv /\ StallInv /\ [Next]_vars =>
        [pc = "judge" => \A i \in ph'.reported :
          LET spec == Probes[i] IN
          spec.class = "Eventually" =>
              /\ blind \/ lastOut' = None \/ now - lastOut' > spec.window
              /\ spec.after = "" \/ spec.after \in fired]_vars
  BY <1>1, Zenon
<1> QED
  BY <1>2, InitInv, StepInv, StallInit, StallStep, PTL DEF Spec, StallIsReal

=============================================================================
