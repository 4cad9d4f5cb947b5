------------------------------ MODULE SeedWatch ------------------------------
(***************************************************************************)
(* The two watches that end a seed's unbudgeted waits (materialize/        *)
(* progress.rs and snapshot.rs).  Each is raced against the condition it   *)
(* waits for and returns only to call the wait dead, on silence alone:     *)
(*   - watch_puller follows the log of the Job's pod, through its pods'    *)
(*     placement, image pulls, drops of the stream, and retries;           *)
(*   - snapshot::watch samples the snapshot's status and, on the copying   *)
(*     driver, the size of the file being written.                         *)
(*                                                                         *)
(* Abstractions: time in units, each window being a number of them, and a  *)
(* watch polls once in a unit at least; a pull is Payload chunks, then     *)
(* Files relpaths verified in order, and a retried pod resumes it; no drop *)
(* of the stream outlasts the backfill of a re-attach; the rows on the     *)
(* console have no part.                                                   *)
(***************************************************************************)
EXTENDS Integers

CONSTANTS
    PENDING_TIMEOUT, IMAGE_PULL_GRACE, STALL_WINDOW,   \* pod_status.rs, progress.rs
    METERED_STALL, BLIND_STALL,                        \* snapshot.rs
    PULLER_ATTEMPTS,                                   \* pods of one Job
    Payload, Files,                                    \* the pull's size
    Settings                                           \* the clusters explored

\* ordered: the pods list newest last.  driver: the one that copies, or a copy-on-write one.
\* execs: readings of the meter that may fail.  gets: lists of the pods and reads of the
\* snapshot's status that may.  sibling: an older snapshot lies beside it.
SettingType == [ordered : BOOLEAN, driver : {"hostpath", "cow"}, execs : BOOLEAN,
             gets : BOOLEAN, sibling : BOOLEAN]

ASSUME SeedWatchAssumption ==
    /\ \A w \in {PENDING_TIMEOUT, IMAGE_PULL_GRACE, STALL_WINDOW, METERED_STALL, BLIND_STALL,
                 PULLER_ATTEMPTS, Payload, Files} : w \in Nat \ {0}
    /\ Settings \subseteq SettingType

VARIABLES
    setting,   \* the member of Settings explored
    phase,     \* "pull", "snapshot", then "over"
    verdict,   \* why the watch returned
    polled,    \* a poll of this unit has looked at what it watches
    pod,       \* the Job's newest pod: [n, is, count, verified]
    landed,    \* chunks on the volume when it started
    listed,    \* the pod puller_pod returns
    att,       \* the watch's hold on a pod: [pod, is]
    start,     \* StartWatch: ages, None when unset
    clock,     \* progress::Liveness: [base, transferred, verified, idle]
    quiet,     \* units since the pull last moved forward in sight of the watch
    hid,       \* it has moved out of its sight since
    vsnap,     \* the VolumeSnapshot: [bound, stamp, ready]
    file,      \* newest .snap: [name, bytes]
    seen,      \* snapshot::Liveness: [bound, stamp, snap, idle]
    metered,   \* the meter still reads
    still      \* units since the snapshot last moved

pull == <<pod, landed, listed, att, start, clock, quiet, hid>>
copy == <<vsnap, file, seen, metered, still>>
watch_vars == <<setting, phase, verdict, polled, pull, copy>>

None == 0 - 1
Older(age, window) == IF age = None THEN None ELSE IF age < window THEN age + 1 ELSE age
Expired(age, window) == age # None /\ age = window

NoFile == [name |-> 0, bytes |-> 0]

NoPod == [n |-> 0, is |-> "absent", count |-> 0, verified |-> 0]
NoHold == [pod |-> 0, is |-> "none"]
NoStart == [unscheduled |-> None, pull_error |-> None]
NoClock == [base |-> 0, transferred |-> 0, verified |-> 0, idle |-> None]

WatchInit ==
    /\ setting \in Settings
    /\ phase = "pull" /\ verdict = "none" /\ polled = FALSE
    /\ pod = NoPod /\ landed = 0 /\ listed = 0
    /\ att = NoHold /\ start = NoStart /\ clock = NoClock
    /\ quiet = 0 /\ hid = FALSE
    /\ vsnap = [bound |-> FALSE, stamp |-> 0, ready |-> FALSE]
    /\ file = IF setting.sibling THEN [name |-> 1, bytes |-> 1] ELSE NoFile
    /\ seen = [bound |-> FALSE, stamp |-> 0, snap |-> NoFile, idle |-> 0]
    /\ metered = (setting.driver = "hostpath")
    /\ still = 0

-----------------------------------------------------------------------------
(* The puller's pods *)

Unplaced == {"unscheduled", "creating", "pull_error", "bad_image"}

\* The Job makes its first pod, or the next one after a pod that failed; the list need not
\* put it last.
NewPod ==
    /\ phase = "pull"
    /\ pod.is \in {"absent", "failed"} /\ pod.n < PULLER_ATTEMPTS
    /\ pod' = [n |-> pod.n + 1, is |-> "unscheduled", count |-> 0, verified |-> 0]
    /\ landed' = landed + pod.count
    /\ listed' \in {pod.n + 1} \cup (IF setting.ordered \/ listed = 0 THEN {} ELSE {listed})
    /\ hid' = FALSE
    /\ UNCHANGED <<setting, phase, verdict, polled, att, start, clock, quiet, copy>>

\* The scheduler and the kubelet.
Place ==
    /\ phase = "pull" /\ pod.is \in Unplaced \ {"bad_image"}
    /\ \E s \in {"creating", "pull_error", "bad_image", "running"} :
          /\ s # pod.is
          /\ pod' = [pod EXCEPT !.is = s]
    /\ UNCHANGED <<setting, phase, verdict, polled, landed, listed, att, start, clock, quiet, hid, copy>>

\* The stream the watch holds is the pod's that moves.
Following == att = [pod |-> pod.n, is |-> "following"]

observe_flat(count) ==
    LET absolute == clock.base + count
    IN IF absolute < clock.transferred THEN clock
       ELSE [clock EXCEPT !.transferred = absolute, !.idle = 0]

\* Liveness::observe and observe_verified: clamped, so that only a rise moves the clock.
observe(count) ==
    LET absolute == clock.base + count
    IN IF absolute <= clock.transferred THEN clock
       ELSE [clock EXCEPT !.transferred = absolute, !.idle = 0]
observe_verified(relpath) ==
    IF relpath <= clock.verified THEN clock
    ELSE [clock EXCEPT !.verified = relpath, !.idle = 0]

\* The records of the stream since it was opened, or replayed by a re-attach: the last
\* count, and the last relpath.
read(count, relpath) ==
    LET counted == observe(count)
    IN IF relpath > clock.verified
       THEN [counted EXCEPT !.verified = relpath, !.idle = 0]
       ELSE counted

\* puller_cmd: rclone copies what is missing, then sha256sum -c verifies from the first file.
Moves ==
    /\ phase = "pull" /\ pod.is = "running"
    /\ \/ /\ landed + pod.count < Payload
          /\ pod' = [pod EXCEPT !.count = @ + 1]
          /\ clock' = IF Following THEN observe(pod.count + 1) ELSE clock
       \/ /\ landed + pod.count = Payload /\ pod.verified < Files
          /\ pod' = [pod EXCEPT !.verified = @ + 1]
          /\ clock' = IF Following THEN observe_verified(pod.verified + 1) ELSE clock
    /\ quiet' = IF Following THEN 0 ELSE quiet
    /\ hid' = ~Following
    /\ UNCHANGED <<setting, phase, verdict, polled, landed, listed, att, start, copy>>

\* The pod exits: with the whole tree verified, or dead.  A stream that is open ends.
Exits ==
    /\ phase = "pull" /\ pod.is = "running"
    /\ pod' = [pod EXCEPT !.is = IF pod.verified = Files THEN "succeeded" ELSE "failed"]
    /\ att' = IF Following THEN [att EXCEPT !.is = "ended"] ELSE att
    /\ UNCHANGED <<setting, phase, verdict, polled, landed, listed, start, clock, quiet, hid, copy>>

\* The Job's condition: Complete, or Failed after its last pod.  The other arm of the race.
Settles ==
    /\ phase = "pull"
    /\ \/ pod.is = "succeeded" /\ phase' = "snapshot" /\ UNCHANGED verdict
       \/ /\ pod.is = "failed" /\ pod.n = PULLER_ATTEMPTS
          /\ phase' = "over" /\ verdict' = "settled"
    /\ polled' = FALSE
    /\ pod' = NoPod /\ landed' = 0 /\ listed' = 0
    /\ att' = NoHold /\ start' = NoStart /\ clock' = NoClock
    /\ quiet' = 0 /\ hid' = FALSE
    /\ UNCHANGED <<setting, seen, still, vsnap, file, metered>>

Drops ==
    /\ phase = "pull" /\ att.is = "following"
    /\ att' = [att EXCEPT !.is = "dropped"]
    /\ UNCHANGED <<setting, phase, verdict, polled, pod, landed, listed, start, clock, quiet, hid, copy>>

-----------------------------------------------------------------------------
(* watch_puller *)

Return(v) == phase' = "over" /\ verdict' = v
Stay == UNCHANGED <<phase, verdict>>

\* StartWatch::observe of a pod that no container of ran yet.
StartWatch_observe ==
    LET unscheduled == IF pod.is # "unscheduled" THEN start.unscheduled
                       ELSE IF start.unscheduled = None THEN 0 ELSE start.unscheduled
        failing == pod.is \in {"pull_error", "bad_image"}
        pull_error == IF ~failing THEN None
                      ELSE IF start.pull_error = None THEN 0 ELSE start.pull_error
    IN /\ start' = [unscheduled |-> unscheduled, pull_error |-> pull_error]
       /\ IF pod.is = "unscheduled" /\ Expired(unscheduled, PENDING_TIMEOUT)
          THEN Return("unschedulable")
          ELSE IF failing /\ (pod.is = "bad_image" \/ Expired(pull_error, IMAGE_PULL_GRACE))
               THEN Return("image")
               ELSE Stay

Stall(c) == IF c.verified > 0 \/ c.transferred >= Payload THEN "finalizing" ELSE "no_progress"

next_attempt_unbased(c) == [c EXCEPT !.verified = 0]

\* Fresh pod: its count restarts at zero, its verify at the first relpath.
next_attempt(c) == [c EXCEPT !.base = c.transferred, !.verified = 0]

\* puller_pod's None: outside follow, which needs no list, every list of a unit may fail or
\* come back empty; the loop sleeps, and looks at no pod and at no clock.
Unlisted == setting.gets /\ phase = "pull" /\ att.is # "following"

\* One turn of the loop: the listed pod, the clock from its first sight of a pod that ran,
\* then the stream, opened or re-opened with a backfill of its last records.
watch_puller ==
    /\ phase = "pull" /\ ~polled
    /\ polled' = TRUE
    /\ LET fresh == att.pod \notin {0, listed}
           hold == IF fresh THEN NoHold ELSE att
           carried == IF fresh /\ clock.idle # None THEN next_attempt(clock) ELSE clock
           begun == IF carried.idle = None THEN [carried EXCEPT !.idle = 0] ELSE carried
       IN \/ /\ listed = 0
             /\ Stay /\ UNCHANGED <<att, start, clock, quiet>>
          \/ /\ listed = pod.n /\ pod.n > 0 /\ pod.is \in Unplaced
             /\ StartWatch_observe
             /\ att' = hold /\ clock' = carried /\ UNCHANGED quiet
          \/ /\ listed > 0 /\ ~(listed = pod.n /\ pod.is \in Unplaced)
             /\ UNCHANGED start
             /\ quiet' = IF clock.idle = None THEN 0 ELSE quiet
             /\ IF Expired(begun.idle, STALL_WINDOW)
                THEN Return(Stall(begun)) /\ att' = hold /\ clock' = begun
                ELSE Stay /\ att' = hold /\ clock' = begun
    /\ UNCHANGED <<setting, pod, landed, listed, hid, copy>>

\* follow: the stream opens (an older pod's holds nothing new and ends at once), or fails to.
follow ==
    /\ phase = "pull" /\ polled /\ listed > 0
    /\ ~(listed = pod.n /\ pod.is \in Unplaced)
    /\ att.is \in {"none", "dropped"} /\ att.pod \in {0, listed}
    /\ clock.idle # None
    /\ \/ att' = [pod |-> listed, is |-> "dropped"] /\ att' # att
          /\ UNCHANGED <<clock, quiet, hid>>
       \/ /\ listed = pod.n
          /\ att' = [pod |-> listed, is |-> IF pod.is = "running" THEN "following" ELSE "ended"]
          /\ clock' = read(pod.count, pod.verified)
          /\ quiet' = IF hid THEN 0 ELSE quiet
          /\ hid' = FALSE
       \/ /\ listed # pod.n
          /\ att' = [pod |-> listed, is |-> "ended"]
          /\ UNCHANGED <<clock, quiet, hid>>
    /\ UNCHANGED <<setting, phase, verdict, polled, pod, landed, listed, start, copy>>

-----------------------------------------------------------------------------
(* The snapshot: its controller, its driver, and snapshot::watch *)

\* status gains its content, an error is raised or replaced, the copy is written, the
\* snapshot turns ready.
Copies ==
    /\ phase = "snapshot"
    /\ \/ ~vsnap.bound /\ vsnap' = [vsnap EXCEPT !.bound = TRUE] /\ still' = 0 /\ UNCHANGED file
       \/ vsnap.stamp < 1 /\ vsnap' = [vsnap EXCEPT !.stamp = @ + 1] /\ still' = 0
          /\ UNCHANGED file
       \/ /\ setting.driver = "hostpath" /\ vsnap.bound
          /\ IF file.name < 2 THEN file' = [name |-> 2, bytes |-> 1]
                              ELSE file.bytes < 2 /\ file' = [file EXCEPT !.bytes = @ + 1]
          \* the first file the meter ever reads is its baseline
          /\ still' = IF seen.snap = NoFile THEN still ELSE 0
          /\ UNCHANGED vsnap
    /\ UNCHANGED <<setting, phase, verdict, polled, pull, seen, metered>>

Ready ==
    /\ phase = "snapshot" /\ vsnap.bound
    /\ phase' = "over" /\ verdict' = "ready"
    /\ vsnap' = [vsnap EXCEPT !.ready = TRUE]
    /\ UNCHANGED <<setting, polled, pull, file, seen, metered, still>>

\* The first reading is a baseline; then a new name, or growth, is motion.
meter(s, reading) ==
    LET motion == s.snap # NoFile /\ (s.snap.name # reading.name \/ reading.bytes > s.snap.bytes)
    IN [s EXCEPT !.snap = reading, !.idle = IF motion THEN 0 ELSE @]

\* Only a bound snapshot on a metered driver has bytes to be silent with.
window(s, reads) == IF reads /\ s.bound THEN METERED_STALL ELSE BLIND_STALL
Fault(s, reads) == IF ~s.bound THEN "unbound" ELSE IF reads THEN "no_bytes" ELSE "silent"

\* The status says more than the watch has read of it.
Unread == seen.bound # vsnap.bound \/ seen.stamp < vsnap.stamp

\* One turn: the status, unless its read fails, the meter, lost for good when a reading fails,
\* then the clock.  A message no retry clears ends the wait at once.
snapshot_watch ==
    /\ phase = "snapshot" /\ ~polled
    /\ polled' = TRUE
    /\ \E got \in {TRUE} \cup (IF setting.gets THEN {FALSE} ELSE {}),
          read_fails \in {FALSE} \cup (IF setting.execs /\ metered THEN {TRUE} ELSE {}) :
          LET reads == metered /\ ~read_fails
              status == IF ~got THEN seen
                        ELSE [seen EXCEPT !.bound = vsnap.bound, !.stamp = vsnap.stamp,
                                 !.idle = IF Unread THEN 0 ELSE @]
              next == IF reads /\ file # NoFile THEN meter(status, file) ELSE status
          IN /\ metered' = reads
             /\ seen' = next
             /\ \/ got /\ vsnap.stamp > 0 /\ Return("driver")
                \/ IF next.idle >= window(next, reads) THEN Return(Fault(next, reads)) ELSE Stay
    /\ UNCHANGED <<setting, pull, vsnap, file, still>>

-----------------------------------------------------------------------------
\* A unit passes once the watch has polled in it, or was given no pod to look at.
Tick ==
    /\ phase # "over" /\ (polled \/ Unlisted)
    /\ polled' = FALSE
    /\ start' = [unscheduled |-> Older(start.unscheduled, PENDING_TIMEOUT),
                 pull_error |-> Older(start.pull_error, IMAGE_PULL_GRACE)]
    /\ clock' = [clock EXCEPT !.idle = Older(@, STALL_WINDOW)]
    /\ seen' = [seen EXCEPT !.idle = IF phase = "snapshot" THEN Older(@, BLIND_STALL) ELSE @]
    /\ quiet' = Older(quiet, STALL_WINDOW + 1)
    /\ still' = IF phase = "snapshot" THEN Older(still, BLIND_STALL + 1) ELSE still
    /\ UNCHANGED <<setting, phase, verdict, pod, landed, listed, att, hid, vsnap, file, metered>>

WatchNext ==
    \/ NewPod \/ Place \/ Moves \/ Exits \/ Settles \/ Drops
    \/ watch_puller \/ follow
    \/ Copies \/ Ready \/ snapshot_watch
    \/ Tick

WatchSpec == WatchInit /\ [][WatchNext]_watch_vars

-----------------------------------------------------------------------------
(* What a verdict means *)

\* A stall is silence: a watch calls a pull or a snapshot dead only when nothing has moved
\* in its sight for the whole window - whatever the stream's drops and replays, a retried
\* pod that counts from zero again, or a finished sibling beside the copy (Liveness) -
\* so long as the meter of a copying driver is not lost, and no change of the status is one
\* that every read since has failed to show.
StallIsSilent ==
    /\ verdict \in {"no_progress", "finalizing"} => quiet >= STALL_WINDOW
    /\ verdict \in {"unbound", "silent"} /\ (metered \/ setting.driver = "cow")
           => still >= BLIND_STALL \/ Unread
    /\ verdict = "no_bytes" => still >= METERED_STALL \/ Unread

\* Silence is a stall: no poll that is given its pod leaves a pull that ran alive, and none,
\* where the status can be read, a snapshot, once nothing has moved for the window - a
\* re-attach launders no silence, a replayed record is no motion, and a lost meter only widens
\* the window (watch_puller, snapshot::watch).  Polls whose list fails or is empty end
\* nothing: silence lasts until a list answers.
SilenceEnds ==
    [][~polled /\ polled' =>
          /\ phase = "pull" /\ clock.idle # None /\ pod.is \notin Unplaced
                /\ quiet >= STALL_WINDOW => phase' = "over"
          /\ phase = "snapshot" /\ ~setting.gets /\ still > window(seen', metered')
                => phase' = "over"]_watch_vars
=============================================================================
