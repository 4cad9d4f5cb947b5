---------------------------- MODULE AttemptProofs ---------------------------
(***************************************************************************)
(* Proofs about Attempt, for every hard cap and every grace: what an       *)
(* attempt holds when it resolves, what it fetched before it deleted, and  *)
(* when a pull error is final.  Then, who deletes what a run leaves        *)
(* behind: proofs about Reaper.                                            *)
(***************************************************************************)
EXTENDS Attempt, Reaper, TLAPS

Opening == {"create", "bind", "sa", "spawn"}
Closing == {"harvest", "delete_ns", "await_ns", "delete_vsc"}
Closed == {"delete_pod", "await_pod", "done"}
Labels == Opening \cup {"wait", "drain", "logs"} \cup Closing \cup Closed
Killed == {"Timeout", "Terminated"}

StateType ==
    /\ pc \in Labels
    /\ verdict \in Verdict \cup {None}
    /\ ns \in {None, "active", "terminating", "gone"}
    /\ proc \in {None, "pending", "running", "passed", "failed", "killed", "gone"}
    /\ helper \in {None, "group", "escaped"}
    /\ image \in {"ok", "backoff", "invalid"}
    /\ opts.executor \in {"local", "pod"}

Kept == opts.no_cleanup \/ fault

(* The namespace, by where the future is.                                  *)
NsInv ==
    /\ pc = "create" => ns = None
    /\ pc \in {"bind", "sa", "spawn", "wait", "drain", "logs", "harvest", "delete_ns"} => ns = "active"
    /\ pc = "await_ns" => ns \in {"terminating", "gone"}
    /\ pc = "delete_vsc" => ns = "gone"
    /\ pc \in Closed => Kept \/ ns = "gone"
    /\ ns \in {None, "gone"} => comps = None

(* The test process, its helpers and its binding.                          *)
ProcInv ==
    /\ pc \in Opening => proc = None
    /\ pc \in Opening \cup {"wait"} => verdict = None \/ pc = "done"
    /\ pc = "drain" => Local
    /\ pc = "logs" => Pod
    /\ Local => proc \notin {"pending", "gone"} /\ (proc = "running" => pc = "wait")
    /\ Pod => helper = None
    /\ verdict \in {"Pass", "Fail"} => ~ Alive
    /\ verdict \in Killed => helper # "group"
    /\ pc = "done" /\ Pod => Kept \/ proc \in {None, "gone"}
    /\ pc \in Closed /\ (Local \/ verdict \in {"Pass", "Fail"}) => Kept \/ ~ binding

(* The logs fetched so far.                                                *)
LogInv ==
    /\ pc \in {"delete_ns", "await_ns", "delete_vsc"} => "components" \in fetched
    /\ ns \in {"terminating", "gone"} => "components" \in fetched
    /\ Pod /\ proc # None => pc \in {"wait", "logs"} \/ "runner" \in fetched

(* The grace counts from the last read that saw no pull error.             *)
GraceInv ==
    /\ pull \in 0 .. Grace + 1 /\ clean \in 0 .. Grace
    /\ pull > 0 => clean >= pull - 1

Inv == StateType /\ NsInv /\ ProcInv /\ LogInv /\ GraceInv

USE DEF Opening, Closing, Closed, Labels, Killed, Kept, Verdict, None, Pod, Local, Alive

LEMMA InitInv == Init => Inv
<1> SUFFICES ASSUME Init
             PROVE  Inv
  OBVIOUS
<1>1. StateType
  BY DEF Init, StateType
<1>2. NsInv /\ ProcInv /\ LogInv
  BY <1>1 DEF Init, NsInv, ProcInv, LogInv, StateType
<1>3. GraceInv
  BY TimesAssumption DEF Init, GraceInv
<1> QED
  BY <1>1, <1>2, <1>3 DEF Inv

(* The namespace opens, and the test starts.                               *)
LEMMA OpenSteps ==
    ASSUME Inv, create_test_namespace \/ bind_driver \/ wait_for_default_sa \/ Spawn
    PROVE  Inv'
<1>0. StateType /\ NsInv /\ ProcInv /\ LogInv /\ GraceInv
  BY DEF Inv
<1>1. CASE create_test_namespace
  <2>1. StateType'
    BY <1>0, <1>1 DEF create_test_namespace, OpenStep, OpenFails, world, StateType
  <2>2. NsInv'
    BY <1>0, <1>1 DEF create_test_namespace, OpenStep, OpenFails, world, StateType, NsInv, ProcInv
  <2>3. ProcInv'
    BY <1>0, <1>1 DEF create_test_namespace, OpenStep, OpenFails, world, StateType, NsInv, ProcInv
  <2>4. LogInv'
    BY <1>0, <1>1 DEF create_test_namespace, OpenStep, OpenFails, world, StateType, NsInv,
       ProcInv, LogInv
  <2>5. GraceInv'
    BY <1>0, <1>1, TimesAssumption DEF create_test_namespace, OpenStep, OpenFails, world, GraceInv
  <2> QED
    BY <2>1, <2>2, <2>3, <2>4, <2>5 DEF Inv
<1>2. CASE bind_driver
  <2>1. StateType'
    BY <1>0, <1>2 DEF bind_driver, OpenStep, OpenFails, world, StateType
  <2>2. NsInv'
    BY <1>0, <1>2 DEF bind_driver, OpenStep, OpenFails, world, StateType, NsInv, ProcInv
  <2>3. ProcInv'
    BY <1>0, <1>2 DEF bind_driver, OpenStep, OpenFails, world, StateType, NsInv, ProcInv
  <2>4. LogInv'
    BY <1>0, <1>2 DEF bind_driver, OpenStep, OpenFails, world, StateType, NsInv, ProcInv, LogInv
  <2>5. GraceInv'
    BY <1>0, <1>2, TimesAssumption DEF bind_driver, OpenStep, OpenFails, world, GraceInv
  <2> QED
    BY <2>1, <2>2, <2>3, <2>4, <2>5 DEF Inv
<1>3. CASE wait_for_default_sa
  <2>1. StateType'
    BY <1>0, <1>3 DEF wait_for_default_sa, OpenStep, OpenFails, world, StateType
  <2>2. NsInv'
    BY <1>0, <1>3 DEF wait_for_default_sa, OpenStep, OpenFails, world, StateType, NsInv, ProcInv
  <2>3. ProcInv'
    BY <1>0, <1>3 DEF wait_for_default_sa, OpenStep, OpenFails, world, StateType, NsInv, ProcInv
  <2>4. LogInv'
    BY <1>0, <1>3 DEF wait_for_default_sa, OpenStep, OpenFails, world, StateType, NsInv, ProcInv,
       LogInv
  <2>5. GraceInv'
    BY <1>0, <1>3, TimesAssumption DEF wait_for_default_sa, OpenStep, OpenFails, world, GraceInv
  <2> QED
    BY <2>1, <2>2, <2>3, <2>4, <2>5 DEF Inv
<1>4. CASE Spawn
  <2>1. StateType'
    BY <1>0, <1>4 DEF Spawn, StateType
  <2>2. NsInv'
    BY <1>0, <1>4 DEF Spawn, StateType, NsInv, ProcInv
  <2>3. ProcInv'
    BY <1>0, <1>4 DEF Spawn, StateType, NsInv, ProcInv
  <2>4. LogInv'
    BY <1>0, <1>4 DEF Spawn, StateType, NsInv, ProcInv, LogInv
  <2>5. GraceInv'
    BY <1>0, <1>4, TimesAssumption DEF Spawn, GraceInv
  <2> QED
    BY <2>1, <2>2, <2>3, <2>4, <2>5 DEF Inv
<1> QED
  BY <1>1, <1>2, <1>3, <1>4

(* The wait ends: by the poll, by the child, by the cap or by a cancel.    *)
LEMMA WaitSteps ==
    ASSUME Inv, Poll \/ PodCancelled \/ ChildExited \/ CapExpires \/ LocalCancelled \/ Drain
    PROVE  Inv'
<1>0. StateType /\ NsInv /\ ProcInv /\ LogInv /\ GraceInv
  BY DEF Inv
<1>1. CASE Poll
  <2>1. StateType'
    BY <1>0, <1>1 DEF Poll, Settle, terminal_state, pull_seen, pull_error_is_terminal, world,
       StateType
  <2>2. NsInv'
    BY <1>0, <1>1 DEF Poll, Settle, terminal_state, pull_seen, pull_error_is_terminal, world,
       StateType, NsInv, ProcInv
  <2>3. ProcInv'
    BY <1>0, <1>1 DEF Poll, Settle, terminal_state, pull_seen, pull_error_is_terminal, world,
       StateType, NsInv, ProcInv
  <2>4. LogInv'
    BY <1>0, <1>1 DEF Poll, Settle, terminal_state, pull_seen, pull_error_is_terminal, world,
       StateType, NsInv, ProcInv, LogInv
  <2>5. GraceInv'
    BY <1>0, <1>1, TimesAssumption DEF Poll, Settle, terminal_state, pull_seen,
       pull_error_is_terminal, world, GraceInv
  <2> QED
    BY <2>1, <2>2, <2>3, <2>4, <2>5 DEF Inv
<1>2. CASE PodCancelled
  <2>1. StateType'
    BY <1>0, <1>2 DEF PodCancelled, Settle, world, StateType
  <2>2. NsInv'
    BY <1>0, <1>2 DEF PodCancelled, Settle, world, StateType, NsInv, ProcInv
  <2>3. ProcInv'
    BY <1>0, <1>2 DEF PodCancelled, Settle, world, StateType, NsInv, ProcInv
  <2>4. LogInv'
    BY <1>0, <1>2 DEF PodCancelled, Settle, world, StateType, NsInv, ProcInv, LogInv
  <2>5. GraceInv'
    BY <1>0, <1>2, TimesAssumption DEF PodCancelled, Settle, world, GraceInv
  <2> QED
    BY <2>1, <2>2, <2>3, <2>4, <2>5 DEF Inv
<1>3. CASE ChildExited
  <2>1. StateType'
    BY <1>0, <1>3 DEF ChildExited, Settle, terminal_state, world, StateType
  <2>2. NsInv'
    BY <1>0, <1>3 DEF ChildExited, Settle, terminal_state, world, StateType, NsInv, ProcInv
  <2>3. ProcInv'
    BY <1>0, <1>3 DEF ChildExited, Settle, terminal_state, world, StateType, NsInv, ProcInv
  <2>4. LogInv'
    BY <1>0, <1>3 DEF ChildExited, Settle, terminal_state, world, StateType, NsInv, ProcInv, LogInv
  <2>5. GraceInv'
    BY <1>0, <1>3, TimesAssumption DEF ChildExited, Settle, terminal_state, world, GraceInv
  <2> QED
    BY <2>1, <2>2, <2>3, <2>4, <2>5 DEF Inv
<1>4. CASE CapExpires
  <2>1. StateType'
    BY <1>0, <1>4 DEF CapExpires, ChildKilled, Settle, kill_group, StateType
  <2>2. NsInv'
    BY <1>0, <1>4 DEF CapExpires, ChildKilled, Settle, kill_group, StateType, NsInv, ProcInv
  <2>3. ProcInv'
    BY <1>0, <1>4 DEF CapExpires, ChildKilled, Settle, kill_group, StateType, NsInv, ProcInv
  <2>4. LogInv'
    BY <1>0, <1>4 DEF CapExpires, ChildKilled, Settle, kill_group, StateType, NsInv, ProcInv, LogInv
  <2>5. GraceInv'
    BY <1>0, <1>4, TimesAssumption DEF CapExpires, ChildKilled, Settle, kill_group, GraceInv
  <2> QED
    BY <2>1, <2>2, <2>3, <2>4, <2>5 DEF Inv
<1>5. CASE LocalCancelled
  <2>1. StateType'
    BY <1>0, <1>5 DEF LocalCancelled, ChildKilled, Settle, kill_group, StateType
  <2>2. NsInv'
    BY <1>0, <1>5 DEF LocalCancelled, ChildKilled, Settle, kill_group, StateType, NsInv, ProcInv
  <2>3. ProcInv'
    BY <1>0, <1>5 DEF LocalCancelled, ChildKilled, Settle, kill_group, StateType, NsInv, ProcInv
  <2>4. LogInv'
    BY <1>0, <1>5 DEF LocalCancelled, ChildKilled, Settle, kill_group, StateType, NsInv, ProcInv,
       LogInv
  <2>5. GraceInv'
    BY <1>0, <1>5, TimesAssumption DEF LocalCancelled, ChildKilled, Settle, kill_group, GraceInv
  <2> QED
    BY <2>1, <2>2, <2>3, <2>4, <2>5 DEF Inv
<1>6. CASE Drain
  <2>1. StateType'
    BY <1>0, <1>6 DEF Drain, world, StateType
  <2>2. NsInv'
    BY <1>0, <1>6 DEF Drain, world, StateType, NsInv, ProcInv
  <2>3. ProcInv'
    BY <1>0, <1>6 DEF Drain, world, StateType, NsInv, ProcInv
  <2>4. LogInv'
    BY <1>0, <1>6 DEF Drain, world, StateType, NsInv, ProcInv, LogInv
  <2>5. GraceInv'
    BY <1>0, <1>6, TimesAssumption DEF Drain, world, GraceInv
  <2> QED
    BY <2>1, <2>2, <2>3, <2>4, <2>5 DEF Inv
<1> QED
  BY <1>1, <1>2, <1>3, <1>4, <1>5, <1>6

(* The teardown, step by step.                                             *)
LEMMA CloseSteps ==
    ASSUME Inv,
           \/ RunnerLogs \/ Harvest \/ DeleteNamespace \/ AwaitNamespace \/ delete_seed_binding_contents_for_ns
           \/ DeleteRunner \/ AwaitRunner \/ WatchBreaks
    PROVE  Inv'
<1>0. StateType /\ NsInv /\ ProcInv /\ LogInv /\ GraceInv
  BY DEF Inv
<1>1. CASE RunnerLogs
  <2>1. StateType'
    BY <1>0, <1>1 DEF RunnerLogs, world, StateType
  <2>2. NsInv'
    BY <1>0, <1>1 DEF RunnerLogs, world, StateType, NsInv, ProcInv
  <2>3. ProcInv'
    BY <1>0, <1>1 DEF RunnerLogs, world, StateType, NsInv, ProcInv
  <2>4. LogInv'
    BY <1>0, <1>1 DEF RunnerLogs, world, StateType, NsInv, ProcInv, LogInv
  <2>5. GraceInv'
    BY <1>0, <1>1, TimesAssumption DEF RunnerLogs, world, GraceInv
  <2> QED
    BY <2>1, <2>2, <2>3, <2>4, <2>5 DEF Inv
<1>2. CASE Harvest
  <2>1. StateType'
    BY <1>0, <1>2 DEF Harvest, world, StateType
  <2>2. NsInv'
    BY <1>0, <1>2 DEF Harvest, world, StateType, NsInv, ProcInv
  <2>3. ProcInv'
    BY <1>0, <1>2 DEF Harvest, world, StateType, NsInv, ProcInv
  <2>4. LogInv'
    BY <1>0, <1>2 DEF Harvest, world, StateType, NsInv, ProcInv, LogInv
  <2>5. GraceInv'
    BY <1>0, <1>2, TimesAssumption DEF Harvest, world, GraceInv
  <2> QED
    BY <2>1, <2>2, <2>3, <2>4, <2>5 DEF Inv
<1>3. CASE DeleteNamespace
  <2>1. StateType'
    BY <1>0, <1>3 DEF DeleteNamespace, CloseFails, after_close, world, StateType
  <2>2. NsInv'
    BY <1>0, <1>3 DEF DeleteNamespace, CloseFails, after_close, world, StateType, NsInv, ProcInv
  <2>3. ProcInv'
    BY <1>0, <1>3 DEF DeleteNamespace, CloseFails, after_close, world, StateType, NsInv, ProcInv
  <2>4. LogInv'
    BY <1>0, <1>3 DEF DeleteNamespace, CloseFails, after_close, world, StateType, NsInv, ProcInv,
       LogInv
  <2>5. GraceInv'
    BY <1>0, <1>3, TimesAssumption DEF DeleteNamespace, CloseFails, after_close, world, GraceInv
  <2> QED
    BY <2>1, <2>2, <2>3, <2>4, <2>5 DEF Inv
<1>4. CASE AwaitNamespace
  <2>1. StateType'
    BY <1>0, <1>4 DEF AwaitNamespace, world, StateType
  <2>2. NsInv'
    BY <1>0, <1>4 DEF AwaitNamespace, world, StateType, NsInv, ProcInv
  <2>3. ProcInv'
    BY <1>0, <1>4 DEF AwaitNamespace, world, StateType, NsInv, ProcInv
  <2>4. LogInv'
    BY <1>0, <1>4 DEF AwaitNamespace, world, StateType, NsInv, ProcInv, LogInv
  <2>5. GraceInv'
    BY <1>0, <1>4, TimesAssumption DEF AwaitNamespace, world, GraceInv
  <2> QED
    BY <2>1, <2>2, <2>3, <2>4, <2>5 DEF Inv
<1>5. CASE delete_seed_binding_contents_for_ns
  <2>1. StateType'
    BY <1>0, <1>5 DEF delete_seed_binding_contents_for_ns, CloseFails, after_close, world, StateType
  <2>2. NsInv'
    BY <1>0, <1>5 DEF delete_seed_binding_contents_for_ns, CloseFails, after_close, world,
       StateType, NsInv, ProcInv
  <2>3. ProcInv'
    BY <1>0, <1>5 DEF delete_seed_binding_contents_for_ns, CloseFails, after_close, world,
       StateType, NsInv, ProcInv
  <2>4. LogInv'
    BY <1>0, <1>5 DEF delete_seed_binding_contents_for_ns, CloseFails, after_close, world,
       StateType, NsInv, ProcInv, LogInv
  <2>5. GraceInv'
    BY <1>0, <1>5, TimesAssumption DEF delete_seed_binding_contents_for_ns, CloseFails,
       after_close, world, GraceInv
  <2> QED
    BY <2>1, <2>2, <2>3, <2>4, <2>5 DEF Inv
<1>6. CASE DeleteRunner
  <2>1. StateType'
    BY <1>0, <1>6 DEF DeleteRunner, CloseFails, world, StateType
  <2>2. NsInv'
    BY <1>0, <1>6 DEF DeleteRunner, CloseFails, world, StateType, NsInv, ProcInv
  <2>3. ProcInv'
    BY <1>0, <1>6 DEF DeleteRunner, CloseFails, world, StateType, NsInv, ProcInv
  <2>4. LogInv'
    BY <1>0, <1>6 DEF DeleteRunner, CloseFails, world, StateType, NsInv, ProcInv, LogInv
  <2>5. GraceInv'
    BY <1>0, <1>6, TimesAssumption DEF DeleteRunner, CloseFails, world, GraceInv
  <2> QED
    BY <2>1, <2>2, <2>3, <2>4, <2>5 DEF Inv
<1>7. CASE AwaitRunner
  <2>1. StateType'
    BY <1>0, <1>7 DEF AwaitRunner, world, StateType
  <2>2. NsInv'
    BY <1>0, <1>7 DEF AwaitRunner, world, StateType, NsInv, ProcInv
  <2>3. ProcInv'
    BY <1>0, <1>7 DEF AwaitRunner, world, StateType, NsInv, ProcInv
  <2>4. LogInv'
    BY <1>0, <1>7 DEF AwaitRunner, world, StateType, NsInv, ProcInv, LogInv
  <2>5. GraceInv'
    BY <1>0, <1>7, TimesAssumption DEF AwaitRunner, world, GraceInv
  <2> QED
    BY <2>1, <2>2, <2>3, <2>4, <2>5 DEF Inv
<1>8. CASE WatchBreaks
  <2>1. StateType'
    BY <1>0, <1>8 DEF WatchBreaks, CloseFails, after_close, world, StateType
  <2>2. NsInv'
    BY <1>0, <1>8 DEF WatchBreaks, CloseFails, after_close, world, StateType, NsInv, ProcInv
  <2>3. ProcInv'
    BY <1>0, <1>8 DEF WatchBreaks, CloseFails, after_close, world, StateType, NsInv, ProcInv
  <2>4. LogInv'
    BY <1>0, <1>8 DEF WatchBreaks, CloseFails, after_close, world, StateType, NsInv, ProcInv, LogInv
  <2>5. GraceInv'
    BY <1>0, <1>8, TimesAssumption DEF WatchBreaks, CloseFails, after_close, world, GraceInv
  <2> QED
    BY <2>1, <2>2, <2>3, <2>4, <2>5 DEF Inv
<1> QED
  BY <1>1, <1>2, <1>3, <1>4, <1>5, <1>6, <1>7, <1>8

(* The test process, the kubelet, the clock and the user.                  *)
LEMMA WorldSteps ==
    ASSUME Inv,
           \/ Deploy \/ bind_seed \/ StartHelper \/ HelperExits \/ TestExits
           \/ ComponentDies \/ PullMoves \/ ContainerStarts \/ RunnerRemoved \/ NamespaceFinalized
           \/ Tick \/ CtrlC
    PROVE  Inv'
<1>0. StateType /\ NsInv /\ ProcInv /\ LogInv /\ GraceInv
  BY DEF Inv
<1>1. CASE Deploy
  <2>1. StateType'
    BY <1>0, <1>1 DEF Deploy, engine, StateType
  <2>2. NsInv'
    BY <1>0, <1>1 DEF Deploy, engine, StateType, NsInv, ProcInv
  <2>3. ProcInv'
    BY <1>0, <1>1 DEF Deploy, engine, StateType, NsInv, ProcInv
  <2>4. LogInv'
    BY <1>0, <1>1 DEF Deploy, engine, StateType, NsInv, ProcInv, LogInv
  <2>5. GraceInv'
    BY <1>0, <1>1, TimesAssumption DEF Deploy, engine, GraceInv
  <2> QED
    BY <2>1, <2>2, <2>3, <2>4, <2>5 DEF Inv
<1>2. CASE bind_seed
  <2>1. StateType'
    BY <1>0, <1>2 DEF bind_seed, engine, StateType
  <2>2. NsInv'
    BY <1>0, <1>2 DEF bind_seed, engine, StateType, NsInv, ProcInv
  <2>3. ProcInv'
    BY <1>0, <1>2 DEF bind_seed, engine, StateType, NsInv, ProcInv
  <2>4. LogInv'
    BY <1>0, <1>2 DEF bind_seed, engine, StateType, NsInv, ProcInv, LogInv
  <2>5. GraceInv'
    BY <1>0, <1>2, TimesAssumption DEF bind_seed, engine, GraceInv
  <2> QED
    BY <2>1, <2>2, <2>3, <2>4, <2>5 DEF Inv
<1>3. CASE StartHelper
  <2>1. StateType'
    BY <1>0, <1>3 DEF StartHelper, engine, StateType
  <2>2. NsInv'
    BY <1>0, <1>3 DEF StartHelper, engine, StateType, NsInv, ProcInv
  <2>3. ProcInv'
    BY <1>0, <1>3 DEF StartHelper, engine, StateType, NsInv, ProcInv
  <2>4. LogInv'
    BY <1>0, <1>3 DEF StartHelper, engine, StateType, NsInv, ProcInv, LogInv
  <2>5. GraceInv'
    BY <1>0, <1>3, TimesAssumption DEF StartHelper, engine, GraceInv
  <2> QED
    BY <2>1, <2>2, <2>3, <2>4, <2>5 DEF Inv
<1>4. CASE HelperExits
  <2>1. StateType'
    BY <1>0, <1>4 DEF HelperExits, engine, StateType
  <2>2. NsInv'
    BY <1>0, <1>4 DEF HelperExits, engine, StateType, NsInv, ProcInv
  <2>3. ProcInv'
    BY <1>0, <1>4 DEF HelperExits, engine, StateType, NsInv, ProcInv
  <2>4. LogInv'
    BY <1>0, <1>4 DEF HelperExits, engine, StateType, NsInv, ProcInv, LogInv
  <2>5. GraceInv'
    BY <1>0, <1>4, TimesAssumption DEF HelperExits, engine, GraceInv
  <2> QED
    BY <2>1, <2>2, <2>3, <2>4, <2>5 DEF Inv
<1>5. CASE TestExits
  <2>1. StateType'
    BY <1>0, <1>5 DEF TestExits, engine, StateType
  <2>2. NsInv'
    BY <1>0, <1>5 DEF TestExits, engine, StateType, NsInv, ProcInv
  <2>3. ProcInv'
    BY <1>0, <1>5 DEF TestExits, engine, StateType, NsInv, ProcInv
  <2>4. LogInv'
    BY <1>0, <1>5 DEF TestExits, engine, StateType, NsInv, ProcInv, LogInv
  <2>5. GraceInv'
    BY <1>0, <1>5, TimesAssumption DEF TestExits, engine, GraceInv
  <2> QED
    BY <2>1, <2>2, <2>3, <2>4, <2>5 DEF Inv
<1>6. CASE ComponentDies
  <2>1. StateType'
    BY <1>0, <1>6 DEF ComponentDies, engine, StateType
  <2>2. NsInv'
    BY <1>0, <1>6 DEF ComponentDies, engine, StateType, NsInv, ProcInv
  <2>3. ProcInv'
    BY <1>0, <1>6 DEF ComponentDies, engine, StateType, NsInv, ProcInv
  <2>4. LogInv'
    BY <1>0, <1>6 DEF ComponentDies, engine, StateType, NsInv, ProcInv, LogInv
  <2>5. GraceInv'
    BY <1>0, <1>6, TimesAssumption DEF ComponentDies, engine, GraceInv
  <2> QED
    BY <2>1, <2>2, <2>3, <2>4, <2>5 DEF Inv
<1>7. CASE PullMoves
  <2>1. StateType'
    BY <1>0, <1>7 DEF PullMoves, engine, StateType
  <2>2. NsInv'
    BY <1>0, <1>7 DEF PullMoves, engine, StateType, NsInv, ProcInv
  <2>3. ProcInv'
    BY <1>0, <1>7 DEF PullMoves, engine, StateType, NsInv, ProcInv
  <2>4. LogInv'
    BY <1>0, <1>7 DEF PullMoves, engine, StateType, NsInv, ProcInv, LogInv
  <2>5. GraceInv'
    BY <1>0, <1>7, TimesAssumption DEF PullMoves, engine, GraceInv
  <2> QED
    BY <2>1, <2>2, <2>3, <2>4, <2>5 DEF Inv
<1>8. CASE ContainerStarts
  <2>1. StateType'
    BY <1>0, <1>8 DEF ContainerStarts, engine, StateType
  <2>2. NsInv'
    BY <1>0, <1>8 DEF ContainerStarts, engine, StateType, NsInv, ProcInv
  <2>3. ProcInv'
    BY <1>0, <1>8 DEF ContainerStarts, engine, StateType, NsInv, ProcInv
  <2>4. LogInv'
    BY <1>0, <1>8 DEF ContainerStarts, engine, StateType, NsInv, ProcInv, LogInv
  <2>5. GraceInv'
    BY <1>0, <1>8, TimesAssumption DEF ContainerStarts, engine, GraceInv
  <2> QED
    BY <2>1, <2>2, <2>3, <2>4, <2>5 DEF Inv
<1>9. CASE RunnerRemoved
  <2>1. StateType'
    BY <1>0, <1>9 DEF RunnerRemoved, engine, StateType
  <2>2. NsInv'
    BY <1>0, <1>9 DEF RunnerRemoved, engine, StateType, NsInv, ProcInv
  <2>3. ProcInv'
    BY <1>0, <1>9 DEF RunnerRemoved, engine, StateType, NsInv, ProcInv
  <2>4. LogInv'
    BY <1>0, <1>9 DEF RunnerRemoved, engine, StateType, NsInv, ProcInv, LogInv
  <2>5. GraceInv'
    BY <1>0, <1>9, TimesAssumption DEF RunnerRemoved, engine, GraceInv
  <2> QED
    BY <2>1, <2>2, <2>3, <2>4, <2>5 DEF Inv
<1>10. CASE NamespaceFinalized
  <2>1. StateType'
    BY <1>0, <1>10 DEF NamespaceFinalized, engine, StateType
  <2>2. NsInv'
    BY <1>0, <1>10 DEF NamespaceFinalized, engine, StateType, NsInv, ProcInv
  <2>3. ProcInv'
    BY <1>0, <1>10 DEF NamespaceFinalized, engine, StateType, NsInv, ProcInv
  <2>4. LogInv'
    BY <1>0, <1>10 DEF NamespaceFinalized, engine, StateType, NsInv, ProcInv, LogInv
  <2>5. GraceInv'
    BY <1>0, <1>10, TimesAssumption DEF NamespaceFinalized, engine, GraceInv
  <2> QED
    BY <2>1, <2>2, <2>3, <2>4, <2>5 DEF Inv
<1>11. CASE Tick
  <2>1. StateType'
    BY <1>0, <1>11 DEF Tick, world, StateType
  <2>2. NsInv'
    BY <1>0, <1>11 DEF Tick, world, StateType, NsInv, ProcInv
  <2>3. ProcInv'
    BY <1>0, <1>11 DEF Tick, world, StateType, NsInv, ProcInv
  <2>4. LogInv'
    BY <1>0, <1>11 DEF Tick, world, StateType, NsInv, ProcInv, LogInv
  <2>5. GraceInv'
    BY <1>0, <1>11, TimesAssumption DEF Tick, world, GraceInv
  <2> QED
    BY <2>1, <2>2, <2>3, <2>4, <2>5 DEF Inv
<1>12. CASE CtrlC
  <2>1. StateType'
    BY <1>0, <1>12 DEF CtrlC, engine, world, StateType
  <2>2. NsInv'
    BY <1>0, <1>12 DEF CtrlC, engine, world, StateType, NsInv, ProcInv
  <2>3. ProcInv'
    BY <1>0, <1>12 DEF CtrlC, engine, world, StateType, NsInv, ProcInv
  <2>4. LogInv'
    BY <1>0, <1>12 DEF CtrlC, engine, world, StateType, NsInv, ProcInv, LogInv
  <2>5. GraceInv'
    BY <1>0, <1>12, TimesAssumption DEF CtrlC, engine, world, GraceInv
  <2> QED
    BY <2>1, <2>2, <2>3, <2>4, <2>5 DEF Inv
<1> QED
  BY <1>1, <1>2, <1>3, <1>4, <1>5, <1>6, <1>7, <1>8, <1>9, <1>10, <1>11, <1>12

LEMMA StepInv == Inv /\ [Next]_vars => Inv'
<1> SUFFICES ASSUME Inv, [Next]_vars
             PROVE  Inv'
  OBVIOUS
<1>1. CASE Engine \/ WatchBreaks
  BY <1>1, OpenSteps, WaitSteps, CloseSteps DEF Engine
<1>2. CASE \/ Deploy \/ bind_seed \/ StartHelper \/ HelperExits \/ TestExits \/ ComponentDies
           \/ PullMoves \/ ContainerStarts \/ RunnerRemoved \/ NamespaceFinalized \/ Tick \/ CtrlC
  BY <1>2, WorldSteps
<1>3. CASE UNCHANGED vars
  BY <1>3 DEF vars, engine, world, Inv, StateType, NsInv, ProcInv, LogInv, GraceInv
<1> QED
  BY <1>1, <1>2, <1>3 DEF Next, Resolved

(* Whatever the cap and the grace, an attempt that resolved without a      *)
(* failed call holds nothing on the cluster when the run loop frees its    *)
(* slot (test_ns::close, and the teardown of both executors).              *)
THEOREM HoldsNothing == Spec => []NothingOutlives
<1>1. Inv => NothingOutlives
  BY DEF Inv, StateType, NsInv, ProcInv, NothingOutlives
<1> QED
  BY <1>1, InitInv, StepInv, PTL DEF Spec

(* Every log is fetched before anything is deleted (pod_runner.rs,         *)
(* test_ns.rs), for every cap and grace.                                   *)
THEOREM LogsFirst == Spec => []FetchedFirst
<1>1. Inv => FetchedFirst
  BY DEF Inv, StateType, NsInv, LogInv, FetchedFirst
<1> QED
  BY <1>1, InitInv, StepInv, PTL DEF Spec

(* For every grace, a transient pull error ends the wait only after a      *)
(* whole grace without a read that saw the pull succeed (the poll loop of  *)
(* pod_runner.rs).                                                         *)
THEOREM GraceWhole == Spec => GraceRestarts
<1> DEFINE Late == Pod /\ pc = "wait" /\ verdict' = "SpawnError" =>
                       image = "invalid" \/ (image = "backoff" /\ clean = Grace)
<1>1. Inv /\ [Next]_vars => [Late]_vars
  <2> SUFFICES ASSUME Inv, Next, Pod, pc = "wait", verdict' = "SpawnError"
               PROVE  image = "invalid" \/ (image = "backoff" /\ clean = Grace)
    OBVIOUS
  <2>1. verdict = None
    BY SMTT(30) DEF Inv, ProcInv
  <2>2. Poll
    BY <2>1 DEF Next, Engine, create_test_namespace, bind_driver, wait_for_default_sa, OpenStep,
       Spawn,
       PodCancelled, ChildExited, CapExpires, LocalCancelled, ChildKilled, Drain, RunnerLogs, Harvest,
       DeleteNamespace, AwaitNamespace, delete_seed_binding_contents_for_ns, DeleteRunner, AwaitRunner,
       WatchBreaks, Deploy, bind_seed, StartHelper, HelperExits, TestExits, ComponentDies, PullMoves,
       ContainerStarts, RunnerRemoved, NamespaceFinalized, Tick, CtrlC, Resolved, Settle, engine
  <2>3. pull_error_is_terminal
    BY <2>1, <2>2 DEF Poll, Settle, terminal_state
  <2>4. image = "invalid" \/ (image = "backoff" /\ pull > Grace)
    BY <2>3, TimesAssumption DEF pull_error_is_terminal, pull_seen
  <2> QED
    BY <2>4, TimesAssumption DEF Inv, GraceInv
<1> QED
  BY <1>1, InitInv, StepInv, PTL DEF Spec, GraceRestarts

-----------------------------------------------------------------------------
(***************************************************************************)
(* Who deletes what a run leaves behind, from here on: proofs about        *)
(* Reaper, for every set of runs and every set of clusters.                *)
(***************************************************************************)


Phases == {"idle", "build", "between", "run", "done", "dead"}
Leases == {"none", "live", "expired"}
SweepType ==
    [pc : {"idle", "list", "reap", "live", "discover", "delete"},
     listed : SUBSET AllKinds, seen : SUBSET (Runs \X AllKinds), live : SUBSET Runs,
     todo : SUBSET Runs, cur : SUBSET Runs, left : SUBSET AllKinds,
     failed : BOOLEAN, force : BOOLEAN]

LifeType ==
    /\ mode \in Modes /\ mode.runs \subseteq Runs
    /\ phase \in [Runs -> Phases] /\ lease \in [Runs -> Leases]
    /\ objs \in [Runs -> SUBSET Kinds] /\ dying \in [Runs -> SUBSET Kinds]
    /\ no_cleanup \in [Runs -> BOOLEAN] /\ held \in [Runs -> BOOLEAN]

(* A run's life.  Only a dead run's lease expires; a run that does not     *)
(* build has one lease, and its end releases it.                           *)
LifeInv ==
    \A r \in Runs :
        /\ lease[r] = "expired" => phase[r] = "dead"
        /\ held[r] => no_cleanup[r]
        /\ phase[r] = "idle" => objs[r] = {}
        /\ ~ mode.builds => /\ phase[r] \notin {"build", "between"}
                            /\ phase[r] = "done" => lease[r] = "none"

HistoryInv ==
    /\ steady \subseteq Runs /\ \A r \in steady : lease[r] = "live"
    /\ over \subseteq Runs /\ \A r \in over : phase[r] \in {"done", "dead"}

(* An admission's sweep lists.  Whoever was seen has begun; and, when no   *)
(* list failed, whatever a run that was over still has was seen.           *)
ListInv ==
    s.pc = "list" =>
        /\ ~ s.force
        /\ \A t \in s.seen : phase[t[1]] # "idle"
        /\ ~ mode.fails => \A r \in over, k \in Labelled \cap s.listed :
                               k \in objs[r] => <<r, k>> \in s.seen

(* Whom a sweep reaps: never a run that was live all along, nor one that   *)
(* holds what it has left; and a run with one lease has lost it for good.  *)
TodoInv ==
    s.pc = "reap" =>
        /\ s.cur \subseteq s.todo /\ \A p, q \in s.cur : p = q
        /\ s.force => \E r \in Runs : s.todo = {r}
        /\ ~ s.force => s.todo \cap steady = {}
        /\ ~ mode.builds => \A r \in s.todo : phase[r] # "idle" /\ lease[r] # "live"
        /\ ~ mode.fails => \A r \in s.todo \cap over : held[r] => objs[r] \cap Labelled = {}

(* How far the reaping of one run is.  Of a dead run whose expired lease   *)
(* still stands, what was reaped does not come back.                       *)
Reaped(r) ==
    \/ s.left \subseteq Consumers /\ objs[r] \cap Consumers \subseteq s.left
    \/ s.left = {"vsc"} /\ objs[r] \cap Consumers = {}
    \/ s.left = {"lease"} /\ objs[r] = {}

CurInv ==
    s.pc = "reap" =>
        /\ s.left \subseteq Consumers \/ s.left = {"vsc"} \/ (s.left = {"lease"} /\ ~ s.failed)
        /\ ~ mode.builds /\ ~ s.failed => \A r \in s.cur : lease[r] = "expired" => Reaped(r)

(* A pass of cleanup that could read the leases has planned nothing of a   *)
(* run that was live all along.                                            *)
CleanupInv ==
    /\ s.pc \in {"live", "discover", "delete"} => "cleanup" \in mode.sweeps
    /\ "cleanup" \in mode.sweeps => ~ mode.fails
    /\ s.pc = "live" => s.seen = {}
    /\ s.pc = "discover" => steady \subseteq s.live
    /\ s.pc \in {"discover", "delete"} /\ ~ s.force =>
          \A t \in s.seen : t[2] \in Kinds => t[1] \notin steady

ReaperInv == /\ LifeType /\ s \in SweepType
       /\ LifeInv /\ HistoryInv /\ ListInv /\ TodoInv /\ CurInv

(* How one step may change a run's life, whoever takes it.                 *)
Moves(r) ==
    /\ lease'[r] = "live" => lease[r] = "live" \/ phase[r] \in {"idle", "between"}
    /\ lease'[r] = "expired" => lease[r] = "expired" \/ (lease[r] = "live" /\ phase[r] = "dead")
    /\ phase[r] = "dead" => phase'[r] = "dead"
    /\ phase[r] = "done" => phase'[r] = "done"
    /\ phase'[r] = "done" => phase[r] \in {"done", "between"} \/ lease'[r] = "none"
    /\ phase'[r] \in {"build", "between"} => phase[r] \in {"build", "between"} \/ mode.builds
    /\ phase'[r] = "idle" => phase[r] = "idle" /\ objs'[r] \subseteq objs[r]
    /\ held'[r] => held[r]
    /\ phase[r] \in {"done", "dead"} => objs'[r] \cap Consumers \subseteq objs[r]
    /\ phase[r] \in {"done", "dead"} /\ ~ (Labelled \subseteq objs[r]) => objs'[r] \subseteq objs[r]

USE DEF AllKinds, Kinds, Consumers, Labelled, Phases, Leases, life

(* A run to which nothing happens.                                         *)
LEMMA Untouched ==
    ASSUME NEW r, phase'[r] = phase[r], lease'[r] = lease[r], objs'[r] = objs[r], held'[r] = held[r]
    PROVE  Moves(r)
  BY Zenon DEF Moves

(* A run moves by its own steps.                                           *)
LEMMA RunMoves ==
    ASSUME LifeType, NEW q \in Runs, RunStep(q), mode' = mode
    PROVE  s' = s /\ no_cleanup' = no_cleanup /\ LifeType' /\ \A r \in Runs : Moves(r)
<1>1. CASE Acquire(q)
  <2>1. /\ s' = s /\ objs' = objs /\ dying' = dying /\ no_cleanup' = no_cleanup /\ held' = held
        /\ lease' = [lease EXCEPT ![q] = "live"]
    BY <1>1, Zenon DEF Acquire, SetLease
  <2>2. PICK p \in {"build", "run"} : 
          /\ phase' = [phase EXCEPT ![q] = p] /\ phase[q] \in {"idle", "between"}
          /\ p = "build" => mode.builds
    BY <1>1, Zenon DEF Acquire
  <2>3. LifeType'
    BY <2>1, <2>2, Zenon DEF LifeType
  <2>4. phase'[q] = p /\ lease'[q] = "live"
    BY <2>1, <2>2, Zenon DEF LifeType
  <2>5. Moves(q)
    BY <2>1, <2>2, <2>4, Zenon DEF Moves
  <2>6. ASSUME NEW r \in Runs, r # q PROVE Moves(r)
    BY <2>1, <2>2, <2>6, Untouched, Zenon DEF LifeType
  <2> QED
    BY <2>1, <2>3, <2>5, <2>6, Zenon
<1>2. CASE Release(q)
  <2>1. /\ s' = s /\ objs' = objs /\ dying' = dying /\ no_cleanup' = no_cleanup /\ held' = held
        /\ lease' = [lease EXCEPT ![q] = "none"]
    BY <1>2, Zenon DEF Release, SetLease
  <2>2. PICK p \in {"between", "done"} :
          /\ phase' = [phase EXCEPT ![q] = p] /\ phase[q] \in {"build", "run"}
          /\ p = "between" => phase[q] = "build"
    BY <1>2, Zenon DEF Release
  <2>3. LifeType'
    BY <2>1, <2>2, Zenon DEF LifeType
  <2>4. phase'[q] = p /\ lease'[q] = "none"
    BY <2>1, <2>2, Zenon DEF LifeType
  <2>5. Moves(q)
    BY <2>1, <2>2, <2>4, Zenon DEF Moves
  <2>6. ASSUME NEW r \in Runs, r # q PROVE Moves(r)
    BY <2>1, <2>2, <2>6, Untouched, Zenon DEF LifeType
  <2> QED
    BY <2>1, <2>3, <2>5, <2>6, Zenon
<1>3. CASE Crash(q)
  <2>1. /\ UNCHANGED <<s, objs, dying, no_cleanup, held, lease>> /\ phase[q] \in {"build", "run"}
        /\ phase' = [phase EXCEPT ![q] = "dead"]
    BY <1>3, Zenon DEF Crash
  <2>3. LifeType'
    BY <2>1, Zenon DEF LifeType
  <2>4. phase'[q] = "dead"
    BY <2>1, Zenon DEF LifeType
  <2>5. Moves(q)
    BY <2>1, <2>4, Zenon DEF Moves
  <2>6. ASSUME NEW r \in Runs, r # q PROVE Moves(r)
    BY <2>1, <2>6, Untouched, Zenon DEF LifeType
  <2> QED
    BY <2>1, <2>3, <2>5, <2>6, Zenon
<1>4. CASE Lapse(q) \/ SweepExpired(q)
  <2>1. UNCHANGED <<s, objs, dying, no_cleanup, held, phase>>
    BY <1>4, Zenon DEF Lapse, SweepExpired
  <2>2. PICK l \in {"none", "expired"} :
          /\ lease' = [lease EXCEPT ![q] = l]
          /\ l = "expired" => phase[q] = "dead" /\ lease[q] = "live"
    BY <1>4, Zenon DEF Lapse, SweepExpired, SetLease
  <2>3. LifeType'
    BY <2>1, <2>2, Zenon DEF LifeType
  <2>4. lease'[q] = l
    BY <2>2, Zenon DEF LifeType
  <2>5. Moves(q)
    BY <2>1, <2>2, <2>4, Zenon DEF Moves
  <2>6. ASSUME NEW r \in Runs, r # q PROVE Moves(r)
    BY <2>1, <2>2, <2>6, Untouched, Zenon DEF LifeType
  <2> QED
    BY <2>1, <2>3, <2>5, <2>6, Zenon
<1>5. CASE HoldLapses(q)
  <2>1. UNCHANGED <<s, objs, dying, no_cleanup, lease, phase>> /\ held' = [held EXCEPT ![q] = FALSE]
    BY <1>5, Zenon DEF HoldLapses
  <2>3. LifeType'
    BY <2>1, Zenon DEF LifeType
  <2>4. held'[q] = FALSE
    BY <2>1, Zenon DEF LifeType
  <2>5. Moves(q)
    BY <2>1, <2>4, Zenon DEF Moves
  <2>6. ASSUME NEW r \in Runs, r # q PROVE Moves(r)
    BY <2>1, <2>6, Untouched, Zenon DEF LifeType
  <2> QED
    BY <2>1, <2>3, <2>5, <2>6, Zenon
<1>6. ASSUME NEW k \in Kinds, Create(q, k)
      PROVE  s' = s /\ no_cleanup' = no_cleanup /\ LifeType' /\ \A r \in Runs : Moves(r)
  <2>1. /\ UNCHANGED <<s, phase, lease, dying, no_cleanup, held>>
        /\ objs' = [objs EXCEPT ![q] = @ \cup {k}]
        /\ phase[q] # "idle"
        /\ phase[q] \in {"done", "dead"} => k = "vsc" /\ Labelled \subseteq objs[q]
    BY <1>6, Zenon DEF Create
  <2>3. LifeType'
    BY <2>1, Zenon DEF LifeType
  <2>4. objs'[q] = objs[q] \cup {k}
    BY <2>1, Zenon DEF LifeType
  <2>5. Moves(q)
    BY <2>1, <2>4, Zenon DEF Moves
  <2>6. ASSUME NEW r \in Runs, r # q PROVE Moves(r)
    BY <2>1, <2>6, Untouched, Zenon DEF LifeType
  <2> QED
    BY <2>1, <2>3, <2>5, <2>6, Zenon
<1>7. ASSUME NEW k \in Kinds, Teardown(q, k) \/ Finalize(q, k)
      PROVE  s' = s /\ no_cleanup' = no_cleanup /\ LifeType' /\ \A r \in Runs : Moves(r)
  <2>1. /\ UNCHANGED <<s, phase, lease, no_cleanup, held>>
        /\ objs' = [objs EXCEPT ![q] = @ \ {k}] /\ dying' = [dying EXCEPT ![q] = @ \ {k}]
    BY <1>7, Zenon DEF Teardown, Finalize, Remove
  <2>3. LifeType'
    BY <2>1, Zenon DEF LifeType
  <2>4. objs'[q] \subseteq objs[q]
    BY <2>1, Zenon DEF LifeType
  <2>5. Moves(q)
    BY <2>1, <2>4, Zenon DEF Moves
  <2>6. ASSUME NEW r \in Runs, r # q PROVE Moves(r)
    BY <2>1, <2>6, Untouched, Zenon DEF LifeType
  <2> QED
    BY <2>1, <2>3, <2>5, <2>6, Zenon
<1> QED
  BY <1>1, <1>2, <1>3, <1>4, <1>5, <1>6, <1>7, Zenon DEF RunStep

(* A run that a sweep takes things from.                                   *)
LEMMA Shrinks ==
    ASSUME NEW r, phase'[r] = phase[r], lease'[r] \in {lease[r], "none"},
           objs'[r] \subseteq objs[r], held'[r] = held[r]
    PROVE  Moves(r)
  BY Zenon DEF Moves

(* What reaping a kind of object does to the runs.                         *)
LEMMA ReapMoves ==
    ASSUME LifeType, NEW q \in Runs, NEW k \in AllKinds, reap_matching(q, k), mode' = mode
    PROVE  /\ no_cleanup' = no_cleanup /\ LifeType' /\ \A r \in Runs : Moves(r)
           /\ UNCHANGED <<phase, held>>
           /\ \A r \in Runs : objs'[r] \subseteq objs[r] /\ lease'[r] \in {lease[r], "none"}
           /\ \A r \in Runs \ {q} : UNCHANGED <<objs[r], dying[r], lease[r]>>
<1>1. UNCHANGED <<phase, no_cleanup, held>>
  BY Zenon DEF reap_matching
<1>2. /\ (objs' = [objs EXCEPT ![q] = @ \ {k}] /\ dying' = [dying EXCEPT ![q] = @ \ {k}])
         \/ UNCHANGED <<objs, dying>>
      /\ lease' = [lease EXCEPT ![q] = "none"] \/ lease' = lease
  BY Zenon DEF reap_matching, Remove, SetLease
<1> DEFINE Taken == /\ objs' \in [Runs -> SUBSET Kinds] /\ dying' \in [Runs -> SUBSET Kinds]
                    /\ \A r \in Runs : /\ objs'[r] \subseteq objs[r]
                                       /\ r # q => objs'[r] = objs[r] /\ dying'[r] = dying[r]
<1>3. Taken
  <2>1. CASE UNCHANGED <<objs, dying>>
    BY <2>1, Zenon DEF LifeType
  <2>2. CASE objs' = [objs EXCEPT ![q] = @ \ {k}] /\ dying' = [dying EXCEPT ![q] = @ \ {k}]
    <3>1. objs' \in [Runs -> SUBSET Kinds]
      BY <2>2, Zenon DEF LifeType
    <3>2. dying' \in [Runs -> SUBSET Kinds]
      BY <2>2, Zenon DEF LifeType
    <3>3. ASSUME NEW r \in Runs PROVE objs'[r] \subseteq objs[r] /\ (r # q => objs'[r] = objs[r])
      BY <2>2, Zenon DEF LifeType
    <3>4. ASSUME NEW r \in Runs, r # q PROVE dying'[r] = dying[r]
      BY <2>2, <3>4, Zenon DEF LifeType
    <3> QED
      BY <3>1, <3>2, <3>3, <3>4, Zenon
  <2> QED
    BY <1>2, <2>1, <2>2, Zenon
<1>4. lease' \in [Runs -> Leases]
  BY <1>2, Zenon DEF LifeType
<1>6. ASSUME NEW r \in Runs
      PROVE  lease'[r] \in {lease[r], "none"} /\ (r # q => lease'[r] = lease[r])
  BY <1>2, Zenon DEF LifeType
<1>7. LifeType'
  BY <1>1, <1>3, <1>4, Zenon DEF LifeType
<1>8. \A r \in Runs : Moves(r)
  BY <1>1, <1>3, <1>6, Shrinks, Zenon
<1> QED
  BY <1>1, <1>3, <1>6, <1>7, <1>8, Zenon

(* What a delete of `ztest cleanup` does to the runs.                      *)
LEMMA DeleteMoves ==
    ASSUME LifeType, NEW q \in Runs, NEW k \in AllKinds, delete(q, k), mode' = mode
    PROVE  /\ no_cleanup' = no_cleanup /\ LifeType' /\ \A r \in Runs : Moves(r)
           /\ UNCHANGED <<phase, objs, held>>
           /\ \A r \in Runs \ {q} : dying'[r] = dying[r]
           /\ k \notin Kinds => dying' = dying
<1>1. UNCHANGED <<phase, objs, no_cleanup, held>>
  BY Zenon DEF delete
<1>2. /\ (k \in Kinds /\ dying' = [dying EXCEPT ![q] = @ \cup removal_of(q, k)]) \/ dying' = dying
      /\ lease' = [lease EXCEPT ![q] = "none"] \/ lease' = lease
  BY Zenon DEF delete, SetLease
<1>3. dying' \in [Runs -> SUBSET Kinds] /\ \A r \in Runs \ {q} : dying'[r] = dying[r]
  <2>1. CASE dying' = dying
    BY <2>1, Zenon DEF LifeType
  <2>2. CASE k \in Kinds /\ dying' = [dying EXCEPT ![q] = @ \cup removal_of(q, k)]
    <3>1. removal_of(q, k) \subseteq Kinds
      BY <2>2, Zenon DEF removal_of
    <3>2. dying' \in [Runs -> SUBSET Kinds]
      BY <2>2, <3>1, Zenon DEF LifeType
    <3>3. \A r \in Runs \ {q} : dying'[r] = dying[r]
      BY <2>2, Zenon DEF LifeType
    <3> QED
      BY <3>2, <3>3, Zenon
  <2> QED
    BY <1>2, <2>1, <2>2, Zenon
<1>4. lease' \in [Runs -> Leases] /\ \A r \in Runs : lease'[r] \in {lease[r], "none"}
  BY <1>2, Zenon DEF LifeType
<1>5. LifeType'
  BY <1>1, <1>3, <1>4, Zenon DEF LifeType
<1>6. \A r \in Runs : Moves(r)
  BY <1>1, <1>4, Shrinks, Zenon
<1> QED
  BY <1>1, <1>2, <1>3, <1>5, <1>6, Zenon

(* A cancelled run is over.                                                *)
LEMMA CancelMoves ==
    ASSUME LifeType, NEW q \in Runs, cancel_exit(q), mode' = mode
    PROVE  no_cleanup' = no_cleanup /\ LifeType' /\ \A r \in Runs : Moves(r)
<1>1. /\ UNCHANGED <<lease, objs, dying, no_cleanup, held>>
      /\ phase[q] \in {"between", "done"} /\ phase' = [phase EXCEPT ![q] = "done"]
  BY Zenon DEF cancel_exit
<1>2. phase' \in [Runs -> Phases] /\ phase'[q] = "done" /\ \A r \in Runs \ {q} : phase'[r] = phase[r]
  BY <1>1, Zenon DEF LifeType
<1>3. LifeType'
  BY <1>1, <1>2, Zenon DEF LifeType
<1>4. Moves(q)
  BY <1>1, <1>2, Zenon DEF Moves
<1>5. ASSUME NEW r \in Runs, r # q PROVE Moves(r)
  BY <1>1, <1>2, <1>5, Untouched, Zenon
<1> QED
  BY <1>1, <1>3, <1>4, <1>5, Zenon

(* A sweep that only reads.                                                *)
LEMMA ReadMoves ==
    ASSUME LifeType, UNCHANGED life, mode' = mode
    PROVE  no_cleanup' = no_cleanup /\ LifeType' /\ \A r \in Runs : Moves(r)
<1>1. UNCHANGED <<phase, lease, objs, dying, no_cleanup, held>>
  BY Zenon
<1>2. LifeType'
  BY <1>1, Zenon DEF LifeType
<1>3. \A r \in Runs : Moves(r)
  BY <1>1, Untouched, Zenon
<1> QED
  BY <1>1, <1>2, <1>3, Zenon

(* Whatever the step.                                                      *)
LEMMA StepMoves ==
    ASSUME LifeType, [ReaperNext]_reaper_vars
    PROVE  mode' = mode /\ no_cleanup' = no_cleanup /\ LifeType' /\ \A r \in Runs : Moves(r)
<1>0. mode' = mode
  BY Zenon DEF ReaperNext, History, reaper_vars
<1>1. CASE UNCHANGED life
  BY <1>0, <1>1, ReadMoves, Zenon
<1>2. ASSUME NEW q \in mode.runs, RunStep(q) \/ cancel_exit(q)
      PROVE  no_cleanup' = no_cleanup /\ LifeType' /\ \A r \in Runs : Moves(r)
  <2>1. q \in Runs
    BY <1>2, Zenon DEF LifeType
  <2> QED
    BY <1>0, <1>2, <2>1, RunMoves, CancelMoves, Zenon
<1>3. ASSUME NEW q \in Runs, NEW k \in AllKinds, reap_matching(q, k) \/ delete(q, k)
      PROVE  no_cleanup' = no_cleanup /\ LifeType' /\ \A r \in Runs : Moves(r)
  BY <1>0, <1>3, ReapMoves, DeleteMoves, Zenon
<1> QED
  <2>1. CASE UNCHANGED reaper_vars
    BY <2>1, <1>0, <1>1, Zenon DEF reaper_vars
  <2>2. CASE StartOrphans \/ StartCleanup \/ CancelTimesOut
    BY <2>2, <1>0, <1>1, Zenon DEF StartOrphans, StartCleanup, CancelTimesOut, Begin
  <2>3. CASE OrphanStep
    BY <2>3, <1>0, <1>1, <1>3, Zenon DEF OrphanStep, ListObjects, ListLeases, NextOrphan
  <2>4. CASE CleanupStep
    BY <2>4, <1>0, <1>1, <1>3, Zenon DEF CleanupStep, live_run_ids, discover
  <2> QED
    BY <1>0, <1>2, <2>1, <2>2, <2>3, <2>4, Zenon DEF ReaperNext

(* A run's life goes on as it should.                                      *)
LEMMA LifeStep ==
    ASSUME LifeType, LifeInv, [ReaperNext]_reaper_vars PROVE LifeInv'
<1> SUFFICES ASSUME NEW r \in Runs
             PROVE  /\ lease'[r] = "expired" => phase'[r] = "dead"
                    /\ held'[r] => no_cleanup'[r]
                    /\ phase'[r] = "idle" => objs'[r] = {}
                    /\ ~ mode'.builds => /\ phase'[r] \notin {"build", "between"}
                                         /\ phase'[r] = "done" => lease'[r] = "none"
  BY Zenon DEF LifeInv
<1>1. mode' = mode /\ no_cleanup' = no_cleanup /\ Moves(r) /\ lease'[r] \in Leases
  BY StepMoves, Zenon DEF LifeType
<1>2. /\ lease[r] = "expired" => phase[r] = "dead"
      /\ held[r] => no_cleanup[r]
      /\ phase[r] = "idle" => objs[r] = {}
      /\ ~ mode.builds => /\ phase[r] \notin {"build", "between"}
                          /\ phase[r] = "done" => lease[r] = "none"
  BY Zenon DEF LifeInv
<1>3. lease'[r] = "expired" => phase'[r] = "dead"
  BY <1>1, <1>2, Zenon DEF Moves
<1>4. phase'[r] = "idle" => objs'[r] = {}
  BY <1>1, <1>2, Zenon DEF Moves
<1>5. ~ mode'.builds => phase'[r] \notin {"build", "between"}
  BY <1>1, <1>2, Zenon DEF Moves
<1>6. ~ mode'.builds /\ phase'[r] = "done" => lease'[r] = "none"
  BY <1>1, <1>2, Zenon DEF Moves
<1> QED
  BY <1>1, <1>2, <1>3, <1>4, <1>5, <1>6, Zenon DEF Moves

-----------------------------------------------------------------------------
(* The sweeps.                                                             *)

LEMMA IdleFacts ==
    /\ Idle \in SweepType /\ Idle.pc = "idle" /\ Idle.force = FALSE /\ Idle.failed = FALSE
    /\ Idle.seen = {} /\ Idle.listed = {} /\ Idle.todo = {} /\ Idle.cur = {}
    /\ Idle.left = {}
  BY Zenon DEF Idle, SweepType

(* A reap of some runs, none of them begun.                                *)
LEMMA ReapingFacts ==
    ASSUME NEW X \in SUBSET Runs
    PROVE  /\ Reaping(X) \in SweepType
           /\ X = {} => Reaping(X) = Idle
           /\ X # {} => /\ Reaping(X).pc = "reap" /\ Reaping(X).todo = X /\ Reaping(X).cur = {}
                        /\ Reaping(X).left = {} /\ ~ Reaping(X).failed /\ ~ Reaping(X).force
<1>1. CASE X = {}
  BY <1>1, IdleFacts, Zenon DEF Reaping
<1>2. CASE X # {}
  <2> DEFINE q == [Idle EXCEPT !.pc = "reap", !.todo = X]
  <2>1. Reaping(X) = q
    BY <1>2, Zenon DEF Reaping
  <2>2. q \in SweepType
    BY Zenon DEF Idle, SweepType
  <2>3. q.pc = "reap" /\ q.todo = X /\ q.cur = {} /\ q.left = {} /\ ~ q.failed /\ ~ q.force
    BY Zenon DEF Idle
  <2> QED
    BY <1>2, <2>1, <2>2, <2>3, Zenon
<1> QED
  BY <1>1, <1>2, Zenon

(* The histories.  While a sweep is on, nobody joins them.                 *)
LEMMA HistoryStep ==
    ASSUME LifeType, HistoryInv, [ReaperNext]_reaper_vars
    PROVE  HistoryInv' /\ (s # Idle => steady' \subseteq steady /\ over' \subseteq over)
<1>0. \A r \in Runs : Moves(r)
  BY StepMoves, Zenon
<1>1. CASE UNCHANGED reaper_vars
  BY <1>1, Zenon DEF reaper_vars, HistoryInv
<1>2. CASE ReaperNext
  <2>1. /\ steady' \subseteq Runs /\ \A r \in steady' : lease'[r] = "live"
        /\ s # Idle => steady' \subseteq steady
    BY <1>2, Zenon DEF ReaperNext, History, HistoryInv
  <2>2. /\ s # Idle => over' \subseteq over
        /\ over' \subseteq over \cup {r \in Runs : phase[r] \in {"done", "dead"}}
    BY <1>2, Zenon DEF ReaperNext, History
  <2>3. over' \subseteq Runs /\ \A r \in over' : phase[r] \in {"done", "dead"}
    BY <2>2, Zenon DEF HistoryInv
  <2>4. \A r \in over' : phase'[r] \in {"done", "dead"}
    BY <1>0, <2>3, Zenon DEF Moves
  <2> QED
    BY <2>1, <2>2, <2>3, <2>4, Zenon DEF HistoryInv
<1> QED
  BY <1>1, <1>2, Zenon

SweepInv == s \in SweepType /\ ListInv /\ TodoInv /\ CurInv

(* The sweep is over, or is a pass of cleanup.                             *)
LEMMA Elsewhere ==
    ASSUME s' \in SweepType, s'.pc \notin {"list", "reap"} PROVE SweepInv'
  BY Zenon DEF SweepInv, ListInv, TodoInv, CurInv

(* A run moves while a sweep waits for an answer.                          *)
LEMMA Quiet ==
    ASSUME LifeType, LifeInv, HistoryInv, SweepInv, [ReaperNext]_reaper_vars, s' = s
    PROVE  SweepInv'
<1>0. mode' = mode /\ \A r \in Runs : Moves(r)
  BY StepMoves, Zenon
<1>1. s.pc # "idle" => steady' \subseteq steady /\ over' \subseteq over
  BY HistoryStep, IdleFacts, Zenon
<1>2. s \in SweepType /\ s' \in SweepType
  BY Zenon DEF SweepInv
<1>3. ASSUME NEW r \in over PROVE objs'[r] \cap Labelled \subseteq objs[r]
  <2>1. r \in Runs /\ phase[r] \in {"done", "dead"}
    BY <1>3, Zenon DEF HistoryInv
  <2>2. objs'[r] \cap Consumers \subseteq objs[r]
    BY <1>0, <2>1, Zenon DEF Moves
  <2> QED
    BY <2>2, Zenon
<1>4. ListInv'
  <2> SUFFICES ASSUME s.pc = "list"
               PROVE  /\ ~ s.force
                      /\ \A t \in s.seen : phase'[t[1]] # "idle"
                      /\ ~ mode.fails => \A r \in over', k \in Labelled \cap s.listed :
                                             k \in objs'[r] => <<r, k>> \in s.seen
    BY <1>0, Zenon DEF ListInv
  <2>0. ListInv
    BY Zenon DEF SweepInv
  <2>1. \A t \in s.seen : phase'[t[1]] # "idle"
    <3> SUFFICES ASSUME NEW t \in s.seen PROVE phase'[t[1]] # "idle"
      OBVIOUS
    <3>1. t[1] \in Runs
      BY <1>2, Zenon DEF SweepType
    <3> QED
      BY <1>0, <2>0, <3>1, Zenon DEF ListInv, Moves
  <2>2. ASSUME ~ mode.fails, NEW r \in over', NEW k \in Labelled \cap s.listed, k \in objs'[r]
        PROVE  <<r, k>> \in s.seen
    <3>1. r \in over /\ k \in objs[r]
      BY <1>1, <1>3, <2>2, Zenon
    <3> QED
      BY <2>0, <2>2, <3>1, Zenon DEF ListInv
  <2> QED
    BY <2>0, <2>1, <2>2, Zenon DEF ListInv
<1>5. TodoInv'
  <2> SUFFICES ASSUME s.pc = "reap"
               PROVE  /\ s.cur \subseteq s.todo /\ \A p, q \in s.cur : p = q
                      /\ s.force => \E r \in Runs : s.todo = {r}
                      /\ ~ s.force => s.todo \cap steady' = {}
                      /\ ~ mode.builds => \A r \in s.todo : phase'[r] # "idle" /\ lease'[r] # "live"
                      /\ ~ mode.fails => \A r \in s.todo \cap over' :
                                             held'[r] => objs'[r] \cap Labelled = {}
    BY <1>0, Zenon DEF TodoInv
  <2>0. TodoInv
    BY Zenon DEF SweepInv
  <2>1. ~ s.force => s.todo \cap steady' = {}
    BY <1>1, <2>0, Zenon DEF TodoInv
  <2>2. ASSUME ~ mode.builds, NEW r \in s.todo PROVE phase'[r] # "idle" /\ lease'[r] # "live"
    <3>1. r \in Runs
      BY <1>2, Zenon DEF SweepType
    <3>2. phase[r] # "idle" /\ lease[r] # "live"
      BY <2>0, <2>2, Zenon DEF TodoInv
    <3>3. phase[r] # "between"
      BY <2>2, <3>1, Zenon DEF LifeInv
    <3> QED
      BY <1>0, <3>1, <3>2, <3>3, Zenon DEF Moves
  <2>3. ASSUME ~ mode.fails, NEW r \in s.todo \cap over', held'[r]
        PROVE  objs'[r] \cap Labelled = {}
    <3>1. r \in over /\ r \in Runs
      BY <1>1, Zenon DEF HistoryInv
    <3>2. held[r]
      BY <1>0, <2>3, <3>1, Zenon DEF Moves
    <3>3. objs[r] \cap Labelled = {}
      BY <2>0, <2>3, <3>1, <3>2, Zenon DEF TodoInv
    <3> QED
      BY <1>3, <3>1, <3>3, Zenon
  <2> QED
    BY <2>0, <2>1, <2>2, <2>3, Zenon DEF TodoInv
<1>6. CurInv'
  <2> SUFFICES ASSUME s.pc = "reap"
               PROVE  /\ \/ s.left \subseteq Consumers \/ s.left = {"vsc"}
                         \/ s.left = {"lease"} /\ ~ s.failed
                      /\ ~ mode.builds /\ ~ s.failed =>
                            \A r \in s.cur : lease'[r] = "expired" => Reaped(r)'
    BY <1>0, Zenon DEF CurInv
  <2>0. CurInv /\ TodoInv
    BY Zenon DEF SweepInv
  <2>1. ASSUME ~ mode.builds, ~ s.failed, NEW r \in s.cur, lease'[r] = "expired" PROVE Reaped(r)'
    <3>1. r \in s.todo /\ r \in Runs
      BY <1>2, <2>0, Zenon DEF SweepType, TodoInv
    <3>2. lease[r] # "live"
      BY <2>0, <2>1, <3>1, Zenon DEF TodoInv
    <3>3. lease[r] = "expired"
      BY <1>0, <2>1, <3>1, <3>2, Zenon DEF Moves
    <3>4. phase[r] = "dead"
      BY <3>1, <3>3, Zenon DEF LifeInv
    <3>5. Reaped(r)
      BY <2>0, <2>1, <3>3, Zenon DEF CurInv
    <3>6. /\ objs'[r] \cap Consumers \subseteq objs[r]
          /\ ~ (Labelled \subseteq objs[r]) => objs'[r] \subseteq objs[r]
      BY <1>0, <3>1, <3>4, Zenon DEF Moves
    <3>7. CASE s.left \subseteq Consumers /\ objs[r] \cap Consumers \subseteq s.left
      BY <3>6, <3>7, Zenon DEF Reaped
    <3>8. CASE s.left = {"vsc"} /\ objs[r] \cap Consumers = {}
      BY <3>6, <3>8, Zenon DEF Reaped
    <3>9. CASE s.left = {"lease"} /\ objs[r] = {}
      <4>1. objs'[r] = {}
        BY <3>6, <3>9, Zenon
      <4> QED
        BY <3>9, <4>1, Zenon DEF Reaped
    <3> QED
      BY <3>5, <3>7, <3>8, <3>9, Zenon DEF Reaped
  <2> QED
    BY <2>0, <2>1, Zenon DEF CurInv
<1> QED
  BY <1>2, <1>4, <1>5, <1>6, Zenon DEF SweepInv

(* reap_orphans begins.                                                    *)
LEMMA StartStep ==
    ASSUME StartOrphans PROVE SweepInv'
<1>1. s' = [Idle EXCEPT !.pc = "list"]
  BY Zenon DEF StartOrphans, Begin
<1>2. s' \in SweepType
  BY <1>1, Zenon DEF Idle, SweepType
<1>3. s'.pc = "list" /\ s'.force = FALSE /\ s'.seen = {} /\ s'.listed = {}
  BY <1>1, Zenon DEF Idle
<1>4. ListInv'
  BY <1>3, Zenon DEF ListInv
<1>5. TodoInv' /\ CurInv'
  BY <1>3, Zenon DEF TodoInv, CurInv
<1> QED
  BY <1>2, <1>4, <1>5, Zenon DEF SweepInv

(* One of its lists of objects.                                            *)
LEMMA ListStep ==
    ASSUME LifeType, LifeInv, HistoryInv, SweepInv, [ReaperNext]_reaper_vars,
           NEW k \in Kinds, ListObjects(k)
    PROVE  SweepInv'
<1>0. UNCHANGED <<phase, objs>> /\ mode' = mode /\ s.pc = "list" /\ k \notin s.listed
  BY StepMoves, Zenon DEF ListObjects
<1>1. s \in SweepType /\ ListInv
  BY Zenon DEF SweepInv
<1>2. s # Idle /\ over' \subseteq over
  BY <1>0, HistoryStep, IdleFacts, Zenon
<1>3. PICK ok \in Outcomes :
          s' = [s EXCEPT !.listed = @ \cup {k},
                         !.seen = @ \cup {<<r, k>> : r \in {q \in Runs : ok /\ k \in objs[q]}}]
  BY Zenon DEF ListObjects
<1> DEFINE new == {<<r, k>> : r \in {q \in Runs : ok /\ k \in objs[q]}}
<1>4. ASSUME NEW t \in new
      PROVE  t \in Runs \X AllKinds /\ t[1] \in Runs /\ k \in objs[t[1]]
  <2>1. PICK r \in {q \in Runs : ok /\ k \in objs[q]} : t = <<r, k>>
    BY <1>4, Zenon
  <2> QED
    BY <2>1
<1>5. ~ mode.fails => ok
  BY Zenon DEF Outcomes
<1>6. \A r \in Runs : ok /\ k \in objs[r] => <<r, k>> \in new
  BY Zenon
<1> HIDE DEF new
<1>7. s' = [s EXCEPT !.listed = @ \cup {k}, !.seen = @ \cup new]
  BY <1>3, Zenon DEF new
<1>8. s' \in SweepType
  BY <1>1, <1>4, <1>7, Zenon DEF SweepType
<1>9. s'.pc = "list" /\ s'.force = s.force /\ s'.seen = s.seen \cup new /\ s'.listed = s.listed \cup {k}
  BY <1>0, <1>1, <1>7, Zenon DEF SweepType
<1>10. \A t \in new : phase[t[1]] # "idle"
  BY <1>4, Zenon DEF LifeInv
<1>11. ASSUME ~ mode.fails, NEW r \in over', NEW j \in Labelled \cap s'.listed, j \in objs[r]
       PROVE  <<r, j>> \in s'.seen
  <2>1. r \in over /\ r \in Runs
    BY <1>2, Zenon DEF HistoryInv
  <2>2. CASE j = k
    BY <1>5, <1>6, <1>9, <1>11, <2>1, <2>2, Zenon
  <2>3. CASE j # k
    BY <1>0, <1>1, <1>9, <1>11, <2>1, <2>3, Zenon DEF ListInv
  <2> QED
    BY <2>2, <2>3, Zenon
<1>12. ListInv'
  BY <1>0, <1>1, <1>9, <1>10, <1>11, Zenon DEF ListInv
<1>13. TodoInv' /\ CurInv'
  BY <1>9, Zenon DEF TodoInv, CurInv
<1> QED
  BY <1>8, <1>12, <1>13, Zenon DEF SweepInv

(* The list of leases, and whom the sweep finds orphaned.                  *)
LEMMA OrphansStep ==
    ASSUME LifeType, LifeInv, HistoryInv, SweepInv, [ReaperNext]_reaper_vars, ListLeases
    PROVE  SweepInv'
<1>0. UNCHANGED <<phase, lease, objs, held>> /\ mode' = mode /\ s.pc = "list" /\ s.listed = Kinds
  BY StepMoves, Zenon DEF ListLeases
<1>1. s \in SweepType /\ ListInv
  BY Zenon DEF SweepInv
<1>2. HistoryInv' /\ s # Idle /\ over' \subseteq over
  BY <1>0, HistoryStep, IdleFacts, Zenon
<1>3. CASE s' = Idle
  BY <1>3, Elsewhere, IdleFacts, Zenon
<1>4. CASE s' = Reaping(orphaned_runs(live_now))
  <2> DEFINE X == orphaned_runs(live_now)
  <2>1. X \in SUBSET Runs
    BY Zenon DEF orphaned_runs
  <2>2. \A r \in X : /\ lease[r] # "live"
                     /\ \E k \in Kinds : <<r, k>> \in s.seen
                     /\ ~ (held[r] /\ \E k \in Labelled : <<r, k>> \in s.seen)
    BY Zenon DEF orphaned_runs, live_now
  <2> HIDE DEF X
  <2>3. CASE X = {}
    BY <1>3, <1>4, <2>1, <2>3, ReapingFacts, Zenon DEF X
  <2>4. CASE X # {}
    <3>1. /\ s' \in SweepType /\ s'.pc = "reap" /\ s'.todo = X /\ s'.cur = {} /\ s'.left = {}
          /\ ~ s'.failed /\ ~ s'.force
      BY <1>4, <2>1, <2>4, ReapingFacts, Zenon DEF X
    <3>2. \A r \in X : phase[r] # "idle"
      <4> SUFFICES ASSUME NEW r \in X PROVE phase[r] # "idle"
        OBVIOUS
      <4>1. PICK k \in Kinds : <<r, k>> \in s.seen
        BY <2>2, Zenon
      <4> QED
        BY <1>0, <1>1, <4>1 DEF ListInv
    <3>3. X \cap steady' = {}
      BY <1>0, <1>2, <2>2, Zenon DEF HistoryInv
    <3>4. ASSUME ~ mode.fails, NEW r \in X \cap over', held[r] PROVE objs[r] \cap Labelled = {}
      BY <1>0, <1>1, <1>2, <2>2, <3>4, Zenon DEF ListInv
    <3>5. TodoInv'
      BY <1>0, <2>2, <3>1, <3>2, <3>3, <3>4, Zenon DEF TodoInv
    <3>6. ListInv' /\ CurInv'
      BY <3>1, Zenon DEF ListInv, CurInv
    <3> QED
      BY <3>1, <3>5, <3>6, Zenon DEF SweepInv
  <2> QED
    BY <2>3, <2>4, Zenon
<1> QED
  BY <1>3, <1>4, Zenon DEF ListLeases

(* The next orphan's turn.                                                 *)
LEMMA NextStep ==
    ASSUME LifeType, LifeInv, HistoryInv, SweepInv, [ReaperNext]_reaper_vars,
           NEW q \in Runs, NextOrphan(q)
    PROVE  SweepInv'
<1>0. /\ UNCHANGED <<phase, lease, objs, held>> /\ mode' = mode /\ s.pc = "reap" /\ q \in s.todo
      /\ s' = [s EXCEPT !.cur = {q}, !.left = Consumers, !.failed = FALSE]
  BY StepMoves, Zenon DEF NextOrphan
<1>1. s \in SweepType /\ TodoInv
  BY Zenon DEF SweepInv
<1>2. s # Idle /\ over' \subseteq over /\ steady' \subseteq steady
  BY <1>0, HistoryStep, IdleFacts, Zenon
<1>3. s' \in SweepType
  BY <1>0, <1>1, Zenon DEF SweepType
<1>4. /\ s'.pc = "reap" /\ s'.todo = s.todo /\ s'.cur = {q} /\ s'.left = Consumers
      /\ ~ s'.failed /\ s'.force = s.force
  BY <1>0, <1>1, Zenon DEF SweepType
<1>5. TodoInv'
  BY <1>0, <1>1, <1>2, <1>4, Zenon DEF TodoInv
<1>6. CurInv'
  BY <1>4, Zenon DEF CurInv, Reaped
<1>7. ListInv'
  BY <1>4, Zenon DEF ListInv
<1> QED
  BY <1>3, <1>5, <1>6, <1>7, Zenon DEF SweepInv

(* A cancelled run reaps itself.                                           *)
LEMMA CancelStep ==
    ASSUME LifeType, LifeInv, HistoryInv, SweepInv, [ReaperNext]_reaper_vars,
           NEW q \in Runs, cancel_exit(q)
    PROVE  SweepInv'
<1>0. /\ UNCHANGED <<lease, objs, held>> /\ mode' = mode /\ ~ no_cleanup[q]
      /\ s' = [Reaping({q}) EXCEPT !.force = TRUE]
      /\ phase[q] \in {"between", "done"} /\ phase' = [phase EXCEPT ![q] = "done"]
  BY StepMoves, Zenon DEF cancel_exit
<1> DEFINE p == Reaping({q})
<1>1. p \in SweepType /\ p.pc = "reap" /\ p.todo = {q} /\ p.cur = {} /\ p.left = {} /\ ~ p.failed
  BY ReapingFacts, Zenon
<1> HIDE DEF p
<1>2. s' = [p EXCEPT !.force = TRUE]
  BY <1>0, Zenon DEF p
<1>3. s' \in SweepType
  BY <1>1, <1>2, Zenon DEF SweepType
<1>4. s'.pc = "reap" /\ s'.todo = {q} /\ s'.cur = {} /\ s'.left = {} /\ s'.force = TRUE
  BY <1>1, <1>2, Zenon DEF SweepType
<1>5. phase'[q] = "done" /\ ~ held'[q]
  BY <1>0, Zenon DEF LifeType, LifeInv
<1>6. ~ mode.builds => lease'[q] # "live"
  BY <1>0, Zenon DEF LifeInv
<1>7. TodoInv'
  BY <1>0, <1>4, <1>5, <1>6, Zenon DEF TodoInv
<1>8. CurInv' /\ ListInv'
  BY <1>4, Zenon DEF CurInv, ListInv
<1> QED
  BY <1>3, <1>7, <1>8, Zenon DEF SweepInv

(* One reap_matching.                                                      *)
LEMMA ReapStep ==
    ASSUME LifeType, LifeInv, HistoryInv, SweepInv, [ReaperNext]_reaper_vars,
           NEW q \in Runs, NEW k \in AllKinds, reap_matching(q, k)
    PROVE  SweepInv'
<1>0. mode' = mode /\ s.pc = "reap" /\ q \in s.cur /\ k \in s.left
  BY StepMoves, Zenon DEF reap_matching
<1>1. /\ UNCHANGED <<phase, held>>
      /\ \A r \in Runs : objs'[r] \subseteq objs[r] /\ lease'[r] \in {lease[r], "none"}
  BY <1>0, ReapMoves, Zenon
<1>2. s \in SweepType /\ TodoInv /\ CurInv
  BY Zenon DEF SweepInv
<1>3. s # Idle /\ over' \subseteq over /\ steady' \subseteq steady
  BY <1>0, HistoryStep, IdleFacts, Zenon
<1>4. PICK ok \in Outcomes :
        LET failed == s.failed \/ ~ ok
            left == after_reaping(s.left \ {k}, failed)
        IN  /\ ok /\ k \in Kinds => objs' = [objs EXCEPT ![q] = @ \ {k}]
            /\ s' = IF left = {} THEN Reaping(s.todo \ {q})
                                 ELSE [s EXCEPT !.left = left, !.failed = failed]
  BY Zenon DEF reap_matching, Remove
<1> DEFINE failed == s.failed \/ ~ ok
           left == after_reaping(s.left \ {k}, failed)
<1>5. ASSUME NEW X \in SUBSET s.todo
      PROVE  /\ ~ mode.builds => \A r \in X : phase'[r] # "idle" /\ lease'[r] # "live"
             /\ ~ mode.fails => \A r \in X \cap over' : held'[r] => objs'[r] \cap Labelled = {}
             /\ ~ s.force => X \cap steady' = {}
  <2>1. X \subseteq Runs
    BY <1>2, Zenon DEF SweepType
  <2>2. ~ s.force => X \cap steady' = {}
    BY <1>0, <1>2, <1>3, Zenon DEF TodoInv
  <2>3. ASSUME ~ mode.builds, NEW r \in X PROVE phase'[r] # "idle" /\ lease'[r] # "live"
    BY <1>0, <1>1, <1>2, <2>1, <2>3, Zenon DEF TodoInv
  <2>4. ASSUME ~ mode.fails, NEW r \in X \cap over', held'[r] PROVE objs'[r] \cap Labelled = {}
    <3>1. objs[r] \cap Labelled = {}
      BY <1>0, <1>1, <1>2, <1>3, <2>4, Zenon DEF TodoInv
    <3> QED
      BY <1>1, <2>1, <3>1, Zenon
  <2> QED
    BY <2>2, <2>3, <2>4, Zenon
<1>6. CASE left = {}
  <2> DEFINE X == s.todo \ {q}
  <2>1. s' = Reaping(X)
    BY <1>4, <1>6, Zenon
  <2>2. X \in SUBSET Runs
    BY <1>2, Zenon DEF SweepType
  <2>3. X # {} => ~ s.force
    BY <1>0, <1>2, Zenon DEF TodoInv
  <2>4. CASE X = {}
    BY <2>1, <2>2, <2>4, ReapingFacts, IdleFacts, Elsewhere, Zenon
  <2>5. CASE X # {}
    <3> HIDE DEF X
    <3>1. /\ s' \in SweepType /\ s'.pc = "reap" /\ s'.todo = X /\ s'.cur = {} /\ s'.left = {}
          /\ ~ s'.failed /\ ~ s'.force
      BY <2>1, <2>2, <2>5, ReapingFacts, Zenon
    <3>2. X \in SUBSET s.todo /\ ~ s.force
      BY <2>3, <2>5, Zenon DEF X
    <3>3. TodoInv'
      BY <1>0, <1>5, <3>1, <3>2, Zenon DEF TodoInv
    <3>4. ListInv' /\ CurInv'
      BY <3>1, Zenon DEF ListInv, CurInv
    <3> QED
      BY <3>1, <3>3, <3>4, Zenon DEF SweepInv
  <2> QED
    BY <2>4, <2>5, Zenon
<1>7. CASE left # {}
  <2>1. s' = [s EXCEPT !.left = left, !.failed = failed]
    BY <1>4, <1>7, Zenon
  <2>2. \/ left = s.left \ {k} /\ left \subseteq Consumers
        \/ s.left = {k} /\ k \in Consumers /\ left = {"vsc"}
        \/ s.left = {"vsc"} /\ k = "vsc" /\ ~ failed /\ left = {"lease"}
    <3>1. CASE s.left \subseteq Consumers
      BY <1>0, <1>7, <3>1, Zenon DEF after_reaping
    <3>2. CASE s.left = {"vsc"}
      BY <1>0, <1>7, <3>2, Zenon DEF after_reaping
    <3>3. CASE s.left = {"lease"}
      BY <1>0, <1>7, <3>3, Zenon DEF after_reaping
    <3> QED
      BY <1>0, <1>2, <3>1, <3>2, <3>3, Zenon DEF CurInv
  <2>3. failed \in BOOLEAN /\ left \subseteq AllKinds
    BY <2>2, Zenon
  <2>4. failed = FALSE => ~ s.failed /\ ok
    BY Zenon
  <2> HIDE DEF left, failed
  <2>5. s' \in SweepType
    BY <1>2, <2>1, <2>3, Zenon DEF SweepType
  <2>6. /\ s'.pc = "reap" /\ s'.todo = s.todo /\ s'.cur = s.cur /\ s'.left = left
        /\ s'.failed = failed /\ s'.force = s.force
    BY <1>0, <1>2, <2>1, Zenon DEF SweepType
  <2>7. TodoInv'
    <3>1. s.force => \E r \in Runs : s.todo = {r}
      BY <1>0, <1>2, Zenon DEF TodoInv
    <3>2. /\ ~ mode.builds => \A r \in s.todo : phase'[r] # "idle" /\ lease'[r] # "live"
          /\ ~ mode.fails => \A r \in s.todo \cap over' : held'[r] => objs'[r] \cap Labelled = {}
          /\ ~ s.force => s.todo \cap steady' = {}
      BY <1>5, Zenon
    <3> QED
      BY <1>0, <1>2, <2>6, <3>1, <3>2, Zenon DEF TodoInv
  <2>8. ASSUME ~ mode.builds, ~ failed, lease'[q] = "expired" PROVE Reaped(q)'
    <3>1. ~ s.failed /\ ok /\ lease[q] = "expired"
      BY <1>1, <2>3, <2>4, <2>8, Zenon
    <3>2. Reaped(q)
      BY <1>0, <1>2, <2>8, <3>1, Zenon DEF CurInv
    <3>3. CASE left = s.left \ {k} /\ left \subseteq Consumers
      <4>1. k \in Consumers /\ objs[q] \cap Consumers \subseteq s.left
        BY <1>0, <1>7, <3>2, <3>3, Zenon DEF Reaped
      <4>2. objs'[q] = objs[q] \ {k}
        BY <1>4, <3>1, <4>1, Zenon DEF LifeType
      <4> QED
        BY <2>6, <3>3, <4>1, <4>2, Zenon DEF Reaped
    <3>4. CASE s.left = {k} /\ k \in Consumers /\ left = {"vsc"}
      <4>1. objs[q] \cap Consumers \subseteq {k}
        BY <3>2, <3>4, Zenon DEF Reaped
      <4>2. objs'[q] = objs[q] \ {k}
        BY <1>4, <3>1, <3>4, Zenon DEF LifeType
      <4> QED
        BY <2>6, <3>4, <4>1, <4>2, Zenon DEF Reaped
    <3>5. CASE s.left = {"vsc"} /\ k = "vsc" /\ left = {"lease"}
      <4>1. objs[q] \cap Consumers = {}
        BY <3>2, <3>5, Zenon DEF Reaped
      <4>2. objs'[q] = objs[q] \ {k} /\ objs[q] \subseteq Kinds
        BY <1>4, <3>1, <3>5, Zenon DEF LifeType
      <4> QED
        BY <2>6, <3>5, <4>1, <4>2, Zenon DEF Reaped
    <3> QED
      BY <2>2, <3>3, <3>4, <3>5, Zenon
  <2>9. CurInv'
    <3>1. \A r \in s.cur : r = q
      BY <1>0, <1>2, Zenon DEF TodoInv
    <3> QED
      BY <1>0, <2>2, <2>6, <2>8, <3>1, Zenon DEF CurInv
  <2>10. ListInv'
    BY <2>6, Zenon DEF ListInv
  <2> QED
    BY <2>5, <2>7, <2>9, <2>10, Zenon DEF SweepInv
<1> QED
  BY <1>6, <1>7, Zenon

(* A pass of cleanup, and a cancelled run that stops waiting.              *)
LEMMA CleanupType ==
    ASSUME SweepInv,
           \/ CancelTimesOut \/ StartCleanup \/ CleanupStep
    PROVE  SweepInv'
<1>0. s \in SweepType
  BY Zenon DEF SweepInv
<1>1. CASE s' = Idle
  BY <1>1, Elsewhere, IdleFacts, Zenon
<1>2. CASE StartCleanup
  <2>1. PICK force \in BOOLEAN : s' = [Idle EXCEPT !.pc = "live", !.force = force]
    BY <1>2, Zenon DEF StartCleanup, Begin
  <2>2. s' \in SweepType /\ s'.pc = "live"
    BY <2>1, Zenon DEF Idle, SweepType
  <2> QED
    BY <2>2, Elsewhere, Zenon
<1>3. CASE live_run_ids
  <2>1. PICK L \in SUBSET Runs : s' = [s EXCEPT !.pc = "discover", !.live = L]
    BY <1>3, Zenon DEF live_run_ids, live_now
  <2>2. s' \in SweepType /\ s'.pc = "discover"
    BY <1>0, <2>1, Zenon DEF SweepType
  <2> QED
    BY <2>2, Elsewhere, Zenon
<1>4. ASSUME NEW k \in AllKinds, discover(k), s' # Idle PROVE SweepInv'
  <2>1. PICK ok \in Outcomes :
          LET seen == s.seen \cup {<<r, k>> : r \in {q \in Runs : ok /\ Reclaimable(q, k)}}
          IN  s' = IF k # "lease" THEN [s EXCEPT !.listed = @ \cup {k}, !.seen = seen]
                   ELSE IF seen = {} THEN Idle
                   ELSE [Idle EXCEPT !.pc = "delete", !.seen = seen, !.force = s.force]
    BY <1>4, Zenon DEF discover
  <2> DEFINE seen == s.seen \cup {<<r, k>> : r \in {q \in Runs : ok /\ Reclaimable(q, k)}}
  <2>2. seen \subseteq Runs \X AllKinds /\ s.pc = "discover"
    BY <1>0, <1>4 DEF SweepType, discover
  <2>3. \/ s' = [s EXCEPT !.listed = @ \cup {k}, !.seen = seen]
        \/ s' = [Idle EXCEPT !.pc = "delete", !.seen = seen, !.force = s.force]
    BY <1>4, <2>1, Zenon
  <2> HIDE DEF seen
  <2>4. CASE s' = [s EXCEPT !.listed = @ \cup {k}, !.seen = seen]
    <3>1. s' \in SweepType /\ s'.pc = "discover"
      BY <1>0, <2>2, <2>4, Zenon DEF SweepType
    <3> QED
      BY <3>1, Elsewhere, Zenon
  <2>5. CASE s' = [Idle EXCEPT !.pc = "delete", !.seen = seen, !.force = s.force]
    <3>0. s.force \in BOOLEAN
      BY <1>0, Zenon DEF SweepType
    <3>1. s' \in SweepType /\ s'.pc = "delete"
      BY <2>2, <2>5, <3>0, Zenon DEF SweepType, Idle
    <3> QED
      BY <3>1, Elsewhere, Zenon
  <2> QED
    BY <2>3, <2>4, <2>5, Zenon
<1>5. ASSUME NEW q \in Runs, NEW k \in AllKinds, delete(q, k), s' # Idle PROVE SweepInv'
  <2>1. PICK seen \in SUBSET s.seen : s' = [s EXCEPT !.seen = seen]
    BY <1>5, Zenon DEF delete
  <2>2. s.pc = "delete" /\ seen \in SUBSET (Runs \X AllKinds)
    BY <1>0, <1>5, Zenon DEF SweepType, delete
  <2>3. s' \in SweepType /\ s'.pc = "delete"
    BY <1>0, <2>1, <2>2, Zenon DEF SweepType
  <2> QED
    BY <2>3, Elsewhere, Zenon
<1> QED
  BY <1>1, <1>2, <1>3, <1>4, <1>5, Zenon DEF CancelTimesOut, CleanupStep

LEMMA SweepStep ==
    ASSUME LifeType, LifeInv, HistoryInv, SweepInv, [ReaperNext]_reaper_vars
    PROVE  SweepInv'
<1>1. CASE UNCHANGED reaper_vars
  BY <1>1, Quiet, Zenon DEF reaper_vars
<1>2. ASSUME NEW r \in mode.runs, RunStep(r) PROVE SweepInv'
  <2>1. r \in Runs /\ mode' = mode
    BY StepMoves, Zenon DEF LifeType
  <2>2. s' = s
    BY <1>2, <2>1, RunMoves, Zenon
  <2> QED
    BY <2>2, Quiet, Zenon
<1>3. ASSUME NEW r \in mode.runs, cancel_exit(r) PROVE SweepInv'
  <2>1. r \in Runs
    BY Zenon DEF LifeType
  <2> QED
    BY <1>3, <2>1, CancelStep, Zenon
<1>4. CASE OrphanStep
  BY <1>4, ListStep, OrphansStep, NextStep, ReapStep, Zenon DEF OrphanStep
<1>5. CASE StartOrphans
  BY <1>5, StartStep, Zenon
<1>6. CASE CancelTimesOut \/ StartCleanup \/ CleanupStep
  BY <1>6, CleanupType, Zenon
<1> QED
  BY <1>1, <1>2, <1>3, <1>4, <1>5, <1>6, Zenon DEF ReaperNext

LEMMA ReaperInvInit == ASSUME ReaperInit PROVE ReaperInv
<1>1. phase \in [Runs -> Phases] /\ lease \in [Runs -> Leases] /\ objs \in [Runs -> SUBSET Kinds]
  BY DEF ReaperInit
<1>2. dying \in [Runs -> SUBSET Kinds] /\ mode \in Modes /\ held = no_cleanup /\ s = Idle
  BY Zenon DEF ReaperInit
<1>3. mode.runs \subseteq Runs
  BY <1>2, ModesAssumption, Zenon DEF ModeType
<1>4. no_cleanup \in [Runs -> BOOLEAN]
  <2>1. CASE mode.holds
    BY <2>1, Zenon DEF ReaperInit
  <2>2. CASE ~ mode.holds
    <3>1. no_cleanup \in [Runs -> {FALSE}]
      BY <2>2, Zenon DEF ReaperInit
    <3> QED
      BY <3>1, Zenon
  <2> QED
    BY <2>1, <2>2, Zenon
<1>5. LifeType
  BY <1>1, <1>2, <1>3, <1>4, Zenon DEF LifeType
<1>6. ASSUME NEW r \in Runs
      PROVE  /\ phase[r] \in {"idle", "dead"} /\ lease[r] \in {"none", "live"}
             /\ phase[r] = "idle" => objs[r] = {}
  BY DEF ReaperInit
<1>7. LifeInv
  BY <1>2, <1>6, Zenon DEF LifeInv
<1>8. HistoryInv
  BY Zenon DEF ReaperInit, HistoryInv
<1>9. s \in SweepType /\ ListInv /\ TodoInv /\ CurInv
  BY <1>2, IdleFacts, Zenon DEF ListInv, TodoInv, CurInv
<1> QED
  BY <1>5, <1>7, <1>8, <1>9, Zenon DEF ReaperInv

LEMMA ReaperInvStep == ASSUME ReaperInv, [ReaperNext]_reaper_vars PROVE ReaperInv'
<1>1. LifeType /\ LifeInv /\ HistoryInv /\ SweepInv
  BY Zenon DEF ReaperInv, SweepInv
<1>2. LifeType' /\ LifeInv' /\ HistoryInv' /\ SweepInv'
  BY <1>1, StepMoves, LifeStep, HistoryStep, SweepStep, Zenon
<1> QED
  BY <1>2, Zenon DEF ReaperInv, SweepInv

LEMMA ReaperInvHolds == ReaperSpec => []ReaperInv
  BY ReaperInvInit, ReaperInvStep, PTL DEF ReaperSpec

-----------------------------------------------------------------------------
(* The properties.                                                         *)

(* Only a reap and a cleanup's delete take anything of a run's.            *)
LEMMA WhoCondemns ==
    ASSUME LifeType, [ReaperNext]_reaper_vars, NEW r \in Runs, Condemns(r)
    PROVE  \/ s.pc = "reap" /\ r \in s.cur
           \/ s.pc = "delete" /\ \E k \in Kinds : <<r, k>> \in s.seen
<1>0. s' # s /\ (objs'[r] # objs[r] \/ dying'[r] # dying[r]) /\ mode' = mode
  BY StepMoves, Zenon DEF Condemns
<1>1. CASE UNCHANGED <<objs, dying>>
  BY <1>0, <1>1, Zenon
<1>2. ASSUME NEW q \in mode.runs, RunStep(q) PROVE FALSE
  <2>1. q \in Runs
    BY Zenon DEF LifeType
  <2> QED
    BY <1>0, <1>2, <2>1, RunMoves, Zenon
<1>3. ASSUME NEW q \in Runs, NEW k \in AllKinds, reap_matching(q, k)
      PROVE  s.pc = "reap" /\ r \in s.cur
  <2>1. s.pc = "reap" /\ q \in s.cur
    BY <1>3, Zenon DEF reap_matching
  <2>2. r = q
    BY <1>0, <1>3, ReapMoves, Zenon
  <2> QED
    BY <2>1, <2>2, Zenon
<1>4. ASSUME NEW q \in Runs, NEW k \in AllKinds, delete(q, k)
      PROVE  s.pc = "delete" /\ \E j \in Kinds : <<r, j>> \in s.seen
  <2>1. s.pc = "delete" /\ <<q, k>> \in s.seen
    BY <1>4, Zenon DEF delete
  <2>2. r = q /\ k \in Kinds
    BY <1>0, <1>4, DeleteMoves, Zenon
  <2> QED
    BY <2>1, <2>2, Zenon
<1>5. ASSUME NEW q, cancel_exit(q) PROVE UNCHANGED <<objs, dying>>
  BY <1>5, Zenon DEF cancel_exit
<1>6. ASSUME UNCHANGED life PROVE UNCHANGED <<objs, dying>>
  BY <1>6, Zenon
<1>7. ASSUME OrphanStep, ~ UNCHANGED life
      PROVE  \E q \in Runs, k \in AllKinds : reap_matching(q, k)
  BY <1>7, Zenon DEF OrphanStep, ListObjects, ListLeases, NextOrphan
<1>8. ASSUME CleanupStep, ~ UNCHANGED life
      PROVE  \E q \in Runs, k \in AllKinds : delete(q, k)
  BY <1>8, Zenon DEF CleanupStep, live_run_ids, discover
<1>9. StartOrphans \/ StartCleanup \/ CancelTimesOut => UNCHANGED life
  BY Zenon DEF StartOrphans, StartCleanup, CancelTimesOut, Begin
<1>10. ReaperNext
  BY <1>0, Zenon DEF reaper_vars
<1> QED
  BY <1>1, <1>2, <1>3, <1>4, <1>5, <1>6, <1>7, <1>8, <1>9, <1>10, Zenon DEF ReaperNext

(* A step of a reap that takes a lease is reap_matching of that lease.     *)
LEMMA WhoTakesLease ==
    ASSUME LifeType, [ReaperNext]_reaper_vars, s.pc = "reap", s' # s,
           NEW r \in Runs, lease[r] # "none", lease'[r] = "none"
    PROVE  reap_matching(r, "lease")
<1>0. mode' = mode /\ "none" # lease[r] /\ lease'[r] # lease[r]
  BY StepMoves, Zenon
<1>2. ASSUME NEW q \in mode.runs, RunStep(q) PROVE FALSE
  <2>1. q \in Runs
    BY Zenon DEF LifeType
  <2> QED
    BY <1>0, <1>2, <2>1, RunMoves, Zenon
<1>3. ASSUME NEW q \in Runs, NEW k \in AllKinds, reap_matching(q, k) PROVE q = r /\ k = "lease"
  <2>1. q = r
    BY <1>0, <1>3, ReapMoves, Zenon
  <2>2. k = "lease"
    BY <1>0, <1>3, Zenon DEF reap_matching
  <2> QED
    BY <2>1, <2>2, Zenon
<1>4. ASSUME NEW q, cancel_exit(q) PROVE UNCHANGED lease
  BY <1>4, Zenon DEF cancel_exit
<1>5. ASSUME UNCHANGED life PROVE UNCHANGED lease
  BY <1>5, Zenon
<1>6. ASSUME OrphanStep, ~ UNCHANGED life
      PROVE  \E q \in Runs, k \in AllKinds : reap_matching(q, k)
  BY <1>6, Zenon DEF OrphanStep, ListObjects, ListLeases, NextOrphan
<1>7. CleanupStep => FALSE
  BY Zenon DEF CleanupStep, live_run_ids, discover, delete
<1>8. StartOrphans \/ StartCleanup \/ CancelTimesOut => UNCHANGED life
  BY Zenon DEF StartOrphans, StartCleanup, CancelTimesOut, Begin
<1>9. ReaperNext
  BY Zenon DEF reaper_vars
<1> QED
  BY <1>0, <1>2, <1>3, <1>4, <1>5, <1>6, <1>7, <1>8, <1>9, Zenon DEF ReaperNext

(* reap_run takes a run's lease only when all that the lease covered is    *)
(* gone (LeaseReapedLast): the reaping of consumers, then of contents,     *)
(* then of the lease is not undone by a pod that still binds a seed.       *)
THEOREM LeaseLast == ReaperSpec => LeaseReapedLast
<1>1. ASSUME ReaperInv, [ReaperNext]_reaper_vars
      PROVE  \A r \in Runs : s.pc = "reap" /\ s' # s /\ lease[r] # "none" /\ lease'[r] = "none"
                => mode.builds \/ objs[r] = {}
  <2> SUFFICES ASSUME NEW r \in Runs, s.pc = "reap", s' # s, lease[r] # "none", lease'[r] = "none",
                      ~ mode.builds
               PROVE  objs[r] = {}
    BY Zenon
  <2>0. LifeType /\ TodoInv /\ CurInv
    BY <1>1, Zenon DEF ReaperInv
  <2>1. r \in s.cur /\ "lease" \in s.left
    BY <1>1, <2>0, WhoTakesLease, Zenon DEF reap_matching
  <2>2. lease[r] = "expired"
    BY <2>0, <2>1, Zenon DEF TodoInv, LifeType
  <2>3. s.left = {"lease"} /\ ~ s.failed
    <3>1. ~ (s.left \subseteq Consumers) /\ s.left # {"vsc"}
      BY <2>1, Zenon
    <3> QED
      BY <2>0, <3>1, Zenon DEF CurInv
  <2>4. Reaped(r)
    BY <2>0, <2>1, <2>2, <2>3, Zenon DEF CurInv
  <2> QED
    BY <2>3, <2>4, Zenon DEF Reaped
<1>2. ASSUME ReaperInv, [ReaperNext]_reaper_vars
      PROVE  [\A r \in Runs : s.pc = "reap" /\ s' # s /\ lease[r] # "none" /\ lease'[r] = "none"
                => mode.builds \/ objs[r] = {}]_reaper_vars
  BY <1>1, <1>2, Zenon
<1> QED
  BY <1>2, ReaperInvHolds, PTL DEF ReaperSpec, LeaseReapedLast

(* One held object holds its whole run against an admission's sweep, as    *)
(* long as no list fails (HoldRespected).                                  *)
THEOREM HoldKept == ReaperSpec => HoldRespected
<1>1. ASSUME ReaperInv, [ReaperNext]_reaper_vars
      PROVE  [\A r \in over : Condemns(r) /\ s.pc = "reap" /\ ~mode.fails =>
                ~(held[r] /\ objs[r] \cap Labelled # {})]_reaper_vars
  <2> SUFFICES ASSUME NEW r \in over, Condemns(r), s.pc = "reap", ~ mode.fails, held[r]
               PROVE  objs[r] \cap Labelled = {}
    BY Zenon
  <2>0. LifeType /\ HistoryInv /\ TodoInv
    BY <1>1, Zenon DEF ReaperInv
  <2>1. r \in Runs
    BY <2>0, Zenon DEF HistoryInv
  <2>2. r \in s.todo
    BY <1>1, <2>0, <2>1, WhoCondemns, Zenon DEF TodoInv
  <2> QED
    BY <2>0, <2>2, Zenon DEF TodoInv
<1> QED
  BY <1>1, ReaperInvHolds, PTL DEF ReaperSpec, HoldRespected

-----------------------------------------------------------------------------
(* A cleanup that cannot list the leases takes every run for dead, so what *)
(* is said of it is said of clusters on which its reads do not fail.       *)
Evidence == \A m \in Modes : m.fails => "cleanup" \notin m.sweeps

(* The sweep is over, or is an admission's.                                *)
LEMMA NoPass ==
    ASSUME CleanupInv, mode' = mode, s'.pc \notin {"live", "discover", "delete"}
    PROVE  CleanupInv'
  BY Zenon DEF CleanupInv

LEMMA CleanupStepInv ==
    ASSUME ReaperInv, CleanupInv, [ReaperNext]_reaper_vars PROVE CleanupInv'
<1>0. LifeType /\ s \in SweepType /\ HistoryInv /\ SweepInv /\ LifeInv /\ mode' = mode
  BY StepMoves, Zenon DEF ReaperInv, SweepInv
<1>1. s # Idle => steady' \subseteq steady
  BY <1>0, HistoryStep, Zenon
<1>2. s.pc \in {"live", "discover", "delete"} => s # Idle
  BY IdleFacts, Zenon
<1>3. CASE s' = s
  BY <1>0, <1>1, <1>2, <1>3, Zenon DEF CleanupInv
<1>4. CASE s' = Idle
  BY <1>0, <1>4, NoPass, IdleFacts, Zenon
<1>5. ASSUME NEW r \in mode.runs, RunStep(r) PROVE s' = s
  <2>1. r \in Runs
    BY <1>0, Zenon DEF LifeType
  <2> QED
    BY <1>0, <1>5, <2>1, RunMoves, Zenon
<1>6. ASSUME NEW r \in mode.runs, cancel_exit(r) PROVE CleanupInv'
  <2>1. s' = [Reaping({r}) EXCEPT !.force = TRUE] /\ r \in Runs
    BY <1>0, <1>6, Zenon DEF cancel_exit, LifeType
  <2>2. {r} \in SUBSET Runs /\ {r} # {}
    BY <2>1, Zenon
  <2>3. Reaping({r}) \in SweepType /\ Reaping({r}).pc = "reap"
    BY <2>2, ReapingFacts, Zenon
  <2>4. s'.pc = "reap"
    BY <2>1, <2>3, Zenon DEF SweepType
  <2> QED
    BY <1>0, <2>4, NoPass, Zenon
<1>7. CASE StartOrphans
  <2>1. s'.pc = "list"
    BY <1>7, Zenon DEF StartOrphans, Begin, Idle
  <2> QED
    BY <1>0, <2>1, NoPass, Zenon
<1>8. CASE OrphanStep
  <2>1. s.pc \in {"list", "reap"}
    BY <1>8, Zenon DEF OrphanStep, ListObjects, ListLeases, NextOrphan,
                         reap_matching
  <2>2. \/ s'.pc = s.pc
        \/ \E X \in SUBSET Runs : s' = Reaping(X)
        \/ s' = Idle
    <3>1. ASSUME NEW k \in Kinds, ListObjects(k) PROVE s'.pc = s.pc
      BY <1>0, <3>1, Zenon DEF ListObjects, SweepType
    <3>2. ASSUME ListLeases, s' # Idle PROVE \E X \in SUBSET Runs : s' = Reaping(X)
      <4>1. s' = Reaping(orphaned_runs(live_now))
        BY <3>2, Zenon DEF ListLeases
      <4>2. orphaned_runs(live_now) \in SUBSET Runs
        BY Zenon DEF orphaned_runs
      <4> QED
        BY <4>1, <4>2, Zenon
    <3>3. ASSUME NEW r \in Runs, NextOrphan(r) PROVE s'.pc = s.pc
      BY <1>0, <3>3, Zenon DEF NextOrphan, SweepType
    <3>4. ASSUME NEW r \in Runs, NEW k \in AllKinds, reap_matching(r, k)
          PROVE  s'.pc = s.pc \/ \E X \in SUBSET Runs : s' = Reaping(X)
      <4>1. \/ s' = Reaping(s.todo \ {r})
            \/ \E left, failed : s' = [s EXCEPT !.left = left, !.failed = failed]
        BY <3>4, Zenon DEF reap_matching
      <4>2. s.todo \ {r} \in SUBSET Runs
        BY <1>0, Zenon DEF SweepType
      <4>3. ASSUME NEW left, NEW failed, s' = [s EXCEPT !.left = left, !.failed = failed]
            PROVE  s'.pc = s.pc
        BY <1>0, <4>3, Zenon DEF SweepType
      <4> QED
        BY <4>1, <4>2, <4>3, Zenon
    <3> QED
      BY <1>8, <3>1, <3>2, <3>3, <3>4, Zenon DEF OrphanStep
  <2>3. s'.pc \notin {"live", "discover", "delete"}
    BY <2>1, <2>2, ReapingFacts, IdleFacts, Zenon
  <2> QED
    BY <1>0, <2>3, NoPass, Zenon
<1>9. CASE StartCleanup
  <2>1. PICK force \in BOOLEAN : s' = [Idle EXCEPT !.pc = "live", !.force = force]
    BY <1>9, Zenon DEF StartCleanup, Begin
  <2>2. s'.pc = "live" /\ s'.seen = {} /\ "cleanup" \in mode.sweeps
    BY <1>9, <2>1, Zenon DEF Idle, StartCleanup
  <2> QED
    BY <1>0, <2>2, Zenon DEF CleanupInv
<1>10. CASE live_run_ids
  <2>1. s.pc = "live" /\ s.seen = {} /\ ~ mode.fails /\ "cleanup" \in mode.sweeps
    BY <1>10, Zenon DEF live_run_ids, CleanupInv
  <2>2. s' = [s EXCEPT !.pc = "discover", !.live = live_now]
    BY <1>10, <2>1, Zenon DEF live_run_ids, Outcomes
  <2>3. s'.pc = "discover" /\ s'.live = live_now /\ s'.seen = {}
    BY <1>0, <2>1, <2>2, Zenon DEF SweepType
  <2>4. steady' \subseteq live_now
    BY <1>0, <1>1, <1>2, <2>1, Zenon DEF HistoryInv, live_now
  <2> QED
    BY <1>0, <2>1, <2>3, <2>4, Zenon DEF CleanupInv
<1>11. ASSUME NEW k \in AllKinds, discover(k), s' # Idle PROVE CleanupInv'
  <2>0. s.pc = "discover" /\ "cleanup" \in mode.sweeps /\ steady' \subseteq steady /\ steady \subseteq s.live
    BY <1>1, <1>2, <1>11, Zenon DEF discover, CleanupInv
  <2>1. PICK ok \in Outcomes :
          LET seen == s.seen \cup {<<r, k>> : r \in {q \in Runs : ok /\ Reclaimable(q, k)}}
          IN  s' = IF k # "lease" THEN [s EXCEPT !.listed = @ \cup {k}, !.seen = seen]
                   ELSE IF seen = {} THEN Idle
                   ELSE [Idle EXCEPT !.pc = "delete", !.seen = seen, !.force = s.force]
    BY <1>11, Zenon DEF discover
  <2> DEFINE new == {<<r, k>> : r \in {q \in Runs : ok /\ Reclaimable(q, k)}}
             seen == s.seen \cup new
  <2>2. ASSUME NEW t \in new, t[2] \in Kinds, ~ s.force PROVE t[1] \notin steady
    <3>1. PICK r \in {q \in Runs : ok /\ Reclaimable(q, k)} : t = <<r, k>>
      BY <2>2, Zenon
    <3>2. t[1] = r /\ t[2] = k
      BY <3>1
    <3>3. k # "lease"
      BY <2>2, <3>2, Zenon
    <3>4. r \notin s.live
      BY <2>2, <3>1, <3>3, Zenon DEF Reclaimable
    <3> QED
      BY <2>0, <3>2, <3>4, Zenon
  <2>3. ~ s.force => \A t \in seen : t[2] \in Kinds => t[1] \notin steady'
    BY <2>0, <2>2, Zenon DEF CleanupInv
  <2>4. \/ s' = [s EXCEPT !.listed = @ \cup {k}, !.seen = seen]
        \/ s' = [Idle EXCEPT !.pc = "delete", !.seen = seen, !.force = s.force]
    BY <1>11, <2>1, Zenon
  <2> HIDE DEF seen
  <2>5. CASE s' = [s EXCEPT !.listed = @ \cup {k}, !.seen = seen]
    <3>1. s'.pc = "discover" /\ s'.seen = seen /\ s'.live = s.live /\ s'.force = s.force
      BY <1>0, <2>0, <2>5, Zenon DEF SweepType
    <3> QED
      BY <1>0, <2>0, <2>3, <3>1, Zenon DEF CleanupInv
  <2>6. CASE s' = [Idle EXCEPT !.pc = "delete", !.seen = seen, !.force = s.force]
    <3>1. s'.pc = "delete" /\ s'.seen = seen /\ s'.force = s.force
      BY <2>6, Zenon DEF Idle
    <3> QED
      BY <1>0, <2>0, <2>3, <3>1, Zenon DEF CleanupInv
  <2> QED
    BY <2>4, <2>5, <2>6, Zenon
<1>12. ASSUME NEW q \in Runs, NEW k \in AllKinds, delete(q, k), s' # Idle PROVE CleanupInv'
  <2>1. PICK seen \in SUBSET s.seen : s' = [s EXCEPT !.seen = seen]
    BY <1>12, Zenon DEF delete
  <2>2. s.pc = "delete"
    BY <1>12, Zenon DEF delete
  <2>3. s'.pc = "delete" /\ s'.seen = seen /\ s'.force = s.force
    BY <1>0, <2>1, <2>2, Zenon DEF SweepType
  <2> QED
    BY <1>0, <1>1, <1>2, <2>2, <2>3, Zenon DEF CleanupInv
<1>13. CancelTimesOut => s' = Idle
  BY Zenon DEF CancelTimesOut
<1>14. CASE CleanupStep
  BY <1>4, <1>10, <1>11, <1>12, <1>14, Zenon DEF CleanupStep
<1>15. UNCHANGED reaper_vars => s' = s
  BY Zenon DEF reaper_vars
<1> QED
  BY <1>3, <1>4, <1>5, <1>6, <1>7, <1>8, <1>9, <1>13, <1>14, <1>15, Zenon DEF ReaperNext

(* A sweep that was not forced spares whoever's lease was live all along;  *)
(* and an admission's, whoever's only lease is live now (LiveRunSpared):   *)
(* it lists the leases after the objects, and cleanup before.              *)
THEOREM LiveSpared == Evidence => (ReaperSpec => LiveRunSpared)
<1> SUFFICES ASSUME Evidence PROVE ReaperSpec => LiveRunSpared
  OBVIOUS
<1>1. ReaperInit => CleanupInv
  <2> SUFFICES ASSUME ReaperInit PROVE CleanupInv
    OBVIOUS
  <2>1. mode \in Modes /\ s.pc = "idle"
    BY IdleFacts, Zenon DEF ReaperInit
  <2> QED
    BY <2>1, Zenon DEF CleanupInv, Evidence
<1>2. ReaperSpec => []CleanupInv
  BY <1>1, ReaperInvHolds, CleanupStepInv, PTL DEF ReaperSpec
<1>3. ASSUME ReaperInv, CleanupInv, [ReaperNext]_reaper_vars
      PROVE  [\A r \in Runs : Condemns(r) /\ ~s.force =>
                 r \notin steady /\ (s.pc = "reap" /\ ~mode.builds => lease[r] # "live")]_reaper_vars
  <2> SUFFICES ASSUME NEW r \in Runs, Condemns(r), ~ s.force
               PROVE  r \notin steady /\ (s.pc = "reap" /\ ~mode.builds => lease[r] # "live")
    BY Zenon
  <2>0. LifeType /\ TodoInv
    BY <1>3, Zenon DEF ReaperInv
  <2>1. CASE s.pc = "reap" /\ r \in s.cur
    <3>1. r \in s.todo
      BY <2>0, <2>1, Zenon DEF TodoInv
    <3> QED
      BY <2>0, <2>1, <3>1, Zenon DEF TodoInv
  <2>2. CASE s.pc = "delete" /\ \E k \in Kinds : <<r, k>> \in s.seen
    <3>1. PICK k \in Kinds : <<r, k>> \in s.seen
      BY <2>2, Zenon
    <3>2. <<r, k>>[1] = r /\ <<r, k>>[2] = k
      OBVIOUS
    <3>3. r \notin steady
      BY <1>3, <2>2, <3>1, <3>2, Zenon DEF CleanupInv
    <3> QED
      BY <2>2, <3>3, Zenon
  <2> QED
    BY <1>3, <2>0, <2>1, <2>2, WhoCondemns, Zenon
<1> QED
  BY <1>2, <1>3, ReaperInvHolds, PTL DEF ReaperSpec, LiveRunSpared
=============================================================================
