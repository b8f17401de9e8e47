--------------------------- MODULE ClusterPrograms ---------------------------
(***************************************************************************)
(* The examples on the cluster, and those about the performance counters.  *)
(* One is loaded at a time: which one is chosen at the beginning and never *)
(* changes.  They share ClusterMain's fabric controller and cores, and the *)
(* counters; everything else is a program's own, and stays as it is while  *)
(* another program runs.                                                   *)
(***************************************************************************)
EXTENDS ClusterMain, PerfCounters

CONSTANTS MASTER_STACK_SIZE, SLAVE_STACK_SIZE, PASSES, MAX_WORK, ITERATIONS, INCREMENTS,
          TASK_PE  \* cores of the cluster when cluster/task is loaded, which needs four

VARIABLES program,
          block, entered, trace,              \* cluster/call, fork, fork_user_stack, perf/vcd
          cores_events, hw, work,             \* perf/cluster
          pass, perf,                         \* perf/cluster/cumulative
          shown,                              \* perf/cluster/direct
          at, counters, total, occurred,      \* perf/fc/cumulative, direct, with pass, shown
          region, i, iterated, var, reg, lock,    \* openmp/simple
          pc, n, pool, event, task, j, cl, ran    \* cluster/task

Fork       == INSTANCE ClusterFork
Cumulative == INSTANCE PerfCluster
Direct     == INSTANCE PerfDirect
Omp        == INSTANCE OmpSimple
Task       == INSTANCE ClusterTask WITH NB_PE <- TASK_PE
FcPerf     == INSTANCE PerfFc

ASSUME ProgramsAssumption ==
  /\ Fork!StackAssumption /\ Cumulative!PassAssumption /\ Direct!WorkAssumption
  /\ Omp!OmpAssumption /\ Task!TaskAssumption /\ FcPerf!PrintAssumption

forkVars    == << block, entered, trace >>
countVars   == << cores_events, hw, work >>
passVars    == << pass, perf >>
ompVars     == << region, i, iterated, var, reg, lock >>
taskVars    == << pc, n, pool, event, task, j, cl, ran >>
fcPerfVars  == << at, counters, total, occurred >>
clusterVars == << fc, core >>

vars == << program, mounted, clusterVars, forkVars, countVars, passVars, shown, ompVars, taskVars, fcPerfVars >>

Init == /\ program \in Fork!Program \cup FcPerf!Program
                         \cup {"perf_cumulative", "perf_direct", "openmp", "task"}
        /\ Fork!Start /\ Cumulative!Init /\ Direct!Init /\ Omp!Init /\ Task!Init
        /\ FcPerf!Start

-----------------------------------------------------------------------------
\* What each program leaves alone.
InFork       == program \in Fork!Program /\ UNCHANGED << countVars, passVars, shown, ompVars, taskVars, fcPerfVars >>
InCumulative == program = "perf_cumulative" /\ UNCHANGED << program, forkVars, shown, ompVars, taskVars, fcPerfVars >>
InDirect     == program = "perf_direct" /\ UNCHANGED << program, forkVars, passVars, ompVars, taskVars, fcPerfVars >>
InOmp        == program = "openmp" /\ UNCHANGED << program, forkVars, countVars, passVars, shown, taskVars, fcPerfVars >>
InTask       == program = "task" /\ UNCHANGED << program, clusterVars, forkVars, countVars, passVars, shown, ompVars, fcPerfVars >>
InFcPerf     == program \in FcPerf!Program /\ UNCHANGED << mounted, clusterVars, forkVars, countVars, perf, ompVars, taskVars >>

FcStep == \/ InFork /\ Fork!Fc
          \/ InCumulative /\ Cumulative!Fc
          \/ InDirect /\ Direct!Fc
          \/ InOmp /\ Omp!Fc
          \/ InTask /\ Task!Main
          \/ InFcPerf /\ FcPerf!Main

ClusterStep == \/ InFork /\ Fork!Cluster
               \/ InCumulative /\ Cumulative!Cluster
               \/ InDirect /\ Direct!Cluster
               \/ InOmp /\ Omp!Cluster
               \/ InTask /\ Task!Cluster

Ended   == CASE program = "task" -> pc \in {"exit_0", "exit_-1", "null_event"}
             [] program \in FcPerf!Program -> at = "exit"
             [] OTHER -> MainStopped
Stopped == Ended /\ UNCHANGED vars

Next == FcStep \/ ClusterStep \/ Stopped

\* The fabric controller and the cluster go on while they can.
Spec == Init /\ [][Next]_vars /\ WF_vars(FcStep) /\ WF_vars(ClusterStep)

-----------------------------------------------------------------------------
TypeOK ==
  /\ program \in Fork!Program => Fork!TypeOK
  /\ program = "perf_cumulative" => Cumulative!TypeOK
  /\ program = "perf_direct" => Direct!TypeOK
  /\ program = "openmp" => Omp!TypeOK
  /\ program = "task" => Task!TypeOK
  /\ program \in FcPerf!Program => FcPerf!TypeOK

\* The cluster is not turned off, and main has not returned, while a core is
\* at work: every program unmounts it after the last core is back, through two
\* barriers (the fork's and the call's) that the programs only rely on.  And
\* perf/vcd's trace is high as long as a core is in the function it shows.
OnWhileUsed ==
  /\ (\E c \in Core : core[c] # "idle") => mounted /\ fc = "wait"
  /\ program = "vcd" /\ (\E c \in Core : core[c] = "pe_entry") => trace = 1

\* perf/cluster/cumulative, perf/fc/cumulative: what is printed has been
\* counted on its own core, in its own pass, and only in the benchmark.
SavedIsMeasured ==
  /\ program = "perf_cumulative" => Cumulative!SavedIsMeasured
  /\ program \in FcPerf!Program => FcPerf!SavedIsMeasured

\* perf/cluster/direct, perf/fc: every number printed is what its own core
\* counted in the benchmark and nothing since, and none is missing.
ShownIsMeasured ==
  /\ program = "perf_direct" => Direct!ShownIsMeasured
  /\ program \in FcPerf!Program => FcPerf!ShownIsMeasured

\* openmp/simple: the critical section loses no increment of var.
VarIsTotal == program = "openmp" => Omp!VarIsTotal

\* cluster/task: no task is queued or running in a stack frame that is gone.
FrameOutlivesTasks == program = "task" => Task!FrameOutlivesTasks

\* Once the cluster has been called, or the tasks are being pushed, main gets
\* to its end: with the cluster and its trace off, or with all its tasks'
\* events back.  And once the counters are configured their values get printed.
MainEnds ==
  /\ (fc = "wait") ~> (fc = "exit_0" /\ ~mounted /\ trace = 0)
  /\ (at = "conf") ~> (at = "exit")
  /\ (program = "task" /\ pc = "push") ~> (pc = "exit_0" /\ pool = 2)
=============================================================================
