----------------------------- MODULE PerfCluster -----------------------------
(***************************************************************************)
(* perf/cluster/cumulative/test.c: core 0 of the cluster makes all cores   *)
(* run the same benchmark once for each group of events it wants counted,  *)
(* each core cumulating its counters in a structure of its own, and then   *)
(* prints averages.  The group is handed to the cores through the global   *)
(* cores_events.                                                           *)
(***************************************************************************)
EXTENDS ClusterMain, PerfCounters, Sequences

CONSTANTS PASSES,   \* the groups of events, in the order of cluster_entry
          MAX_WORK  \* times the events of the benchmark occur on a core

PassAssumption ==
  /\ PASSES \in Seq(SUBSET PerfEvent) /\ PASSES # << >>
  /\ \A p, q \in DOMAIN PASSES : p # q => PASSES[p] \cap PASSES[q] = {}
  /\ MAX_WORK \in Nat

VARIABLES pass,          \* the pass core 0 is at
          cores_events,  \* the global
          hw,            \* each core's hardware counters
          perf,          \* each core's structure
          work           \* what really occurred in the benchmark, core by core

vars == << mainVars, pass, cores_events, hw, perf, work >>

Label == {"idle", "entry", "do_bench", "display", "return",
          "conf", "start", "bench", "save", "joined"}

TypeOK ==
  /\ fc \in {"mount", "call", "wait", "unmount", "exit_0", "exit_-1"}
  /\ mounted \in BOOLEAN
  /\ core \in [Core -> Label]
  /\ pass \in 1 .. Len(PASSES) + 1
  /\ cores_events \subseteq PerfEvent
  /\ hw \in [Core -> Counters]
  /\ perf \in [Core -> [PerfEvent -> Nat]]
  /\ work \in [Core -> [PerfEvent -> 0 .. MAX_WORK]]

Init == /\ MainInit
        /\ pass = 1 /\ cores_events = {}
        /\ \E left \in LeftOver : /\ hw = [c \in Core |-> PerfReset(left)]
                                  /\ perf = [c \in Core |-> [e \in PerfEvent |-> left]]
        /\ work = [c \in Core |-> Zero]

-----------------------------------------------------------------------------
Fc == /\ Mount("call") \/ Call \/ CallFails \/ Return \/ Unmount
      /\ UNCHANGED << pass, cores_events, hw, perf, work >>

\* rt_perf_init on every structure.
cluster_entry ==
  /\ core[0] = "entry"
  /\ core' = [core EXCEPT ![0] = "do_bench"]
  /\ perf' = [c \in Core |-> Zero]
  /\ UNCHANGED << fc, mounted, pass, cores_events, hw, work >>

do_bench_1 ==
  /\ core[0] = "do_bench" /\ pass <= Len(PASSES)
  /\ cores_events' = PASSES[pass]
  /\ rt_team_fork("conf")
  /\ UNCHANGED << fc, mounted, pass, hw, perf, work >>

\* All the cores are back from do_bench_1_pe; after the last pass come the
\* averages.
Join ==
  /\ Joined
  /\ core' = JoinedTeam(IF pass = Len(PASSES) THEN "display" ELSE "do_bench")
  /\ pass' = pass + 1
  /\ UNCHANGED << fc, mounted, cores_events, hw, perf, work >>

Display ==
  /\ core[0] = "display"
  /\ core' = [core EXCEPT ![0] = "return"]
  /\ UNCHANGED << fc, mounted, pass, cores_events, hw, perf, work >>

-----------------------------------------------------------------------------
(* do_bench_1_pe, on every core.                                           *)

Set(c, label, counters) ==
  /\ core' = [core EXCEPT ![c] = label]
  /\ hw' = [hw EXCEPT ![c] = counters]

Conf(c) ==
  /\ core[c] = "conf"
  /\ Set(c, "start", rt_perf_conf(hw[c], cores_events))
  /\ UNCHANGED << fc, mounted, pass, cores_events, perf, work >>

\* Mutant: the counters are started as they are.
ResetStart_NoReset(c) ==
  /\ core[c] = "start"
  /\ Set(c, "bench", rt_perf_start(hw[c]))
  /\ UNCHANGED << fc, mounted, pass, cores_events, perf, work >>

ResetStart(c) ==
  /\ core[c] = "start"
  /\ Set(c, "bench", rt_perf_start(rt_perf_reset(hw[c])))
  /\ UNCHANGED << fc, mounted, pass, cores_events, perf, work >>

\* The benchmark: the events this pass is about occur some number of times.
Bench(c) ==
  /\ core[c] = "bench"
  /\ \E times \in 0 .. MAX_WORK :
       /\ Set(c, "save", rt_perf_stop(Occur(hw[c], PerfEvent, times)))
       /\ work' = [work EXCEPT ![c] =
            [e \in PerfEvent |-> IF e \in PASSES[pass] THEN times ELSE @[e]]]
  /\ UNCHANGED << fc, mounted, pass, cores_events, perf >>

Save(c) ==
  /\ core[c] = "save"
  /\ core' = [core EXCEPT ![c] = "joined"]
  /\ perf' = [perf EXCEPT ![c] = rt_perf_save(@, hw[c])]
  /\ UNCHANGED << fc, mounted, pass, cores_events, hw, work >>

do_bench_1_pe(c) == Conf(c) \/ ResetStart(c) \/ Bench(c) \/ Save(c)

-----------------------------------------------------------------------------
Stopped == MainStopped /\ UNCHANGED vars

Cluster == \/ cluster_entry \/ do_bench_1 \/ Join \/ Display
           \/ \E c \in Core : do_bench_1_pe(c)

Next == Fc \/ Cluster \/ Stopped

Spec == Init /\ [][Next]_vars /\ WF_vars(Fc) /\ WF_vars(Cluster)

-----------------------------------------------------------------------------
\* What the averages are made of: in every core's structure, every event has
\* been counted in its own pass, and only what occurred in the benchmark.
SavedIsMeasured == core[0] = "display" => perf = work
=============================================================================
