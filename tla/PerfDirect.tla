------------------------------ MODULE PerfDirect ------------------------------
(***************************************************************************)
(* perf/cluster/direct/test.c: all cores run a benchmark once; then core 0 *)
(* reads its cycle counter and, in a second fork, every core reads its own *)
(* instruction counter, straight out of the hardware.  Whatever the cores  *)
(* run after the benchmark has cycles and instructions too.                *)
(***************************************************************************)
EXTENDS ClusterMain, PerfCounters

CONSTANT MAX_WORK  \* cycles, or instructions, in a stretch of code

WorkAssumption == MAX_WORK \in Nat /\ {"cycles", "instr"} \subseteq PerfEvent

VARIABLES cores_events,  \* the global
          hw,            \* each core's hardware counters
          work,          \* what really occurred in the benchmark, core by core
          shown          \* what has been printed, core by core, with the event

vars == << mainVars, cores_events, hw, work, shown >>

Label == {"idle", "entry", "fork_bench", "read_cycles", "return", "conf", "start", "bench",
          "stop", "bench_done", "display", "joined"}

TypeOK ==
  /\ fc \in {"mount", "call", "wait", "unmount", "exit_0", "exit_-1"}
  /\ mounted \in BOOLEAN
  /\ core \in [Core -> Label]
  /\ cores_events \subseteq PerfEvent
  /\ hw \in [Core -> Counters]
  /\ work \in [Core -> [PerfEvent -> 0 .. MAX_WORK]]
  /\ shown \subseteq Core \X PerfEvent \X (0 .. MAX_WORK)

Init == /\ MainInit
        /\ cores_events = {}
        /\ \E left \in LeftOver : hw = [c \in Core |-> PerfReset(left)]
        /\ work = [c \in Core |-> Zero]
        /\ shown = {}

-----------------------------------------------------------------------------
Fc == /\ Mount("call") \/ Call \/ CallFails \/ Return \/ Unmount
      /\ UNCHANGED << cores_events, hw, work, shown >>

\* Each structure is initialised, the group is set and the benchmark forked.
do_bench_0 ==
  /\ core[0] = "entry"
  /\ cores_events' = {"cycles", "instr"}
  /\ rt_team_fork("conf")
  /\ UNCHANGED << fc, mounted, hw, work, shown >>

BenchDone ==
  /\ \A c \in Core : core[c] = "bench_done"
  /\ core' = JoinedTeam("read_cycles")
  /\ UNCHANGED << fc, mounted, cores_events, hw, work, shown >>

\* Core 0 prints its cycles and forks display_events.
ReadCycles ==
  /\ core[0] = "read_cycles"
  /\ shown' = shown \cup {<< 0, "cycles", rt_perf_read(hw[0], "cycles") >>}
  /\ rt_team_fork("display")
  /\ UNCHANGED << fc, mounted, cores_events, hw, work >>

DisplayDone ==
  /\ Joined
  /\ core' = JoinedTeam("return")
  /\ UNCHANGED << fc, mounted, cores_events, hw, work, shown >>

-----------------------------------------------------------------------------
(* On every core.                                                          *)

Set(c, label, counters) ==
  /\ core' = [core EXCEPT ![c] = label]
  /\ hw' = [hw EXCEPT ![c] = counters]

Conf(c) ==
  /\ core[c] = "conf"
  /\ Set(c, "start", rt_perf_conf(hw[c], cores_events))
  /\ UNCHANGED << fc, mounted, cores_events, work, shown >>

ResetStart(c) ==
  /\ core[c] = "start"
  /\ Set(c, "bench", rt_perf_start(rt_perf_reset(hw[c])))
  /\ UNCHANGED << fc, mounted, cores_events, work, shown >>

Bench(c) ==
  /\ core[c] = "bench"
  /\ \E cycles, instr \in 0 .. MAX_WORK :
       /\ Set(c, "stop", Occur(Occur(hw[c], {"cycles"}, cycles), {"instr"}, instr))
       /\ work' = [work EXCEPT ![c] = [Zero EXCEPT !["cycles"] = cycles, !["instr"] = instr]]
  /\ UNCHANGED << fc, mounted, cores_events, shown >>

\* Mutant: the counters are left running.
Stop_StillOn(c) ==
  /\ core[c] = "stop"
  /\ core' = [core EXCEPT ![c] = "bench_done"]
  /\ hw' = [k \in Core |-> Occur(hw[k], PerfEvent, 1)]
  /\ UNCHANGED << fc, mounted, cores_events, work, shown >>

\* After it has stopped its counters a core runs on, in the runtime's code.
Stop(c) ==
  /\ core[c] = "stop"
  /\ Set(c, "bench_done", Occur(rt_perf_stop(hw[c]), PerfEvent, 1))
  /\ UNCHANGED << fc, mounted, cores_events, work, shown >>

display_events(c) ==
  /\ core[c] = "display"
  /\ core' = [core EXCEPT ![c] = "joined"]
  /\ shown' = shown \cup {<< c, "instr", rt_perf_read(hw[c], "instr") >>}
  /\ UNCHANGED << fc, mounted, cores_events, hw, work >>

-----------------------------------------------------------------------------
Stopped == MainStopped /\ UNCHANGED vars

Cluster == \/ do_bench_0 \/ BenchDone \/ ReadCycles \/ DisplayDone
           \/ \E c \in Core : \/ Conf(c) \/ ResetStart(c) \/ Bench(c) \/ Stop(c)
                              \/ display_events(c)

Next == Fc \/ Cluster \/ Stopped

Spec == Init /\ [][Next]_vars /\ WF_vars(Fc) /\ WF_vars(Cluster)

-----------------------------------------------------------------------------
\* Every number printed is the count of its event on its own core, in the
\* benchmark and nowhere else; none is missing when the call returns.
ShownIsMeasured ==
  /\ \A s \in shown : s[3] = work[s[1]][s[2]]
  /\ core[0] = "return" =>
       \A c \in Core : << c, "instr", work[c]["instr"] >> \in shown
=============================================================================
