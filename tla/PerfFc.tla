-------------------------------- MODULE PerfFc --------------------------------
(***************************************************************************)
(* perf/fc/cumulative and perf/fc/direct: the fabric controller runs a     *)
(* benchmark and reads its own counters, after each run into a structure   *)
(* that cumulates them (once for each group of events), or straight out of *)
(* the hardware (for one group).  The controller goes on running its       *)
(* runtime, printf included, between the reads.                            *)
(***************************************************************************)
EXTENDS PerfCounters, Sequences, FiniteSets

CONSTANTS PASSES,   \* the groups of events of the cumulative program
          MAX_WORK  \* times the events of the benchmark occur

PrintAssumption == IsFiniteSet(PerfEvent)

VARIABLES program,   \* "fc_cumulative" or "fc_direct"
          at,        \* where main is
          pass,      \* the call of do_bench it is at
          counters,  \* the controller's hardware counters
          total,     \* the structure perf
          occurred,  \* what really occurred in the benchmark
          shown      \* what has been printed

vars == << program, at, pass, counters, total, occurred, shown >>

Program == {"fc_cumulative", "fc_direct"}

Groups == IF program = "fc_direct" THEN << {"cycles", "instr"} >> ELSE PASSES

\* The events main prints, each on a line of its own.
Printed == IF program = "fc_direct" THEN {"cycles", "instr"} ELSE PerfEvent

TypeOK ==
  /\ at \in {"init", "conf", "start", "bench", "stop", "save", "print", "exit"}
  /\ pass \in 1 .. Len(Groups) + 1
  /\ counters \in Counters
  /\ total \in [PerfEvent -> Nat]
  /\ occurred \in [PerfEvent -> 0 .. MAX_WORK]
  /\ shown \subseteq {0} \X PerfEvent \X (0 .. MAX_WORK)

Start ==
  /\ at = "init" /\ pass = 1
  /\ \E left \in LeftOver : /\ counters = PerfReset(left)
                            /\ total = [e \in PerfEvent |-> left]
  /\ occurred = Zero /\ shown = {}

Init == program \in Program /\ Start

-----------------------------------------------------------------------------
\* Whatever the controller does outside the benchmark has events of its own.
Runtime(hw) == Occur(hw, PerfEvent, 1)

\* rt_perf_init.
PerfInit ==
  /\ at = "init" /\ at' = "conf"
  /\ total' = Zero
  /\ UNCHANGED << program, pass, counters, occurred, shown >>

Conf ==
  /\ at = "conf" /\ at' = "start"
  /\ counters' = Runtime(rt_perf_conf(counters, Groups[pass]))
  /\ UNCHANGED << program, pass, total, occurred, shown >>

ResetStart ==
  /\ at = "start" /\ at' = "bench"
  /\ counters' = rt_perf_start(rt_perf_reset(counters))
  /\ UNCHANGED << program, pass, total, occurred, shown >>

Bench ==
  /\ at = "bench" /\ at' = "stop"
  /\ \E times \in 0 .. MAX_WORK :
       /\ counters' = Occur(counters, PerfEvent, times)
       /\ occurred' = [e \in PerfEvent |-> IF e \in Groups[pass] THEN times ELSE occurred[e]]
  /\ UNCHANGED << program, pass, total, shown >>

Stop ==
  /\ at = "stop"
  /\ at' = IF program = "fc_direct" THEN "print" ELSE "save"
  /\ counters' = Runtime(rt_perf_stop(counters))
  /\ UNCHANGED << program, pass, total, occurred, shown >>

Save ==
  /\ at = "save"
  /\ at' = IF pass = Len(Groups) THEN "print" ELSE "conf"
  /\ total' = rt_perf_save(total, counters)
  /\ pass' = pass + 1
  /\ UNCHANGED << program, counters, occurred, shown >>

\* The direct program reads the hardware for each line it prints.  (The order
\* of the lines is left out.)
Show ==
  /\ at = "print"
  /\ \E e \in Printed \ {s[2] : s \in shown} :
       LET value == IF program = "fc_direct" THEN rt_perf_read(counters, e) ELSE total[e]
       IN  shown' = shown \cup {<< 0, e, value >>}
  /\ at' = IF Cardinality(shown') = Cardinality(Printed) THEN "exit" ELSE "print"
  /\ counters' = Runtime(counters)
  /\ UNCHANGED << program, pass, total, occurred >>

Main == PerfInit \/ Conf \/ ResetStart \/ Bench \/ Stop \/ Save \/ Show

Stopped == at = "exit" /\ UNCHANGED vars

Next == Main \/ Stopped

Spec == Init /\ [][Next]_vars /\ WF_vars(Main)

-----------------------------------------------------------------------------
\* The structure holds what occurred in the benchmarks, group by group.
SavedIsMeasured == program = "fc_cumulative" /\ at \in {"print", "exit"} => total = occurred

\* Every number printed is what occurred in the benchmark and nothing since.
ShownIsMeasured ==
  /\ \A s \in shown : s[3] = occurred[s[2]]
  /\ at = "exit" => {s[2] : s \in shown} = Printed
=============================================================================
