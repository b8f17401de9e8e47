----------------------------- MODULE PerfCounters -----------------------------
(***************************************************************************)
(* The performance counters of one core and the rt_perf_* calls on them,   *)
(* as the examples under perf/ use them.  External.                        *)
(*                                                                         *)
(* A core has a hardware counter per event, which counts while it is       *)
(* started and configured for that event; what the counters hold before    *)
(* the first reset is left over from whoever used them before.             *)
(***************************************************************************)
EXTENDS Integers

CONSTANT PerfEvent  \* RT_PERF_CYCLES, RT_PERF_INSTR, ...

\* What a counter may hold when nobody has reset it.
LeftOver == 0 .. 1

Counters == [conf : SUBSET PerfEvent, on : BOOLEAN, count : [PerfEvent -> Nat]]

Zero == [e \in PerfEvent |-> 0]

PerfReset(left) == [conf |-> {}, on |-> FALSE, count |-> [e \in PerfEvent |-> left]]

rt_perf_conf(hw, events) == [hw EXCEPT !.conf = events]
rt_perf_reset(hw)        == [hw EXCEPT !.count = Zero]
rt_perf_start(hw)        == [hw EXCEPT !.on = TRUE]
rt_perf_stop(hw)         == [hw EXCEPT !.on = FALSE]
rt_perf_read(hw, event)  == hw.count[event]

\* rt_perf_save adds the configured counters to the core's structure.
rt_perf_save(values, hw) ==
  [e \in PerfEvent |-> values[e] + (IF e \in hw.conf THEN hw.count[e] ELSE 0)]

\* The events of `some' occur `times' times on the core.
Occur(hw, some, times) ==
  [hw EXCEPT !.count = [e \in PerfEvent |->
     IF hw.on /\ e \in hw.conf \cap some THEN @[e] + times ELSE @[e]]]
=============================================================================
