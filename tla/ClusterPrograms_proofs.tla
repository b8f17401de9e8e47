------------------------ MODULE ClusterPrograms_proofs ------------------------
(***************************************************************************)
(* The cluster and counter examples with any number of cores, any groups   *)
(* of events and any amount of work.                                       *)
(***************************************************************************)
EXTENDS ClusterPrograms, Sequences, FiniteSetTheorems, TLAPS

\* Core 0 is at one of `labels', the other cores have nothing to do.
Alone(labels) == core[0] \in labels /\ \A c \in Core \ {0} : core[c] = "idle"

AllAt(labels) == \A c \in Core : core[c] \in labels

-----------------------------------------------------------------------------
(* main on the fabric controller, which most of the programs share.        *)

MainInv ==
  /\ fc \in {"mount", "alloc", "call", "wait", "unmount", "exit_0", "exit_-1"}
  /\ mounted \in BOOLEAN
  /\ core = [c \in Core |-> core[c]]
  /\ fc # "wait" => AllAt({"idle"})
  /\ fc = "wait" => core[0] # "idle"
  /\ fc \in {"alloc", "call", "wait", "unmount"} => mounted

\* The steps of a main that are its own, but for the call and its return.
Quiet ==
  /\ \/ fc = "mount" /\ fc' \in {"alloc", "call"} /\ mounted' = TRUE
     \/ fc = "alloc" /\ fc' \in {"call", "exit_-1"} /\ mounted' = mounted
     \/ fc = "call" /\ fc' \in {"unmount", "exit_-1"} /\ mounted' = mounted
     \/ fc = "unmount" /\ fc' = "exit_0" /\ mounted' = FALSE
  /\ core' = core

FcMove == Quiet \/ Call \/ Return

LEMMA ZeroIsACore == 0 \in Core
BY NbPeAssumption DEF Core

LEMMA MainInit0 == MainInit => MainInv /\ AllAt({"idle"})
BY ZeroIsACore DEF MainInit, MainInv, AllAt

\* A main that has called finds core 0 alone and back.
LEMMA FcMoveKeeps ==
  ASSUME MainInv, FcMove, core[0] = "return" => Alone({"return"})
  PROVE  /\ MainInv'
         /\ Quiet => AllAt({"idle"}) /\ AllAt({"idle"})'
         /\ Call => AllAt({"idle"}) /\ Alone({"entry"})'
         /\ Return => AllAt({"idle"})'
BY ZeroIsACore DEF MainInv, FcMove, Quiet, Call, Return, Alone, AllAt

\* A step on the cluster: main waits all the while.
LEMMA ClusterMoves ==
  ASSUME MainInv, UNCHANGED << fc, mounted >>, core' = [c \in Core |-> core'[c]],
         fc = "wait", core'[0] # "idle"
  PROVE  MainInv'
BY DEF MainInv
-----------------------------------------------------------------------------
(* cluster/call, cluster/fork, cluster/fork_user_stack, perf/vcd.          *)

ForkInv ==
  /\ Fork!TypeOK
  /\ fc = "wait" => Alone({"entry", "return"}) \/ AllAt({"pe_entry", "joined"})
  /\ program = "vcd" /\ (\E c \in Core : core[c] = "pe_entry") => trace = 1
  /\ \A c \in Core : core[c] = "pe_entry" => entered[c] = 0
  /\ fc \in {"mount", "alloc", "call"} \/ core[0] = "entry" => \A c \in Core : entered[c] = 0

LEMMA ForkNames ==
  /\ Fork!Core = Core
  /\ Fork!Program = {"call", "fork", "fork_user_stack", "vcd"}
BY DEF Fork!Core, Core, Fork!Program

LEMMA ForkInit ==
  ASSUME Fork!Start, program \in Fork!Program
  PROVE  MainInv /\ ForkInv
<1>1. MainInit
  BY DEF Fork!Start, Fork!MainInit, MainInit, Fork!Core, Core
<1>2. Fork!TypeOK
  <2>1. /\ fc = "mount" /\ mounted = FALSE /\ core = [c \in Core |-> "idle"]
        /\ block = 0 /\ entered = [c \in Core |-> 0] /\ trace = 0
    BY <1>1, ForkNames DEF Fork!Start, MainInit
  <2>2. /\ core \in [Core -> {"idle", "entry", "pe_entry", "joined", "return"}]
        /\ entered \in [Core -> 0 .. 1]
    BY <2>1
  <2>3. mounted \in BOOLEAN /\ block \in Nat /\ trace \in 0 .. 1
    BY <1>1, <2>1, MainInit0 DEF MainInv
  <2> QED BY <2>1, <2>2, <2>3, ForkNames DEF Fork!TypeOK
<1>3. ForkInv
  BY <1>1, <1>2, ForkNames, ZeroIsACore DEF ForkInv, MainInit, Fork!Start
<1> QED BY <1>1, <1>3, MainInit0

LEMMA ForkFcStep ==
  ASSUME MainInv, ForkInv, program \in Fork!Program, Fork!Fc
  PROVE  MainInv' /\ ForkInv'
<1>1. FcMove /\ UNCHANGED << program, entered, trace >>
  BY DEF Fork!Fc, Fork!MountCluster, Fork!Mount, Fork!AllocStacks, Fork!CallCluster, Fork!Call,
         Fork!NoCall, Fork!CallFails, Fork!CallIgnored, Fork!CallReturns, Fork!Return,
         Fork!UnmountCluster, Fork!Unmount, FcMove, Quiet, Call, Return
<1>2. block' \in Nat
  <2>1. SLAVE_STACK_SIZE * (NB_PE - 1) + MASTER_STACK_SIZE \in Nat
    BY NbPeAssumption, ProgramsAssumption DEF Fork!StackAssumption
  <2> QED BY <2>1 DEF ForkInv, Fork!TypeOK, Fork!Fc, Fork!MountCluster, Fork!AllocStacks,
                      Fork!CallCluster, Fork!CallReturns, Fork!UnmountCluster
<1>3. core[0] = "return" => Alone({"return"})
  BY ZeroIsACore DEF ForkInv, MainInv, Alone, AllAt
<1>4. /\ MainInv'
      /\ Quiet => AllAt({"idle"}) /\ AllAt({"idle"})'
      /\ Call => AllAt({"idle"}) /\ Alone({"entry"})'
      /\ Return => AllAt({"idle"})'
  BY <1>1, <1>3, FcMoveKeeps
<1>5. Fork!TypeOK'
  <2>1. core' \in [Core -> {"idle", "entry", "pe_entry", "joined", "return"}]
    BY <1>1, <1>4, ForkNames, ZeroIsACore
       DEF MainInv, ForkInv, Fork!TypeOK, FcMove, Call, Return, Quiet, AllAt, Alone
  <2> QED BY <1>1, <1>2, <1>4, <2>1, ForkNames DEF MainInv, ForkInv, Fork!TypeOK
<1>6. ForkInv'
  BY <1>1, <1>4, <1>5, ZeroIsACore DEF ForkInv, FcMove, Quiet, Call, Return, Alone, AllAt, MainInv
<1> QED BY <1>4, <1>6

\* A step on the cluster begins with a core at work, so main waits.
LEMMA AtWork ==
  ASSUME MainInv, NEW c \in Core, core[c] # "idle"
  PROVE  fc = "wait"
BY DEF MainInv, AllAt

LEMMA ForkClusterStep ==
  ASSUME MainInv, ForkInv, program \in Fork!Program, Fork!Cluster
  PROVE  MainInv' /\ ForkInv'
<1>1. UNCHANGED << fc, mounted, program, block >>
  BY DEF Fork!Cluster, Fork!cluster_entry, Fork!pe_entry, Fork!Join
<1>2. core \in [Core -> {"idle", "entry", "pe_entry", "joined", "return"}] /\ core = [c \in Core |-> core[c]]
  BY ForkNames DEF ForkInv, Fork!TypeOK, MainInv
<1>3. entered \in [Core -> 0 .. 1] /\ trace \in 0 .. 1
  BY ForkNames DEF ForkInv, Fork!TypeOK
<1>4. ASSUME fc = "wait", core' \in [Core -> {"idle", "entry", "pe_entry", "joined", "return"}],
             core'[0] # "idle", entered' \in [Core -> 0 .. 1], trace' \in 0 .. 1
      PROVE  MainInv' /\ Fork!TypeOK'
  <2>1. core' = [c \in Core |-> core'[c]]
    BY <1>4
  <2> QED BY <1>1, <1>4, <2>1, ClusterMoves, ForkNames DEF ForkInv, Fork!TypeOK
<1>5. CASE Fork!cluster_entry
  <2>1. /\ fc = "wait" /\ core[0] = "entry" /\ Alone({"entry"})
    BY <1>5, ZeroIsACore, AtWork DEF Fork!cluster_entry, ForkInv, Alone, AllAt
  <2>2. /\ entered' = entered /\ \A c \in Core : entered[c] = 0
        /\ trace' = IF program = "vcd" THEN 1 ELSE trace
    BY <1>5, <2>1 DEF Fork!cluster_entry, Fork!gv_vcd_dump_trace, ForkInv
  <2>3. \/ core' = [core EXCEPT ![0] = "return"]
        \/ core' = [c \in Core |-> "pe_entry"]
    BY <1>5, ForkNames DEF Fork!cluster_entry, Fork!rt_team_fork
  <2>4. /\ core' \in [Core -> {"idle", "entry", "pe_entry", "joined", "return"}]
        /\ Alone({"return"})' \/ AllAt({"pe_entry"})'
        /\ core'[0] # "idle" /\ core'[0] # "entry"
    BY <1>2, <2>1, <2>3, ZeroIsACore DEF Alone, AllAt
  <2>5. MainInv' /\ Fork!TypeOK'
    BY <1>3, <1>4, <2>1, <2>2, <2>4
  <2> QED BY <1>1, <2>1, <2>2, <2>4, <2>5, ZeroIsACore DEF ForkInv, Alone, AllAt
<1>6. CASE Fork!Join
  <2>1. AllAt({"joined"}) /\ fc = "wait"
    BY <1>6, ForkNames, ZeroIsACore, AtWork DEF Fork!Join, Fork!Joined, AllAt
  <2>2. /\ entered' = entered /\ trace' = IF program = "vcd" THEN 0 ELSE trace
        /\ core' = [c \in Core |-> IF c = 0 THEN "return" ELSE "idle"]
    BY <1>6, ForkNames DEF Fork!Join, Fork!gv_vcd_dump_trace, Fork!JoinedTeam
  <2>3. /\ core' \in [Core -> {"idle", "entry", "pe_entry", "joined", "return"}]
        /\ Alone({"return"})' /\ core'[0] = "return"
    BY <2>2, ZeroIsACore DEF Alone
  <2>4. MainInv' /\ Fork!TypeOK'
    BY <1>3, <1>4, <2>1, <2>2, <2>3
  <2> QED BY <1>1, <2>1, <2>3, <2>4, ZeroIsACore DEF ForkInv, Alone, AllAt
<1>7. ASSUME NEW c \in Core, Fork!pe_entry(c) PROVE MainInv' /\ ForkInv'
  <2>1. /\ core[c] = "pe_entry" /\ fc = "wait" /\ AllAt({"pe_entry", "joined"})
        /\ core' = [core EXCEPT ![c] = "joined"] /\ trace' = trace
        /\ entered' = [entered EXCEPT ![c] = 1]
    <3>1. /\ core[c] = "pe_entry" /\ core' = [core EXCEPT ![c] = "joined"] /\ trace' = trace
          /\ entered' = [entered EXCEPT ![c] = @ + 1]
      BY <1>7 DEF Fork!pe_entry
    <3>2. fc = "wait" /\ entered[c] = 0
      BY <3>1, AtWork DEF ForkInv
    <3>3. AllAt({"pe_entry", "joined"})
      BY <3>1, <3>2, ZeroIsACore DEF ForkInv, Alone
    <3> QED BY <3>1, <3>2, <3>3
  <2>2. /\ core' \in [Core -> {"idle", "entry", "pe_entry", "joined", "return"}]
        /\ core'[c] = "joined" /\ AllAt({"pe_entry", "joined"})'
        /\ \A d \in Core \ {c} : core'[d] = core[d]
    BY <1>2, <2>1 DEF AllAt
  <2>3. entered' \in [Core -> 0 .. 1] /\ \A d \in Core \ {c} : entered'[d] = entered[d]
    BY <1>3, <2>1
  <2>4. core'[0] \in {"pe_entry", "joined"}
    BY <2>2, ZeroIsACore DEF AllAt
  <2>5. MainInv' /\ Fork!TypeOK'
    BY <1>3, <1>4, <2>1, <2>2, <2>3, <2>4
  <2> QED BY <1>1, <2>1, <2>2, <2>3, <2>4, <2>5 DEF ForkInv
<1> QED BY <1>5, <1>6, <1>7, ForkNames DEF Fork!Cluster

-----------------------------------------------------------------------------
(* Performance counters.                                                   *)

\* What the calls leave behind.
LEMMA ConfCounters ==
  ASSUME NEW one \in Counters, NEW events \in SUBSET PerfEvent
  PROVE  rt_perf_conf(one, events) \in Counters /\ rt_perf_conf(one, events).conf = events
<1>1. /\ one = [conf |-> one.conf, on |-> one.on, count |-> one.count]
      /\ one.on \in BOOLEAN /\ one.count \in [PerfEvent -> Nat]
  BY DEF Counters
<1> QED BY <1>1 DEF rt_perf_conf, Counters

LEMMA SwitchCounters ==
  ASSUME NEW one \in Counters
  PROVE  /\ rt_perf_reset(one) \in Counters
         /\ rt_perf_reset(one).conf = one.conf /\ rt_perf_reset(one).count = Zero
         /\ rt_perf_start(one) \in Counters /\ rt_perf_start(one).on
         /\ rt_perf_start(one).conf = one.conf /\ rt_perf_start(one).count = one.count
         /\ rt_perf_stop(one) \in Counters /\ ~ rt_perf_stop(one).on
         /\ rt_perf_stop(one).conf = one.conf /\ rt_perf_stop(one).count = one.count
<1>1. /\ one = [conf |-> one.conf, on |-> one.on, count |-> one.count]
      /\ one.conf \in SUBSET PerfEvent /\ one.on \in BOOLEAN /\ one.count \in [PerfEvent -> Nat]
  BY DEF Counters
<1>2. Zero \in [PerfEvent -> Nat]
  BY DEF Zero
<1>3. /\ rt_perf_reset(one) \in Counters
      /\ rt_perf_reset(one).conf = one.conf /\ rt_perf_reset(one).count = Zero
  BY <1>1, <1>2 DEF rt_perf_reset, Counters
<1>4. /\ rt_perf_start(one) \in Counters /\ rt_perf_start(one).on
      /\ rt_perf_start(one).conf = one.conf /\ rt_perf_start(one).count = one.count
  BY <1>1 DEF rt_perf_start, Counters
<1>5. /\ rt_perf_stop(one) \in Counters /\ ~ rt_perf_stop(one).on
      /\ rt_perf_stop(one).conf = one.conf /\ rt_perf_stop(one).count = one.count
  BY <1>1 DEF rt_perf_stop, Counters
<1> QED BY <1>3, <1>4, <1>5

LEMMA OccurCounters ==
  ASSUME NEW one \in Counters, NEW some, NEW times \in Nat
  PROVE  /\ Occur(one, some, times) \in Counters
         /\ Occur(one, some, times).conf = one.conf /\ Occur(one, some, times).on = one.on
         /\ one.on => \A e \in one.conf \cap some :
              Occur(one, some, times).count[e] = one.count[e] + times
         /\ \A e \in PerfEvent : ~ one.on \/ e \notin one.conf \cap some =>
              Occur(one, some, times).count[e] = one.count[e]
<1>1. /\ one = [conf |-> one.conf, on |-> one.on, count |-> one.count]
      /\ one.conf \in SUBSET PerfEvent /\ one.on \in BOOLEAN /\ one.count \in [PerfEvent -> Nat]
  BY DEF Counters
<1>2. Occur(one, some, times) \in Counters
  BY <1>1 DEF Occur, Counters
<1>3. Occur(one, some, times).conf = one.conf /\ Occur(one, some, times).on = one.on
  BY <1>1 DEF Occur
<1>4. one.on => \A e \in one.conf \cap some :
        Occur(one, some, times).count[e] = one.count[e] + times
  BY <1>1 DEF Occur
<1>5. \A e \in PerfEvent : ~ one.on \/ e \notin one.conf \cap some =>
        Occur(one, some, times).count[e] = one.count[e]
  BY <1>1 DEF Occur
<1> QED BY <1>2, <1>3, <1>4, <1>5

-----------------------------------------------------------------------------
(* perf/cluster/cumulative.                                                *)

InBench == {"conf", "start", "bench", "save", "joined"}

\* Core c's structure holds what occurred in the benchmarks of the passes whose
\* counters it has saved.
Cumulated(c) ==
  \A e \in PerfEvent :
    perf[c][e] = IF core[c] = "save" /\ e \in PASSES[pass] THEN 0 ELSE work[c][e]

\* The events of the passes whose benchmark core c has still to run.
StillToRun(c) == {p \in 1 .. Len(PASSES) : p > pass \/ (p = pass /\ core[c] \notin {"save", "joined"})}

\* Core c's counters, from the moment they are configured.
Counting(c) ==
  /\ core[c] \in {"start", "bench", "save"} => hw[c].conf = PASSES[pass]
  /\ core[c] = "bench" => hw[c].on /\ hw[c].count = Zero
  /\ core[c] = "save" => \A e \in PASSES[pass] : hw[c].count[e] = work[c][e]

\* Cumulative!TypeOK, in the names of this module.
CumulativeTypes ==
  /\ fc \in {"mount", "call", "wait", "unmount", "exit_0", "exit_-1"} /\ mounted \in BOOLEAN
  /\ core \in [Core -> InBench \cup {"idle", "entry", "do_bench", "display", "return"}]
  /\ pass \in 1 .. Len(PASSES) + 1 /\ cores_events \subseteq PerfEvent
  /\ hw \in [Core -> Counters] /\ perf \in [Core -> [PerfEvent -> Nat]]
  /\ work \in [Core -> [PerfEvent -> 0 .. MAX_WORK]]

CumulativeInv ==
  /\ CumulativeTypes
  /\ fc = "wait" => Alone({"entry", "do_bench", "display", "return"}) \/ AllAt(InBench)
  /\ fc \in {"mount", "call"} \/ core[0] = "entry" => pass = 1 /\ work = [c \in Core |-> Zero]
  /\ core[0] \in InBench \cup {"do_bench"} => pass <= Len(PASSES)
  /\ core[0] \in InBench => cores_events = PASSES[pass]
  /\ core[0] \in InBench \cup {"do_bench", "display"} => \A c \in Core : Cumulated(c)
  /\ \A c \in Core : /\ \A p \in StillToRun(c) : \A e \in PASSES[p] : work[c][e] = 0
                     /\ Counting(c)

LEMMA CumulativeNames ==
  /\ Cumulative!Core = Core /\ Cumulative!Zero = Zero /\ Cumulative!Counters = Counters
  /\ \A left : Cumulative!PerfReset(left) = PerfReset(left)
  /\ Cumulative!LeftOver = 0 .. 1
  /\ \A one, events : Cumulative!rt_perf_conf(one, events) = rt_perf_conf(one, events)
  /\ \A one : Cumulative!rt_perf_reset(one) = rt_perf_reset(one)
  /\ \A one : Cumulative!rt_perf_start(one) = rt_perf_start(one)
  /\ \A one : Cumulative!rt_perf_stop(one) = rt_perf_stop(one)
  /\ \A one, some, times : Cumulative!Occur(one, some, times) = Occur(one, some, times)
BY DEF Cumulative!Core, Core, Cumulative!Zero, Zero, Cumulative!Counters, Counters,
       Cumulative!PerfReset, PerfReset, Cumulative!LeftOver,
       Cumulative!rt_perf_conf, rt_perf_conf, Cumulative!rt_perf_reset, rt_perf_reset,
       Cumulative!rt_perf_start, rt_perf_start, Cumulative!rt_perf_stop, rt_perf_stop,
       Cumulative!Occur, Occur

\* The groups of events, no event in two of them.
LEMMA Groups ==
  /\ Len(PASSES) \in Nat \ {0} /\ \A p \in 1 .. Len(PASSES) : PASSES[p] \in SUBSET PerfEvent
  /\ \A p, q \in 1 .. Len(PASSES) : p # q => PASSES[p] \cap PASSES[q] = {}
  /\ MAX_WORK \in Nat
BY ProgramsAssumption DEF Cumulative!PassAssumption

LEMMA CumulativeTypesOK == CumulativeTypes => Cumulative!TypeOK
<1>1. Cumulative!Label = InBench \cup {"idle", "entry", "do_bench", "display", "return"}
  BY DEF Cumulative!Label, InBench
<1> QED BY <1>1, CumulativeNames DEF Cumulative!TypeOK, CumulativeTypes

LEMMA ResetType == ASSUME NEW left \in 0 .. 1 PROVE PerfReset(left) \in Counters
<1>1. [e \in PerfEvent |-> left] \in [PerfEvent -> Nat]
  OBVIOUS
<1> QED BY <1>1 DEF PerfReset, Counters

LEMMA ZeroType == Zero \in [PerfEvent -> 0 .. MAX_WORK] /\ \A e \in PerfEvent : Zero[e] = 0
BY Groups DEF Zero

LEMMA CumulativeInit ==
  ASSUME Cumulative!Init
  PROVE  MainInv /\ CumulativeInv
<1>1. MainInit
  BY DEF Cumulative!Init, Cumulative!MainInit, MainInit, Cumulative!Core, Core
<1>2. MainInv /\ fc = "mount" /\ \A c \in Core : core[c] = "idle"
  BY <1>1, MainInit0 DEF MainInit, AllAt
<1>3. PICK left \in 0 .. 1 : /\ hw = [c \in Core |-> PerfReset(left)]
                             /\ perf = [c \in Core |-> [e \in PerfEvent |-> left]]
  BY CumulativeNames DEF Cumulative!Init
<1>4. pass = 1 /\ cores_events = {} /\ work = [c \in Core |-> Zero]
  BY CumulativeNames DEF Cumulative!Init
<1>5. CumulativeTypes
  <2>1. hw \in [Core -> Counters] /\ perf \in [Core -> [PerfEvent -> Nat]]
    BY <1>3, ResetType
  <2>2. work \in [Core -> [PerfEvent -> 0 .. MAX_WORK]]
    BY <1>4, ZeroType
  <2>3. core \in [Core -> InBench \cup {"idle", "entry", "do_bench", "display", "return"}]
    BY <1>2 DEF MainInv
  <2> QED BY <1>2, <1>4, <2>1, <2>2, <2>3, Groups DEF MainInv, CumulativeTypes
<1>6. ASSUME NEW c \in Core
      PROVE  (\A p \in StillToRun(c) : \A e \in PASSES[p] : work[c][e] = 0) /\ Counting(c)
  BY <1>2, <1>4, ZeroType, Groups DEF StillToRun, Counting
<1> QED BY <1>2, <1>4, <1>5, <1>6, ZeroIsACore DEF CumulativeInv, InBench

LEMMA CumulativeFcStep ==
  ASSUME MainInv, CumulativeInv, Cumulative!Fc
  PROVE  MainInv' /\ CumulativeInv'
<1>1. FcMove /\ UNCHANGED << pass, cores_events, hw, perf, work >>
  BY DEF Cumulative!Fc, Cumulative!Mount, Cumulative!Call, Cumulative!CallFails,
         Cumulative!Return, Cumulative!Unmount, FcMove, Quiet, Call, Return
<1>2. core[0] = "return" => Alone({"return"})
  BY ZeroIsACore DEF CumulativeInv, MainInv, Alone, AllAt, InBench
<1>3. /\ MainInv'
      /\ Quiet => AllAt({"idle"}) /\ AllAt({"idle"})'
      /\ Call => AllAt({"idle"}) /\ Alone({"entry"})'
      /\ Return => AllAt({"idle"})'
  BY <1>1, <1>2, FcMoveKeeps
<1>4. \A c \in Core : core'[c] \in {"idle", "entry"}
  BY <1>1, <1>3 DEF FcMove, AllAt, Alone
<1>5. CumulativeTypes'
  <2>1. core' \in [Core -> InBench \cup {"idle", "entry", "do_bench", "display", "return"}]
    BY <1>3, <1>4 DEF MainInv
  <2>2. fc' \in {"mount", "call", "wait", "unmount", "exit_0", "exit_-1"}
    BY DEF Cumulative!Fc, Cumulative!Mount, Cumulative!Call, Cumulative!CallFails,
           Cumulative!Return, Cumulative!Unmount
  <2> QED BY <1>1, <1>3, <2>1, <2>2 DEF MainInv, CumulativeInv, CumulativeTypes
<1>6. ASSUME NEW c \in Core
      PROVE  (\A p \in StillToRun(c)' : \A e \in PASSES[p] : work[c][e]' = 0) /\ Counting(c)'
  <2>1. \A p \in StillToRun(c)' : p \in StillToRun(c)
    BY <1>1, <1>2, <1>3 DEF StillToRun, FcMove, AllAt, Call, Return, Alone
  <2> QED BY <1>1, <1>4, <2>1 DEF CumulativeInv, Counting
<1>7. fc' \in {"mount", "call"} \/ core'[0] = "entry" => fc \in {"mount", "call", "alloc"}
  BY <1>1, <1>3, ZeroIsACore DEF FcMove, Quiet, Call, Return, AllAt
<1>8. fc' = "wait" => Alone({"entry"})'
  BY <1>1, <1>3 DEF FcMove, Quiet, Return
<1>9. fc \in {"mount", "call", "alloc"} => fc \in {"mount", "call"}
  BY DEF CumulativeInv, CumulativeTypes
<1> QED BY <1>1, <1>3, <1>4, <1>5, <1>6, <1>7, <1>8, <1>9, ZeroIsACore
        DEF CumulativeInv, InBench, Alone

\* Core 0's steps.
LEMMA CumulativeCore0Step ==
  ASSUME MainInv, CumulativeInv, Cumulative!cluster_entry \/ Cumulative!do_bench_1
                                 \/ Cumulative!Join \/ Cumulative!Display
  PROVE  MainInv' /\ CumulativeInv'
<1>1. UNCHANGED << fc, mounted, hw, work >>
  BY DEF Cumulative!cluster_entry, Cumulative!do_bench_1, Cumulative!Join, Cumulative!Display
<1>2. core \in [Core -> InBench \cup {"idle", "entry", "do_bench", "display", "return"}] /\ 0 \in Core
  BY ZeroIsACore DEF CumulativeInv, CumulativeTypes
<1>3. /\ fc = "wait"
      /\ Alone({"entry", "do_bench", "display", "return"}) \/ AllAt(InBench)
      /\ pass \in 1 .. Len(PASSES) + 1
  <2>1. core[0] # "idle"
    BY <1>2, CumulativeNames DEF Cumulative!cluster_entry, Cumulative!do_bench_1, Cumulative!Join,
           Cumulative!Joined, Cumulative!Display
  <2> QED BY <2>1, <1>2, AtWork DEF CumulativeInv, CumulativeTypes
<1>4. ASSUME core' \in [Core -> InBench \cup {"idle", "entry", "do_bench", "display", "return"}],
             core'[0] # "idle", pass' \in 1 .. Len(PASSES) + 1, cores_events' \subseteq PerfEvent,
             perf' \in [Core -> [PerfEvent -> Nat]]
      PROVE  MainInv' /\ CumulativeTypes'
  <2>1. core' = [c \in Core |-> core'[c]]
    BY <1>4
  <2>2. fc = "wait" /\ UNCHANGED << fc, mounted >>
    BY <1>1, <1>3
  <2>3. MainInv'
    BY <1>4, <2>1, <2>2, ClusterMoves
  <2> QED BY <1>1, <1>4, <2>3 DEF CumulativeInv, CumulativeTypes
<1> DEFINE Own(c) == /\ Counting(c)
                     /\ \A p \in StillToRun(c) : \A e \in PASSES[p] : work[c][e] = 0
<1>9. ASSUME CumulativeTypes', \A c \in Core : Own(c)',
             \/ Alone({"do_bench", "display", "return"})'
             \/ AllAt(InBench)' /\ cores_events' = PASSES[pass'] /\ pass' <= Len(PASSES),
             core'[0] = "do_bench" => pass' <= Len(PASSES),
             core'[0] = "return" \/ \A c \in Core : Cumulated(c)'
      PROVE  CumulativeInv'
  <2>1. fc' = "wait"
    BY <1>1, <1>3
  <2>2. CASE Alone({"do_bench", "display", "return"})'
    <3>1. /\ Alone({"entry", "do_bench", "display", "return"})'
          /\ core'[0] \in {"do_bench", "display", "return"}
          /\ core'[0] \notin InBench /\ core'[0] # "entry"
      BY <2>2 DEF Alone, InBench
    <3> QED BY <1>9, <2>1, <3>1 DEF CumulativeInv
  <2>3. CASE AllAt(InBench)' /\ cores_events' = PASSES[pass'] /\ pass' <= Len(PASSES)
    <3>1. core'[0] \in InBench /\ core'[0] # "entry" /\ core'[0] # "return"
      BY <1>2, <2>3 DEF AllAt, InBench
    <3> QED BY <1>9, <2>1, <2>3, <3>1 DEF CumulativeInv
  <2> QED BY <1>9, <2>2, <2>3
<1>5. CASE Cumulative!cluster_entry
  <2>1. /\ core[0] = "entry" /\ core' = [core EXCEPT ![0] = "do_bench"]
        /\ perf' = [c \in Core |-> Zero] /\ pass' = pass /\ cores_events' = cores_events
    BY <1>5, CumulativeNames DEF Cumulative!cluster_entry
  <2>2. Alone({"entry"}) /\ pass = 1 /\ work = [c \in Core |-> Zero]
    BY <1>2, <1>3, <2>1 DEF CumulativeInv, Alone, AllAt, InBench
  <2>3. /\ core' \in [Core -> InBench \cup {"idle", "entry", "do_bench", "display", "return"}]
        /\ Alone({"do_bench"})' /\ core'[0] = "do_bench" /\ \A c \in Core : core'[c] \in {"do_bench", "idle"}
    BY <1>2, <2>1, <2>2 DEF Alone
  <2>4. perf' \in [Core -> [PerfEvent -> Nat]]
    BY <2>1, ZeroType
  <2>5. MainInv' /\ CumulativeTypes'
    BY <1>3, <1>4, <2>1, <2>3, <2>4 DEF CumulativeInv, CumulativeTypes
  <2>6. ASSUME NEW c \in Core
        PROVE  /\ Cumulated(c)' /\ Counting(c)'
               /\ \A p \in StillToRun(c)' : \A e \in PASSES[p] : work'[c][e] = 0
    BY <1>1, <2>1, <2>2, <2>3, ZeroType, Groups DEF Cumulated, Counting, StillToRun
  <2>7. Alone({"do_bench", "display", "return"})' /\ pass' <= Len(PASSES)
    BY <2>1, <2>2, <2>3, Groups DEF Alone
  <2> QED BY <1>9, <2>5, <2>6, <2>7
<1>6. CASE Cumulative!do_bench_1
  <2>1. /\ core[0] = "do_bench" /\ core' = [c \in Core |-> "conf"] /\ pass <= Len(PASSES)
        /\ cores_events' = PASSES[pass] /\ pass' = pass /\ perf' = perf
    BY <1>6, CumulativeNames DEF Cumulative!do_bench_1, Cumulative!rt_team_fork
  <2>2. Alone({"do_bench"}) /\ \A c \in Core : core[c] \in {"do_bench", "idle"}
    BY <1>2, <1>3, <2>1 DEF CumulativeInv, Alone, AllAt, InBench
  <2>3. /\ core' \in [Core -> InBench \cup {"idle", "entry", "do_bench", "display", "return"}]
        /\ AllAt(InBench)' /\ core'[0] = "conf" /\ \A c \in Core : core'[c] = "conf"
    BY <1>2, <2>1 DEF AllAt, InBench
  <2>4. MainInv' /\ CumulativeTypes'
    <3>1. PASSES[pass] \subseteq PerfEvent
      BY <1>3, <2>1, Groups
    <3>2. perf' \in [Core -> [PerfEvent -> Nat]]
      BY <2>1 DEF CumulativeInv, CumulativeTypes
    <3> QED BY <1>3, <1>4, <2>1, <2>3, <3>1, <3>2
  <2>5. ASSUME NEW c \in Core
        PROVE  /\ Cumulated(c)' /\ Counting(c)'
               /\ \A p \in StillToRun(c)' : \A e \in PASSES[p] : work'[c][e] = 0
    <3>1. Cumulated(c)'
      BY <1>1, <2>1, <2>2, <2>3 DEF Cumulated, CumulativeInv
    <3>2. StillToRun(c)' = StillToRun(c)
      BY <2>1, <2>2, <2>3 DEF StillToRun
    <3> QED BY <1>1, <2>3, <3>1, <3>2 DEF CumulativeInv, Counting
  <2>6. cores_events' = PASSES[pass'] /\ pass' <= Len(PASSES) /\ core'[0] = "conf"
    BY <2>1, <2>3
  <2> QED BY <1>9, <2>3, <2>4, <2>5, <2>6
<1>7. CASE Cumulative!Join
  <2>1. /\ \A c \in Core : core[c] = "joined"
        /\ core' = [c \in Core |-> IF c = 0 THEN IF pass = Len(PASSES) THEN "display" ELSE "do_bench"
                                            ELSE "idle"]
        /\ pass' = pass + 1 /\ cores_events' = cores_events /\ perf' = perf
    BY <1>7, CumulativeNames DEF Cumulative!Join, Cumulative!Joined, Cumulative!JoinedTeam
  <2>2. pass <= Len(PASSES)
    BY <1>2, <2>1 DEF CumulativeInv, InBench
  <2>3. /\ core' \in [Core -> InBench \cup {"idle", "entry", "do_bench", "display", "return"}]
        /\ Alone({"do_bench", "display"})' /\ core'[0] \in {"do_bench", "display"}
        /\ core'[0] = "do_bench" => pass' <= Len(PASSES)
        /\ \A c \in Core : core'[c] \in {"do_bench", "display", "idle"}
    BY <1>2, <1>3, <2>1, <2>2, Groups DEF Alone
  <2>4. MainInv' /\ CumulativeTypes'
    <3>1. pass' \in 1 .. Len(PASSES) + 1
      BY <1>3, <2>1, <2>2, Groups
    <3>2. perf' \in [Core -> [PerfEvent -> Nat]] /\ cores_events' \subseteq PerfEvent
      BY <2>1 DEF CumulativeInv, CumulativeTypes
    <3>3. core'[0] # "idle"
      BY <2>3
    <3> QED BY <1>4, <2>3, <3>1, <3>2, <3>3
  <2>5. ASSUME NEW c \in Core
        PROVE  /\ Cumulated(c)' /\ Counting(c)'
               /\ \A p \in StillToRun(c)' : \A e \in PASSES[p] : work'[c][e] = 0
    <3>1. Cumulated(c)'
      BY <1>1, <1>2, <2>1, <2>3 DEF Cumulated, CumulativeInv, InBench
    <3>2. StillToRun(c)' \subseteq StillToRun(c)
      <4>1. pass \in Nat /\ \A p \in 1 .. Len(PASSES) : p >= pass' => p > pass
        BY <1>3, <2>1, Groups
      <4>2. \A p \in StillToRun(c)' : p \in 1 .. Len(PASSES) /\ p >= pass'
        <5>1. pass' \in Nat
          BY <2>1, <4>1
        <5> QED BY <5>1, Groups DEF StillToRun
      <4>3. \A p \in StillToRun(c)' : p \in 1 .. Len(PASSES) /\ p > pass
        BY <4>1, <4>2
      <4>4. \A p \in 1 .. Len(PASSES) : p > pass => p \in StillToRun(c)
        BY <4>1, Groups DEF StillToRun
      <4> QED BY <4>3, <4>4
    <3> QED BY <1>1, <2>3, <3>1, <3>2 DEF CumulativeInv, Counting
  <2>6. Alone({"do_bench", "display", "return"})'
    BY <2>3 DEF Alone
  <2> QED BY <1>9, <2>3, <2>4, <2>5, <2>6
<1>8. CASE Cumulative!Display
  <2>1. /\ core[0] = "display" /\ core' = [core EXCEPT ![0] = "return"]
        /\ pass' = pass /\ cores_events' = cores_events /\ perf' = perf
    BY <1>8 DEF Cumulative!Display
  <2>2. Alone({"display"}) /\ \A c \in Core : core[c] \in {"display", "idle"}
    BY <1>2, <1>3, <2>1 DEF CumulativeInv, Alone, AllAt, InBench
  <2>3. /\ core' \in [Core -> InBench \cup {"idle", "entry", "do_bench", "display", "return"}]
        /\ Alone({"return"})' /\ core'[0] = "return" /\ \A c \in Core : core'[c] \in {"return", "idle"}
    BY <1>2, <2>1, <2>2 DEF Alone
  <2>4. MainInv' /\ CumulativeTypes'
    BY <1>3, <1>4, <2>1, <2>3 DEF CumulativeInv, CumulativeTypes
  <2>5. ASSUME NEW c \in Core
        PROVE  /\ Counting(c)'
               /\ \A p \in StillToRun(c)' : \A e \in PASSES[p] : work'[c][e] = 0
    <3>1. StillToRun(c)' = StillToRun(c)
      BY <2>1, <2>2, <2>3 DEF StillToRun
    <3> QED BY <1>1, <2>3, <3>1 DEF CumulativeInv, Counting
  <2>6. Alone({"do_bench", "display", "return"})'
    BY <2>3 DEF Alone
  <2> QED BY <1>9, <2>3, <2>4, <2>5, <2>6
<1> QED BY <1>5, <1>6, <1>7, <1>8

\* A core's step in a pass: what such a step has to keep, of that core.
LEMMA CumulativePeMoves ==
  ASSUME MainInv, CumulativeInv, NEW c \in Core, NEW label \in InBench, core[c] \in InBench,
         core' = [core EXCEPT ![c] = label], hw' \in [Core -> Counters],
         perf' \in [Core -> [PerfEvent -> Nat]], work' \in [Core -> [PerfEvent -> 0 .. MAX_WORK]],
         UNCHANGED << fc, mounted, pass, cores_events >>,
         \A d \in Core \ {c} : hw'[d] = hw[d] /\ perf'[d] = perf[d] /\ work'[d] = work[d],
         Cumulated(c)', Counting(c)',
         \A p \in StillToRun(c)' : \A e \in PASSES[p] : work'[c][e] = 0
  PROVE  MainInv' /\ CumulativeInv'
<1>1. core \in [Core -> InBench \cup {"idle", "entry", "do_bench", "display", "return"}] /\ 0 \in Core
  BY ZeroIsACore DEF CumulativeInv, CumulativeTypes
<1>2. fc = "wait" /\ AllAt(InBench) /\ pass <= Len(PASSES) /\ cores_events = PASSES[pass]
  <2>1. fc = "wait"
    BY AtWork DEF InBench
  <2>2. AllAt(InBench)
    BY <2>1, <1>1 DEF CumulativeInv, Alone, InBench
  <2> QED BY <1>1, <2>1, <2>2 DEF CumulativeInv, AllAt
<1>3. /\ core' \in [Core -> InBench \cup {"idle", "entry", "do_bench", "display", "return"}]
      /\ AllAt(InBench)' /\ core'[c] = label /\ \A d \in Core \ {c} : core'[d] = core[d]
  BY <1>1, <1>2 DEF AllAt
<1>4. core'[0] \in InBench /\ core'[0] \notin {"idle", "entry"}
  BY <1>1, <1>3 DEF AllAt, InBench
<1>5. MainInv'
  <2>1. core' = [d \in Core |-> core'[d]]
    BY <1>3
  <2> QED BY <1>2, <1>4, <2>1, ClusterMoves
<1>6. CumulativeTypes'
  BY <1>3 DEF CumulativeInv, CumulativeTypes
<1>7. \A d \in Core : Cumulated(d)
  BY <1>1, <1>2 DEF CumulativeInv, AllAt
<1>8. ASSUME NEW d \in Core
      PROVE  /\ Cumulated(d)' /\ Counting(d)'
             /\ \A p \in StillToRun(d)' : \A e \in PASSES[p] : work'[d][e] = 0
  <2>1. CASE d = c
    BY <2>1
  <2>2. CASE d # c
    <3>1. /\ core'[d] = core[d] /\ hw'[d] = hw[d] /\ perf'[d] = perf[d] /\ work'[d] = work[d]
          /\ pass' = pass
      BY <1>3, <2>2
    <3>2. StillToRun(d)' = StillToRun(d)
      BY <3>1 DEF StillToRun
    <3>3. Cumulated(d)'
      BY <3>1, <1>7 DEF Cumulated
    <3>4. Counting(d)'
      <4>1. Counting(d)
        BY DEF CumulativeInv
      <4> QED BY <3>1, <4>1 DEF Counting
    <3>5. \A p \in StillToRun(d)' : \A e \in PASSES[p] : work'[d][e] = 0
      BY <3>1, <3>2 DEF CumulativeInv
    <3> QED BY <3>3, <3>4, <3>5
  <2> QED BY <2>1, <2>2
<1> QED BY <1>2, <1>3, <1>4, <1>5, <1>6, <1>8 DEF CumulativeInv

LEMMA CumulativePeStep ==
  ASSUME MainInv, CumulativeInv, NEW c \in Core, Cumulative!do_bench_1_pe(c)
  PROVE  MainInv' /\ CumulativeInv'
<1>1. /\ UNCHANGED << fc, mounted, pass, cores_events >>
      /\ hw \in [Core -> Counters] /\ perf \in [Core -> [PerfEvent -> Nat]]
      /\ work \in [Core -> [PerfEvent -> 0 .. MAX_WORK]]
      /\ pass \in Nat /\ cores_events \in SUBSET PerfEvent
  <2>1. UNCHANGED << fc, mounted, pass, cores_events >>
    BY DEF Cumulative!do_bench_1_pe, Cumulative!Conf, Cumulative!ResetStart, Cumulative!Bench,
           Cumulative!Save
  <2>2. pass \in 1 .. Len(PASSES) + 1
    BY DEF CumulativeInv, CumulativeTypes
  <2>3. pass \in Nat
    BY <2>2, Groups
  <2>4. /\ hw \in [Core -> Counters] /\ perf \in [Core -> [PerfEvent -> Nat]]
        /\ work \in [Core -> [PerfEvent -> 0 .. MAX_WORK]]
        /\ cores_events \in SUBSET PerfEvent
    BY DEF CumulativeInv, CumulativeTypes
  <2> QED BY <2>1, <2>3, <2>4
<1>2. ASSUME core[c] \in InBench
      PROVE  /\ Cumulated(c) /\ Counting(c) /\ pass \in 1 .. Len(PASSES)
             /\ cores_events = PASSES[pass] /\ PASSES[pass] \in SUBSET PerfEvent
             /\ \A p \in StillToRun(c) : \A e \in PASSES[p] : work[c][e] = 0
  <2>1. fc = "wait"
    BY <1>2, AtWork DEF InBench
  <2>2. AllAt(InBench)
    BY <1>2, <2>1 DEF CumulativeInv, Alone, InBench
  <2>3. core[0] \in InBench
    BY <2>2, ZeroIsACore DEF AllAt
  <2>4. pass \in 1 .. Len(PASSES) /\ cores_events = PASSES[pass] /\ \A d \in Core : Cumulated(d)
    <3>1. pass \in 1 .. Len(PASSES) + 1 /\ pass <= Len(PASSES)
      BY <2>3 DEF CumulativeInv, CumulativeTypes
    <3>2. cores_events = PASSES[pass] /\ \A d \in Core : Cumulated(d)
      BY <2>3 DEF CumulativeInv
    <3> QED BY <3>1, <3>2, Groups
  <2>5. PASSES[pass] \in SUBSET PerfEvent
    BY <2>4, Groups
  <2>6. Counting(c) /\ \A p \in StillToRun(c) : \A e \in PASSES[p] : work[c][e] = 0
    BY DEF CumulativeInv
  <2> QED BY <2>4, <2>5, <2>6
<1>3. CASE Cumulative!Conf(c)
  <2>1. /\ core[c] = "conf" /\ core' = [core EXCEPT ![c] = "start"]
        /\ hw' = [hw EXCEPT ![c] = rt_perf_conf(hw[c], cores_events)]
        /\ perf' = perf /\ work' = work
    BY <1>3, CumulativeNames DEF Cumulative!Conf, Cumulative!Set
  <2>2. core'[c] = "start"
    BY <2>1 DEF CumulativeInv, CumulativeTypes
  <2>3. Cumulated(c) /\ cores_events = PASSES[pass]
    BY <1>2, <2>1 DEF InBench
  <2>4. hw'[c].conf = PASSES[pass] /\ hw' \in [Core -> Counters]
    <3>1. hw[c] \in Counters
      BY <1>1
    <3>2. /\ rt_perf_conf(hw[c], cores_events).conf = cores_events
          /\ rt_perf_conf(hw[c], cores_events) \in Counters
      <4>1. cores_events \in SUBSET PerfEvent
        BY <1>1
      <4> QED BY <3>1, <4>1, ConfCounters
    <3> QED BY <1>1, <2>1, <2>3, <3>2
  <2>5. Cumulated(c)' /\ Counting(c)'
    BY <1>1, <2>1, <2>2, <2>3, <2>4 DEF Cumulated, Counting
  <2>6. StillToRun(c)' = StillToRun(c)
    BY <1>1, <2>1, <2>2 DEF StillToRun
  <2>7. "start" \in InBench /\ core[c] \in InBench
    BY <2>1 DEF InBench
  <2> QED BY <1>1, <1>2, <2>1, <2>4, <2>5, <2>6, <2>7, CumulativePeMoves
<1>4. CASE Cumulative!ResetStart(c)
  <2>1. /\ core[c] = "start" /\ core' = [core EXCEPT ![c] = "bench"]
        /\ hw' = [hw EXCEPT ![c] = rt_perf_start(rt_perf_reset(hw[c]))]
        /\ perf' = perf /\ work' = work
    BY <1>4, CumulativeNames DEF Cumulative!ResetStart, Cumulative!Set
  <2>2. core'[c] = "bench"
    BY <2>1 DEF CumulativeInv, CumulativeTypes
  <2>3. Cumulated(c) /\ hw[c].conf = PASSES[pass]
    BY <1>2, <2>1 DEF InBench, Counting
  <2>4. /\ hw' \in [Core -> Counters] /\ hw'[c] = rt_perf_start(rt_perf_reset(hw[c]))
        /\ hw'[c].conf = PASSES[pass] /\ hw'[c].on /\ hw'[c].count = Zero
    <3>1. hw[c] \in Counters /\ rt_perf_reset(hw[c]) \in Counters
      BY <1>1, SwitchCounters
    <3>2. /\ rt_perf_reset(hw[c]).conf = PASSES[pass] /\ rt_perf_reset(hw[c]).count = Zero
      BY <3>1, <2>3, SwitchCounters
    <3>3. /\ rt_perf_start(rt_perf_reset(hw[c])) \in Counters
          /\ rt_perf_start(rt_perf_reset(hw[c])).conf = PASSES[pass]
          /\ rt_perf_start(rt_perf_reset(hw[c])).count = Zero
          /\ rt_perf_start(rt_perf_reset(hw[c])).on
      BY <3>1, <3>2, SwitchCounters
    <3> QED BY <1>1, <2>1, <3>3
  <2>5. Cumulated(c)' /\ Counting(c)'
    BY <1>1, <2>1, <2>2, <2>3, <2>4 DEF Cumulated, Counting
  <2>6. StillToRun(c)' = StillToRun(c)
    BY <1>1, <2>1, <2>2 DEF StillToRun
  <2>7. "bench" \in InBench /\ core[c] \in InBench
    BY <2>1 DEF InBench
  <2> QED BY <1>1, <1>2, <2>1, <2>4, <2>5, <2>6, <2>7, CumulativePeMoves
<1>5. CASE Cumulative!Bench(c)
  <2>1. PICK times \in 0 .. MAX_WORK :
          /\ core[c] = "bench" /\ core' = [core EXCEPT ![c] = "save"]
          /\ hw' = [hw EXCEPT ![c] = rt_perf_stop(Occur(hw[c], PerfEvent, times))]
          /\ work' = [work EXCEPT ![c] =
               [e \in PerfEvent |-> IF e \in PASSES[pass] THEN times ELSE @[e]]]
          /\ perf' = perf
    BY <1>5, CumulativeNames DEF Cumulative!Bench, Cumulative!Set
  <2>2. core'[c] = "save" /\ times \in Nat
    <3>1. core'[c] = "save"
      BY <2>1 DEF CumulativeInv, CumulativeTypes
    <3> QED BY <3>1, Groups
  <2>3. /\ Cumulated(c) /\ hw[c].conf = PASSES[pass] /\ hw[c].on /\ hw[c].count = Zero
        /\ PASSES[pass] \subseteq PerfEvent /\ pass \in StillToRun(c)
    <3>1. pass \in 1 .. Len(PASSES) /\ core[c] \in InBench
      BY <1>2, <2>1 DEF InBench
    <3>2. pass \in StillToRun(c)
      BY <2>1, <3>1 DEF StillToRun
    <3> QED BY <1>2, <2>1, <3>1, <3>2 DEF Counting
  <2>4. /\ work' \in [Core -> [PerfEvent -> 0 .. MAX_WORK]]
        /\ work'[c] = [e \in PerfEvent |-> IF e \in PASSES[pass] THEN times ELSE work[c][e]]
        /\ \A d \in Core \ {c} : work'[d] = work[d]
    <3>1. [e \in PerfEvent |-> IF e \in PASSES[pass] THEN times ELSE work[c][e]]
            \in [PerfEvent -> 0 .. MAX_WORK]
      BY <1>1
    <3> QED BY <1>1, <2>1, <3>1
  <2>5. /\ hw' \in [Core -> Counters]
        /\ hw'[c].conf = PASSES[pass] /\ \A e \in PASSES[pass] : hw'[c].count[e] = times
    <3>1. hw[c] \in Counters
      BY <1>1
    <3>2. /\ Occur(hw[c], PerfEvent, times) \in Counters
          /\ Occur(hw[c], PerfEvent, times).conf = PASSES[pass]
          /\ \A e \in hw[c].conf \cap PerfEvent :
               Occur(hw[c], PerfEvent, times).count[e] = hw[c].count[e] + times
      <4>1. Occur(hw[c], PerfEvent, times) \in Counters
        BY <2>2, <3>1, OccurCounters
      <4>2. /\ Occur(hw[c], PerfEvent, times).conf = hw[c].conf
            /\ hw[c].on => \A e \in hw[c].conf \cap PerfEvent :
                 Occur(hw[c], PerfEvent, times).count[e] = hw[c].count[e] + times
        BY <2>2, <3>1, OccurCounters
      <4> QED BY <2>3, <4>1, <4>2
    <3>3. \A e \in PASSES[pass] : Occur(hw[c], PerfEvent, times).count[e] = times
      BY <2>2, <2>3, <3>2, ZeroType
    <3>4. /\ rt_perf_stop(Occur(hw[c], PerfEvent, times)) \in Counters
          /\ rt_perf_stop(Occur(hw[c], PerfEvent, times)).conf = PASSES[pass]
          /\ rt_perf_stop(Occur(hw[c], PerfEvent, times)).count
               = Occur(hw[c], PerfEvent, times).count
      BY <3>2, SwitchCounters
    <3> QED BY <1>1, <2>1, <3>3, <3>4
  <2>6. Cumulated(c)'
    <3>1. \A e \in PASSES[pass] : work[c][e] = 0
      BY <1>2, <2>1, <2>3 DEF InBench
    <3> QED BY <1>1, <2>1, <2>2, <2>3, <2>4, <3>1 DEF Cumulated
  <2>7. Counting(c)'
    BY <1>1, <2>2, <2>3, <2>4, <2>5 DEF Counting
  <2>8. ASSUME NEW p \in StillToRun(c)', NEW e \in PASSES[p] PROVE work'[c][e] = 0
    <3>1. p \in 1 .. Len(PASSES) /\ p > pass
      BY <1>1, <2>2 DEF StillToRun
    <3>2. e \in PerfEvent /\ e \notin PASSES[pass]
      BY <1>2, <2>1, <3>1, Groups DEF InBench
    <3>3. work[c][e] = 0
      BY <1>2, <2>1, <3>1 DEF InBench, StillToRun
    <3> QED BY <2>4, <3>2, <3>3
  <2>9. "save" \in InBench /\ core[c] \in InBench
    BY <2>1 DEF InBench
  <2>10. /\ perf' \in [Core -> [PerfEvent -> Nat]]
         /\ \A d \in Core \ {c} : hw'[d] = hw[d] /\ perf'[d] = perf[d] /\ work'[d] = work[d]
    BY <1>1, <2>1, <2>4
  <2> QED BY <1>1, <2>1, <2>4, <2>5, <2>6, <2>7, <2>8, <2>9, <2>10, CumulativePeMoves
<1>6. CASE Cumulative!Save(c)
  <2>1. /\ core[c] = "save" /\ core' = [core EXCEPT ![c] = "joined"]
        /\ hw' = hw /\ work' = work
        /\ perf' = [perf EXCEPT ![c] =
             [e \in PerfEvent |-> @[e] + (IF e \in hw[c].conf THEN hw[c].count[e] ELSE 0)]]
    BY <1>6 DEF Cumulative!Save, Cumulative!rt_perf_save
  <2>2. core'[c] = "joined"
    BY <2>1 DEF CumulativeInv, CumulativeTypes
  <2>3. /\ Cumulated(c) /\ hw[c].conf = PASSES[pass] /\ PASSES[pass] \subseteq PerfEvent
        /\ \A e \in PASSES[pass] : hw[c].count[e] = work[c][e]
    BY <1>2, <2>1 DEF InBench, Counting
  <2>4. /\ perf'[c] = [e \in PerfEvent |->
             perf[c][e] + (IF e \in hw[c].conf THEN hw[c].count[e] ELSE 0)]
        /\ \A d \in Core \ {c} : perf'[d] = perf[d]
    BY <1>1, <2>1
  <2>5. \A e \in PerfEvent : perf'[c][e] = work[c][e]
    <3>1. \A e \in PerfEvent : perf[c][e] = IF e \in PASSES[pass] THEN 0 ELSE work[c][e]
      BY <2>1, <2>3 DEF Cumulated
    <3>2. \A e \in PerfEvent : work[c][e] \in Nat
      BY <1>1, Groups
    <3> QED BY <2>3, <2>4, <3>1, <3>2
  <2>6. perf' \in [Core -> [PerfEvent -> Nat]]
    <3>1. perf'[c] \in [PerfEvent -> Nat]
      BY <1>1, <2>4, <2>5, Groups
    <3> QED BY <1>1, <2>1, <2>4, <3>1
  <2>7. Cumulated(c)' /\ Counting(c)'
    BY <1>1, <2>1, <2>2, <2>5 DEF Cumulated, Counting
  <2>8. StillToRun(c)' = StillToRun(c)
    BY <1>1, <2>1, <2>2 DEF StillToRun
  <2>9. "joined" \in InBench /\ core[c] \in InBench
    BY <2>1 DEF InBench
  <2> QED BY <1>1, <1>2, <2>1, <2>4, <2>6, <2>7, <2>8, <2>9, CumulativePeMoves
<1> QED BY <1>3, <1>4, <1>5, <1>6 DEF Cumulative!do_bench_1_pe

LEMMA CumulativeClusterStep ==
  ASSUME MainInv, CumulativeInv, Cumulative!Cluster
  PROVE  MainInv' /\ CumulativeInv'
BY CumulativeCore0Step, CumulativePeStep, CumulativeNames DEF Cumulative!Cluster

-----------------------------------------------------------------------------
(* perf/cluster/direct.                                                    *)

AtBench == {"conf", "start", "bench", "stop", "bench_done"}
AtShow  == {"display", "joined"}
Both    == {"cycles", "instr"}

\* Core c's counters hold what occurred in its benchmark.
Counted(c) == \A e \in Both : hw[c].count[e] = work[c][e]

Measuring(c) ==
  /\ core[c] \in {"start", "bench", "stop"} => hw[c].conf = Both
  /\ core[c] = "bench" => hw[c].on /\ hw[c].count = Zero
  /\ core[c] \in {"stop", "bench_done"} => Counted(c)

\* Core c has printed its instructions.
Reported(c) == << c, "instr", work[c]["instr"] >> \in shown

DirectTypes ==
  /\ fc \in {"mount", "call", "wait", "unmount", "exit_0", "exit_-1"} /\ mounted \in BOOLEAN
  /\ core \in [Core -> AtBench \cup AtShow \cup {"idle", "entry", "read_cycles", "return"}]
  /\ cores_events \subseteq PerfEvent /\ hw \in [Core -> Counters]
  /\ work \in [Core -> [PerfEvent -> 0 .. MAX_WORK]]
  /\ shown \subseteq Core \X PerfEvent \X (0 .. MAX_WORK)

\* Where the cores are, and with that what has been measured and printed.
DirectTeam ==
  /\ fc = "wait" => Alone({"entry", "read_cycles", "return"}) \/ AllAt(AtBench) \/ AllAt(AtShow)
  /\ core[0] \in AtBench => cores_events = Both
  /\ core[0] \in AtShow \cup {"read_cycles"} => \A c \in Core : Counted(c)
  /\ fc \in {"mount", "call"} \/ core[0] \in AtBench \cup {"entry", "read_cycles"} => shown = {}
  /\ \A c \in Core : core[c] = "joined" \/ core[0] = "return" => Reported(c)

DirectInv ==
  /\ DirectTypes /\ DirectTeam
  /\ \A c \in Core : Measuring(c)
  /\ \A s \in shown : s[3] = work[s[1]][s[2]]

LEMMA DirectNames ==
  /\ Direct!Core = Core /\ Direct!Zero = Zero /\ Direct!Counters = Counters
  /\ \A left : Direct!PerfReset(left) = PerfReset(left)
  /\ Direct!LeftOver = 0 .. 1
  /\ \A one, events : Direct!rt_perf_conf(one, events) = rt_perf_conf(one, events)
  /\ \A one : Direct!rt_perf_reset(one) = rt_perf_reset(one)
  /\ \A one : Direct!rt_perf_start(one) = rt_perf_start(one)
  /\ \A one : Direct!rt_perf_stop(one) = rt_perf_stop(one)
  /\ \A one, some, times : Direct!Occur(one, some, times) = Occur(one, some, times)
BY DEF Direct!Core, Core, Direct!Zero, Zero, Direct!Counters, Counters,
       Direct!PerfReset, PerfReset, Direct!LeftOver,
       Direct!rt_perf_conf, rt_perf_conf, Direct!rt_perf_reset, rt_perf_reset,
       Direct!rt_perf_start, rt_perf_start, Direct!rt_perf_stop, rt_perf_stop,
       Direct!Occur, Occur

LEMMA BothAreEvents == Both \subseteq PerfEvent /\ Both \in SUBSET PerfEvent
BY ProgramsAssumption DEF Direct!WorkAssumption, Both

LEMMA DirectTypesOK == DirectTypes => Direct!TypeOK
<1>1. \A label \in AtBench \cup AtShow \cup {"idle", "entry", "read_cycles", "return"} :
        label \in Direct!Label
  BY DEF Direct!Label, AtBench, AtShow
<1> QED BY <1>1, DirectNames DEF Direct!TypeOK, DirectTypes

LEMMA DirectInit ==
  ASSUME Direct!Init
  PROVE  MainInv /\ DirectInv
<1>1. MainInit
  BY DEF Direct!Init, Direct!MainInit, MainInit, Direct!Core, Core
<1>2. MainInv /\ fc = "mount" /\ \A c \in Core : core[c] = "idle"
  BY <1>1, MainInit0 DEF MainInit, AllAt
<1>3. PICK left \in 0 .. 1 : hw = [c \in Core |-> PerfReset(left)]
  BY DirectNames DEF Direct!Init
<1>4. shown = {} /\ cores_events = {} /\ work = [c \in Core |-> Zero]
  BY DirectNames DEF Direct!Init
<1>5. DirectTypes
  <2>1. hw \in [Core -> Counters]
    BY <1>3, ResetType
  <2>2. work \in [Core -> [PerfEvent -> 0 .. MAX_WORK]]
    BY <1>4, ZeroType
  <2>3. core \in [Core -> AtBench \cup AtShow \cup {"idle", "entry", "read_cycles", "return"}]
    BY <1>2 DEF MainInv
  <2> QED BY <1>2, <1>4, <2>1, <2>2, <2>3 DEF MainInv, DirectTypes
<1>6. DirectTeam
  BY <1>2, <1>4, ZeroIsACore DEF DirectTeam, AtBench, AtShow
<1>7. \A c \in Core : Measuring(c)
  BY <1>2 DEF Measuring
<1> QED BY <1>2, <1>4, <1>5, <1>6, <1>7 DEF DirectInv

LEMMA DirectFcStep ==
  ASSUME MainInv, DirectInv, Direct!Fc
  PROVE  MainInv' /\ DirectInv'
<1>1. FcMove /\ UNCHANGED << cores_events, hw, work, shown >>
  BY DEF Direct!Fc, Direct!Mount, Direct!Call, Direct!CallFails,
         Direct!Return, Direct!Unmount, FcMove, Quiet, Call, Return
<1>2. core[0] = "return" => Alone({"return"})
  BY ZeroIsACore DEF DirectInv, DirectTeam, MainInv, Alone, AllAt, AtBench, AtShow
<1>3. /\ MainInv'
      /\ Quiet => AllAt({"idle"}) /\ AllAt({"idle"})'
      /\ Call => AllAt({"idle"}) /\ Alone({"entry"})'
      /\ Return => AllAt({"idle"})'
  BY <1>1, <1>2, FcMoveKeeps
<1>4. \A c \in Core : core'[c] \in {"idle", "entry"}
  BY <1>1, <1>3 DEF FcMove, AllAt, Alone
<1>5. fc' \in {"mount", "call", "wait", "unmount", "exit_0", "exit_-1"}
  BY DEF Direct!Fc, Direct!Mount, Direct!Call, Direct!CallFails, Direct!Return, Direct!Unmount
<1>6. DirectTypes'
  <2>1. core' \in [Core -> AtBench \cup AtShow \cup {"idle", "entry", "read_cycles", "return"}]
    BY <1>3, <1>4 DEF MainInv
  <2> QED BY <1>1, <1>3, <1>5, <2>1 DEF MainInv, DirectInv, DirectTypes
<1>7. DirectTeam'
  <2>1. fc' \in {"mount", "call"} \/ core'[0] = "entry" => fc \in {"mount", "call", "alloc"}
    BY <1>1, <1>3, ZeroIsACore DEF FcMove, Quiet, Call, Return, AllAt
  <2>2. fc \in {"mount", "call", "alloc"} => fc \in {"mount", "call"}
    BY DEF DirectInv, DirectTypes
  <2>3. fc' = "wait" => Alone({"entry"})'
    BY <1>1, <1>3 DEF FcMove, Quiet, Return
  <2> QED BY <1>1, <1>4, <2>1, <2>2, <2>3, ZeroIsACore
          DEF DirectInv, DirectTeam, AtBench, AtShow, Alone
<1>8. \A c \in Core : Measuring(c)'
  BY <1>4 DEF Measuring
<1> QED BY <1>1, <1>3, <1>6, <1>7, <1>8 DEF DirectInv

DirectLabel == AtBench \cup AtShow \cup {"idle", "entry", "read_cycles", "return"}

\* What a step on the cluster finds.
LEMMA DirectFinds ==
  ASSUME MainInv, DirectInv, NEW c \in Core, core[c] # "idle"
  PROVE  /\ fc = "wait" /\ core \in [Core -> DirectLabel] /\ 0 \in Core
         /\ core[c] \in AtBench => AllAt(AtBench) /\ cores_events = Both /\ shown = {}
         /\ core[c] \in AtShow => AllAt(AtShow) /\ \A d \in Core : Counted(d)
         /\ core[c] \in {"entry", "read_cycles", "return"} => Alone({core[c]}) /\ c = 0
<1>1. fc = "wait"
  BY AtWork
<1>2. core \in [Core -> DirectLabel] /\ 0 \in Core
  BY ZeroIsACore DEF DirectInv, DirectTypes, DirectLabel
<1>3. CASE AllAt(AtBench)
  <2>1. core[c] \in AtBench /\ core[0] \in AtBench
    BY <1>2, <1>3 DEF AllAt
  <2>2. core[c] \notin AtShow /\ core[c] \notin {"entry", "read_cycles", "return"}
    BY <2>1 DEF AtBench, AtShow
  <2> QED BY <1>1, <1>2, <1>3, <2>1, <2>2 DEF DirectInv, DirectTeam
<1>4. CASE AllAt(AtShow)
  <2>1. core[c] \in AtShow /\ core[0] \in AtShow
    BY <1>2, <1>4 DEF AllAt
  <2>2. core[c] \notin AtBench /\ core[c] \notin {"entry", "read_cycles", "return"}
    BY <2>1 DEF AtBench, AtShow
  <2> QED BY <1>1, <1>2, <1>4, <2>1, <2>2 DEF DirectInv, DirectTeam
<1>5. CASE Alone({"entry", "read_cycles", "return"})
  <2>1. c = 0
    BY <1>5 DEF Alone
  <2> QED BY <1>1, <1>2, <1>5, <2>1 DEF Alone, AtBench, AtShow
<1> QED BY <1>1, <1>3, <1>4, <1>5 DEF DirectInv, DirectTeam

\* What it keeps of itself.
LEMMA DirectMoves ==
  ASSUME MainInv, DirectInv, fc = "wait", UNCHANGED << fc, mounted >>,
         core' \in [Core -> DirectLabel], core'[0] # "idle",
         cores_events' \subseteq PerfEvent, hw' \in [Core -> Counters],
         work' \in [Core -> [PerfEvent -> 0 .. MAX_WORK]],
         shown' \subseteq Core \X PerfEvent \X (0 .. MAX_WORK)
  PROVE  MainInv' /\ DirectTypes'
<1>1. core' = [c \in Core |-> core'[c]]
  OBVIOUS
<1>2. MainInv'
  BY <1>1, ClusterMoves
<1> QED BY <1>2 DEF DirectInv, DirectTypes, DirectLabel

LEMMA DirectCore0Step ==
  ASSUME MainInv, DirectInv,
         Direct!do_bench_0 \/ Direct!BenchDone \/ Direct!ReadCycles \/ Direct!DisplayDone
  PROVE  MainInv' /\ DirectInv'
<1>1. UNCHANGED << fc, mounted >> /\ hw' = hw /\ work' = work
  BY DEF Direct!do_bench_0, Direct!BenchDone, Direct!ReadCycles, Direct!DisplayDone
<1>2. /\ cores_events \subseteq PerfEvent /\ hw \in [Core -> Counters]
      /\ work \in [Core -> [PerfEvent -> 0 .. MAX_WORK]]
      /\ shown \subseteq Core \X PerfEvent \X (0 .. MAX_WORK) /\ 0 \in Core
  BY ZeroIsACore DEF DirectInv, DirectTypes
<1>3. CASE Direct!do_bench_0
  <2>1. /\ core[0] = "entry" /\ core' = [c \in Core |-> "conf"]
        /\ cores_events' = Both /\ shown' = shown
    BY <1>3, DirectNames DEF Direct!do_bench_0, Direct!rt_team_fork, Both
  <2>2. fc = "wait" /\ shown = {}
    BY <1>2, <2>1, DirectFinds DEF DirectInv, DirectTeam
  <2>3. /\ core' \in [Core -> DirectLabel] /\ core'[0] = "conf" /\ \A c \in Core : core'[c] = "conf"
        /\ AllAt(AtBench)'
    BY <1>2, <2>1 DEF DirectLabel, AtBench, AllAt
  <2>4. MainInv' /\ DirectTypes'
    BY <1>1, <1>2, <2>1, <2>2, <2>3, BothAreEvents, DirectMoves
  <2>5. DirectTeam'
    BY <1>1, <2>1, <2>2, <2>3 DEF DirectTeam, AtBench, AtShow
  <2>6. \A c \in Core : Measuring(c)'
    BY <2>3 DEF Measuring
  <2> QED BY <1>1, <2>1, <2>2, <2>4, <2>5, <2>6 DEF DirectInv
<1>4. CASE Direct!BenchDone
  <2>1. /\ \A c \in Core : core[c] = "bench_done"
        /\ core' = [c \in Core |-> IF c = 0 THEN "read_cycles" ELSE "idle"]
        /\ cores_events' = cores_events /\ shown' = shown
    BY <1>4, DirectNames DEF Direct!BenchDone, Direct!JoinedTeam
  <2>2. fc = "wait" /\ shown = {}
    BY <1>2, <2>1, DirectFinds DEF AtBench
  <2>3. /\ core' \in [Core -> DirectLabel] /\ core'[0] = "read_cycles"
        /\ \A c \in Core : core'[c] \in {"read_cycles", "idle"}
        /\ Alone({"entry", "read_cycles", "return"})'
    BY <1>2, <2>1 DEF DirectLabel, Alone
  <2>4. MainInv' /\ DirectTypes'
    BY <1>1, <1>2, <2>1, <2>2, <2>3, DirectMoves
  <2>5. \A c \in Core : Counted(c)'
    <3>1. \A c \in Core : Counted(c)
      BY <2>1 DEF DirectInv, Measuring
    <3> QED BY <1>1, <3>1 DEF Counted
  <2>6. DirectTeam'
    BY <1>1, <2>1, <2>2, <2>3, <2>5 DEF DirectTeam, AtBench, AtShow
  <2>7. \A c \in Core : Measuring(c)'
    BY <2>3 DEF Measuring
  <2> QED BY <1>1, <2>1, <2>2, <2>4, <2>6, <2>7 DEF DirectInv
<1>5. CASE Direct!ReadCycles
  <2>1. /\ core[0] = "read_cycles" /\ core' = [c \in Core |-> "display"]
        /\ cores_events' = cores_events
        /\ shown' = shown \cup {<< 0, "cycles", hw[0].count["cycles"] >>}
    BY <1>5, DirectNames DEF Direct!ReadCycles, Direct!rt_team_fork, Direct!rt_perf_read
  <2>2. fc = "wait" /\ shown = {} /\ \A c \in Core : Counted(c)
    BY <1>2, <2>1, DirectFinds DEF DirectInv, DirectTeam
  <2>3. /\ core' \in [Core -> DirectLabel] /\ core'[0] = "display" /\ AllAt(AtShow)'
        /\ \A c \in Core : core'[c] = "display"
    BY <1>2, <2>1 DEF DirectLabel, AtShow, AllAt
  <2>4. shown' = {<< 0, "cycles", work[0]["cycles"] >>} /\ "cycles" \in PerfEvent
    BY <1>2, <2>1, <2>2, BothAreEvents DEF Counted, Both
  <2>5. MainInv' /\ DirectTypes'
    <3>1. shown' \subseteq Core \X PerfEvent \X (0 .. MAX_WORK)
      BY <1>2, <2>4
    <3> QED BY <1>1, <1>2, <2>1, <2>2, <2>3, <3>1, DirectMoves
  <2>6. \A c \in Core : Counted(c)'
    BY <1>1, <2>2 DEF Counted
  <2>7. DirectTeam'
    <3>1. fc' = "wait"
      BY <1>1, <2>2
    <3> QED BY <2>3, <2>6, <3>1 DEF DirectTeam, AtBench, AtShow
  <2>8. \A c \in Core : Measuring(c)'
    BY <2>3 DEF Measuring
  <2>9. \A s \in shown' : s[3] = work'[s[1]][s[2]]
    BY <1>1, <2>4
  <2> QED BY <2>5, <2>7, <2>8, <2>9 DEF DirectInv
<1>6. CASE Direct!DisplayDone
  <2>1. /\ \A c \in Core : core[c] = "joined"
        /\ core' = [c \in Core |-> IF c = 0 THEN "return" ELSE "idle"]
        /\ cores_events' = cores_events /\ shown' = shown
    BY <1>6, DirectNames DEF Direct!DisplayDone, Direct!Joined, Direct!JoinedTeam
  <2>2. fc = "wait" /\ \A c \in Core : Reported(c)
    BY <1>2, <2>1, DirectFinds DEF DirectInv, DirectTeam
  <2>3. /\ core' \in [Core -> DirectLabel] /\ core'[0] = "return"
        /\ \A c \in Core : core'[c] \in {"return", "idle"}
        /\ Alone({"entry", "read_cycles", "return"})'
    BY <1>2, <2>1 DEF DirectLabel, Alone
  <2>4. MainInv' /\ DirectTypes'
    BY <1>1, <1>2, <2>1, <2>2, <2>3, DirectMoves
  <2>5. \A c \in Core : Reported(c)'
    BY <1>1, <2>1, <2>2 DEF Reported
  <2>6. DirectTeam'
    BY <1>1, <2>1, <2>2, <2>3, <2>5 DEF DirectTeam, AtBench, AtShow
  <2>7. \A c \in Core : Measuring(c)'
    BY <2>3 DEF Measuring
  <2> QED BY <1>1, <2>1, <2>4, <2>6, <2>7 DEF DirectInv
<1> QED BY <1>3, <1>4, <1>5, <1>6

\* A core's step in the benchmark.
LEMMA DirectBenchMoves ==
  ASSUME MainInv, DirectInv, NEW c \in Core, NEW label \in AtBench, core[c] \in AtBench,
         core' = [core EXCEPT ![c] = label], hw' \in [Core -> Counters],
         work' \in [Core -> [PerfEvent -> 0 .. MAX_WORK]],
         UNCHANGED << fc, mounted, cores_events, shown >>,
         \A d \in Core \ {c} : hw'[d] = hw[d] /\ work'[d] = work[d],
         Measuring(c)'
  PROVE  MainInv' /\ DirectInv'
<1>1. /\ fc = "wait" /\ core \in [Core -> DirectLabel] /\ 0 \in Core
      /\ AllAt(AtBench) /\ cores_events = Both /\ shown = {}
  <2>1. core[c] # "idle"
    BY DEF AtBench
  <2> QED BY <2>1, DirectFinds
<1>2. /\ core' \in [Core -> DirectLabel] /\ AllAt(AtBench)' /\ core'[c] = label
      /\ \A d \in Core \ {c} : core'[d] = core[d]
  BY <1>1 DEF AllAt, DirectLabel
<1>3. core'[0] \in AtBench /\ core'[0] \notin {"idle", "return"} \cup AtShow
  BY <1>1, <1>2 DEF AllAt, AtBench, AtShow
<1>4. MainInv' /\ DirectTypes'
  <2>1. shown' = {} /\ cores_events' \subseteq PerfEvent
    BY <1>1, BothAreEvents
  <2> QED BY <1>1, <1>2, <1>3, <2>1, DirectMoves
<1>5. DirectTeam'
  <2>1. fc' = "wait" /\ cores_events' = Both /\ shown' = {}
    BY <1>1
  <2>2. core'[0] # "read_cycles" /\ \A d \in Core : core'[d] # "joined"
    BY <1>1, <1>2 DEF AllAt, AtBench
  <2> QED BY <1>2, <1>3, <2>1, <2>2 DEF DirectTeam
<1>6. ASSUME NEW d \in Core PROVE Measuring(d)'
  <2>1. CASE d = c
    BY <2>1
  <2>2. CASE d # c
    <3>1. core'[d] = core[d] /\ hw'[d] = hw[d] /\ work'[d] = work[d]
      BY <1>2, <2>2
    <3>2. Measuring(d)
      BY DEF DirectInv
    <3> QED BY <3>1, <3>2 DEF Measuring, Counted
  <2> QED BY <2>1, <2>2
<1> QED BY <1>1, <1>4, <1>5, <1>6 DEF DirectInv

LEMMA DirectBenchStep ==
  ASSUME MainInv, DirectInv, NEW c \in Core,
         Direct!Conf(c) \/ Direct!ResetStart(c) \/ Direct!Bench(c) \/ Direct!Stop(c)
  PROVE  MainInv' /\ DirectInv'
<1>1. /\ core[c] \in AtBench /\ core[c] # "idle"
      /\ UNCHANGED << fc, mounted, cores_events, shown >>
  BY DEF Direct!Conf, Direct!ResetStart, Direct!Bench, Direct!Stop, AtBench
<1>2. /\ core \in [Core -> DirectLabel] /\ hw \in [Core -> Counters] /\ hw[c] \in Counters
      /\ work \in [Core -> [PerfEvent -> 0 .. MAX_WORK]]
      /\ cores_events = Both /\ Measuring(c)
  BY <1>1, DirectFinds DEF DirectInv, DirectTypes
<1>3. CASE Direct!Conf(c)
  <2>1. /\ core[c] = "conf" /\ core' = [core EXCEPT ![c] = "start"]
        /\ hw' = [hw EXCEPT ![c] = rt_perf_conf(hw[c], cores_events)] /\ work' = work
    BY <1>3, DirectNames DEF Direct!Conf, Direct!Set
  <2>2. core'[c] = "start" /\ "start" \in AtBench
    BY <1>2, <2>1 DEF AtBench
  <2>3. /\ hw' \in [Core -> Counters] /\ hw'[c].conf = Both
        /\ \A d \in Core \ {c} : hw'[d] = hw[d]
    <3>1. /\ rt_perf_conf(hw[c], Both) \in Counters /\ rt_perf_conf(hw[c], Both).conf = Both
      BY <1>2, BothAreEvents, ConfCounters DEF Both
    <3> QED BY <1>2, <2>1, <3>1
  <2>4. Measuring(c)'
    BY <2>2, <2>3 DEF Measuring
  <2> QED BY <1>1, <1>2, <2>1, <2>2, <2>3, <2>4, DirectBenchMoves
<1>4. CASE Direct!ResetStart(c)
  <2>1. /\ core[c] = "start" /\ core' = [core EXCEPT ![c] = "bench"]
        /\ hw' = [hw EXCEPT ![c] = rt_perf_start(rt_perf_reset(hw[c]))] /\ work' = work
    BY <1>4, DirectNames DEF Direct!ResetStart, Direct!Set
  <2>2. core'[c] = "bench" /\ "bench" \in AtBench
    BY <1>2, <2>1 DEF AtBench
  <2>3. /\ hw' \in [Core -> Counters] /\ hw'[c].conf = Both /\ hw'[c].on /\ hw'[c].count = Zero
        /\ \A d \in Core \ {c} : hw'[d] = hw[d]
    <3>1. /\ rt_perf_reset(hw[c]) \in Counters
          /\ rt_perf_reset(hw[c]).conf = Both /\ rt_perf_reset(hw[c]).count = Zero
      BY <1>2, <2>1, SwitchCounters DEF Measuring
    <3>2. /\ rt_perf_start(rt_perf_reset(hw[c])) \in Counters
          /\ rt_perf_start(rt_perf_reset(hw[c])).conf = Both
          /\ rt_perf_start(rt_perf_reset(hw[c])).count = Zero
          /\ rt_perf_start(rt_perf_reset(hw[c])).on
      BY <3>1, SwitchCounters
    <3> QED BY <1>2, <2>1, <3>2
  <2>4. Measuring(c)'
    BY <2>2, <2>3 DEF Measuring
  <2> QED BY <1>1, <1>2, <2>1, <2>2, <2>3, <2>4, DirectBenchMoves
<1>5. CASE Direct!Bench(c)
  <2>1. PICK cycles, instr \in 0 .. MAX_WORK :
          /\ core[c] = "bench" /\ core' = [core EXCEPT ![c] = "stop"]
          /\ hw' = [hw EXCEPT ![c] = Occur(Occur(hw[c], {"cycles"}, cycles), {"instr"}, instr)]
          /\ work' = [work EXCEPT ![c] = [Zero EXCEPT !["cycles"] = cycles, !["instr"] = instr]]
    BY <1>5, DirectNames DEF Direct!Bench, Direct!Set
  <2>2. core'[c] = "stop" /\ "stop" \in AtBench
    BY <1>2, <2>1 DEF AtBench
  <2>3. /\ work' \in [Core -> [PerfEvent -> 0 .. MAX_WORK]]
        /\ work'[c]["cycles"] = cycles /\ work'[c]["instr"] = instr
        /\ \A d \in Core \ {c} : work'[d] = work[d]
    <3>1. [Zero EXCEPT !["cycles"] = cycles, !["instr"] = instr] \in [PerfEvent -> 0 .. MAX_WORK]
      BY ZeroType
    <3>2. /\ [Zero EXCEPT !["cycles"] = cycles, !["instr"] = instr]["cycles"] = cycles
          /\ [Zero EXCEPT !["cycles"] = cycles, !["instr"] = instr]["instr"] = instr
      BY ZeroType, BothAreEvents DEF Both
    <3> QED BY <1>2, <2>1, <3>1, <3>2
  <2>4. /\ hw' \in [Core -> Counters] /\ hw'[c].conf = Both
        /\ hw'[c].count["cycles"] = cycles /\ hw'[c].count["instr"] = instr
        /\ \A d \in Core \ {c} : hw'[d] = hw[d]
    <3> DEFINE first == Occur(hw[c], {"cycles"}, cycles)
               second == Occur(first, {"instr"}, instr)
    <3>1. /\ hw[c].conf = Both /\ hw[c].on /\ hw[c].count = Zero
          /\ cycles \in Nat /\ instr \in Nat /\ "cycles" \in PerfEvent /\ "instr" \in PerfEvent
      BY <1>2, <2>1, Groups, BothAreEvents DEF Measuring, Both
    <3>2. first \in Counters
      BY <1>2, <3>1, OccurCounters
    <3>3. first.conf = Both
      BY <1>2, <3>1, OccurCounters
    <3>4. first.on
      BY <1>2, <3>1, OccurCounters
    <3>5. first.count["cycles"] = cycles
      <4>1. first.count["cycles"] = hw[c].count["cycles"] + cycles
        BY <1>2, <3>1, OccurCounters DEF Both
      <4> QED BY <3>1, <4>1, ZeroType
    <3>6. first.count["instr"] = 0
      <4>1. first.count["instr"] = hw[c].count["instr"]
        BY <1>2, <3>1, OccurCounters
      <4> QED BY <3>1, <4>1, ZeroType
    <3> HIDE DEF first
    <3>7. second \in Counters
      BY <3>1, <3>2, OccurCounters
    <3>8. second.conf = Both
      BY <3>1, <3>2, <3>3, OccurCounters
    <3>9. second.count["cycles"] = cycles
      <4>1. second.count["cycles"] = first.count["cycles"]
        BY <3>1, <3>2, OccurCounters
      <4> QED BY <3>5, <4>1
    <3>10. second.count["instr"] = instr
      <4>1. "instr" \in first.conf \cap {"instr"}
        BY <3>3 DEF Both
      <4>2. second.count["instr"] = first.count["instr"] + instr
        BY <3>1, <3>2, <3>4, <4>1, OccurCounters
      <4> QED BY <3>1, <3>6, <4>2
    <3>11. hw' = [hw EXCEPT ![c] = second]
      BY <2>1 DEF first
    <3> HIDE DEF second
    <3> QED BY <1>2, <3>7, <3>8, <3>9, <3>10, <3>11
  <2>5. Measuring(c)'
    BY <2>2, <2>3, <2>4 DEF Measuring, Counted, Both
  <2> QED BY <1>1, <1>2, <2>1, <2>2, <2>3, <2>4, <2>5, DirectBenchMoves
<1>6. CASE Direct!Stop(c)
  <2>1. /\ core[c] = "stop" /\ core' = [core EXCEPT ![c] = "bench_done"]
        /\ hw' = [hw EXCEPT ![c] = Occur(rt_perf_stop(hw[c]), PerfEvent, 1)] /\ work' = work
    BY <1>6, DirectNames DEF Direct!Stop, Direct!Set
  <2>2. core'[c] = "bench_done" /\ "bench_done" \in AtBench
    BY <1>2, <2>1 DEF AtBench
  <2>3. /\ hw' \in [Core -> Counters] /\ \A d \in Core \ {c} : hw'[d] = hw[d]
        /\ \A e \in Both : hw'[c].count[e] = hw[c].count[e]
    <3>1. /\ rt_perf_stop(hw[c]) \in Counters /\ ~ rt_perf_stop(hw[c]).on
          /\ rt_perf_stop(hw[c]).count = hw[c].count
      BY <1>2, SwitchCounters
    <3>2. Occur(rt_perf_stop(hw[c]), PerfEvent, 1) \in Counters
      BY <3>1, OccurCounters
    <3>3. \A e \in PerfEvent :
            Occur(rt_perf_stop(hw[c]), PerfEvent, 1).count[e] = rt_perf_stop(hw[c]).count[e]
      BY <3>1, OccurCounters
    <3> QED BY <1>2, <2>1, <3>1, <3>2, <3>3, BothAreEvents
  <2>4. Counted(c)
    BY <1>2, <2>1 DEF Measuring
  <2>5. Measuring(c)'
    BY <2>1, <2>2, <2>3, <2>4 DEF Measuring, Counted
  <2> QED BY <1>1, <1>2, <2>1, <2>2, <2>3, <2>5, DirectBenchMoves
<1> QED BY <1>3, <1>4, <1>5, <1>6

\* A core prints its instructions.
LEMMA DirectDisplayStep ==
  ASSUME MainInv, DirectInv, NEW c \in Core, Direct!display_events(c)
  PROVE  MainInv' /\ DirectInv'
<1>1. /\ core[c] = "display" /\ core' = [core EXCEPT ![c] = "joined"]
      /\ shown' = shown \cup {<< c, "instr", hw[c].count["instr"] >>}
      /\ UNCHANGED << fc, mounted, cores_events, hw, work >>
  BY DirectNames DEF Direct!display_events, Direct!rt_perf_read
<1>2. /\ fc = "wait" /\ core \in [Core -> DirectLabel] /\ 0 \in Core
      /\ AllAt(AtShow) /\ \A d \in Core : Counted(d)
  BY <1>1, DirectFinds DEF AtShow
<1>3. shown' = shown \cup {<< c, "instr", work[c]["instr"] >>} /\ "instr" \in PerfEvent
  BY <1>1, <1>2, BothAreEvents DEF Counted, Both
<1>4. /\ core' \in [Core -> DirectLabel] /\ core'[c] = "joined" /\ AllAt(AtShow)'
      /\ \A d \in Core \ {c} : core'[d] = core[d]
  BY <1>1, <1>2 DEF AllAt, AtShow, DirectLabel
<1>5. core'[0] \in AtShow /\ core'[0] \notin AtBench \cup {"idle", "entry", "read_cycles", "return"}
  BY <1>2, <1>4 DEF AllAt, AtShow, AtBench
<1>6. MainInv' /\ DirectTypes'
  <2>1. /\ cores_events' \subseteq PerfEvent /\ hw' \in [Core -> Counters]
        /\ work' \in [Core -> [PerfEvent -> 0 .. MAX_WORK]]
    BY <1>1 DEF DirectInv, DirectTypes
  <2>2. shown' \subseteq Core \X PerfEvent \X (0 .. MAX_WORK)
    <3>1. work[c]["instr"] \in 0 .. MAX_WORK /\ shown \subseteq Core \X PerfEvent \X (0 .. MAX_WORK)
      BY <1>3 DEF DirectInv, DirectTypes
    <3> QED BY <1>3, <3>1
  <2> QED BY <1>1, <1>2, <1>4, <1>5, <2>1, <2>2, DirectMoves
<1>7. DirectTeam'
  <2>1. fc' = "wait" /\ \A d \in Core : Counted(d)'
    BY <1>1, <1>2 DEF Counted
  <2>2. ASSUME NEW d \in Core, core'[d] = "joined" PROVE Reported(d)'
    <3>1. CASE d = c
      BY <1>1, <1>3, <3>1 DEF Reported
    <3>2. CASE d # c
      <4>1. Reported(d)
        BY <1>4, <2>2, <3>2 DEF DirectInv, DirectTeam
      <4> QED BY <1>1, <4>1 DEF Reported
    <3> QED BY <3>1, <3>2
  <2> QED BY <1>4, <1>5, <2>1, <2>2 DEF DirectTeam
<1>8. \A d \in Core : Measuring(d)'
  BY <1>4 DEF Measuring, AllAt, AtShow
<1>9. \A s \in shown' : s[3] = work'[s[1]][s[2]]
  BY <1>1, <1>3 DEF DirectInv
<1> QED BY <1>6, <1>7, <1>8, <1>9 DEF DirectInv

LEMMA DirectClusterStep ==
  ASSUME MainInv, DirectInv, Direct!Cluster
  PROVE  MainInv' /\ DirectInv'
BY DirectCore0Step, DirectBenchStep, DirectDisplayStep, DirectNames DEF Direct!Cluster

-----------------------------------------------------------------------------
(* openmp/simple.  That var ends as NB_PE * INCREMENTS is a count: at      *)
(* every moment var is the number of increments the loop variables say     *)
(* have been done, so it is said as the cardinality of the set of those    *)
(* increments.  The rest is where the cores can be in each region, and     *)
(* what the lock means.                                                    *)

OmpTypes ==
  /\ fc \in {"mount", "call", "wait", "unmount", "exit_0"}
  /\ mounted \in BOOLEAN
  /\ fc \in {"call", "wait", "unmount"} => mounted
  /\ core \in [Core -> Omp!Label]
  /\ region \in 1 .. 5
  /\ i \in [Core -> Nat]
  /\ iterated \in [Omp!Iteration -> Nat]
  /\ var \in 0 .. NB_PE * INCREMENTS
  /\ reg \in [Core -> 0 .. NB_PE * INCREMENTS]
  /\ lock \subseteq Core

LEMMA OmpNames == Omp!Core = Core
BY DEF Omp!Core, Core

LEMMA OmpTypesOK == OmpTypes => Omp!TypeOK
BY OmpNames DEF OmpTypes, Omp!TypeOK

LEMMA IncrementsAreSome == ITERATIONS \in Nat \ {0} /\ INCREMENTS \in Nat \ {0}
BY ProgramsAssumption DEF Omp!OmpAssumption

Forked == core[0] \notin {"idle", "entry", "return"}

\* Where a core can be in a region.
Places(r) ==
  CASE r = 1 -> {"print", "joined"}
    [] r = 2 -> {"for", "joined"}
    [] r = 3 -> {"dummy", "barrier", "past", "joined"}
    [] r = 4 -> {"critical", "load", "store", "joined"}
    [] OTHER -> {}

\* Either core 0 is alone, or the whole team is in the region.
Team ==
  /\ ~Forked => \A c \in Core \ {0} : core[c] = "idle"
  /\ Forked => region < 5 /\ \A c \in Core : core[c] \in Places(region)
  /\ core[0] = "idle" => region \in {1, 5}
  /\ core[0] = "return" => region = 5
  /\ core[0] # "idle" => fc = "wait"
  /\ fc \in {"mount", "call"} => region = 1

\* The increments that are done: the n-th of each core.
Increment == Core \X (0 .. INCREMENTS - 1)
Done      == {p \in Increment : p[2] < i[p[1]]}

\* One core at most holds the lock, and what it has loaded is var.
Critical ==
  /\ lock = {c \in Core : core[c] \in {"load", "store"}}
  /\ \A c, d \in lock : c = d
  /\ region < 4 \/ (region = 4 /\ ~Forked) => var = 0
  /\ region = 5 => var = NB_PE * INCREMENTS
  /\ region = 4 /\ Forked =>
       /\ var = Cardinality(Done)
       /\ \A c \in Core : /\ i[c] <= INCREMENTS
                          /\ c \in lock => i[c] < INCREMENTS
                          /\ core[c] = "joined" => i[c] = INCREMENTS
                          /\ core[c] = "store" => reg[c] = var

OmpInv == OmpTypes /\ Team /\ Critical

-----------------------------------------------------------------------------
(* Counting.                                                               *)

LEMMA IncrementSize ==
  /\ IsFiniteSet(Increment)
  /\ Cardinality(Increment) = NB_PE * INCREMENTS
  /\ NB_PE * INCREMENTS \in Nat
<1> USE NbPeAssumption, IncrementsAreSome
<1>1. IsFiniteSet(Core) /\ Cardinality(Core) = NB_PE
  BY FS_Interval DEF Core
<1>2. IsFiniteSet(0 .. INCREMENTS - 1) /\ Cardinality(0 .. INCREMENTS - 1) = INCREMENTS
  BY FS_Interval
<1>3. /\ IsFiniteSet(Increment)
      /\ Cardinality(Increment) = Cardinality(Core) * Cardinality(0 .. INCREMENTS - 1)
  BY <1>1, <1>2, FS_Product DEF Increment
<1>4. Cardinality(Increment) \in Nat
  BY <1>3, FS_CardinalityType
<1> QED BY <1>1, <1>2, <1>3, <1>4

\* The increments that are done are finitely many, at most all of them.
LEMMA DoneSize ==
  /\ IsFiniteSet(Done)
  /\ Cardinality(Done) \in 0 .. NB_PE * INCREMENTS
<1>1. Done \in SUBSET Increment BY DEF Done
<1>2. IsFiniteSet(Done) /\ Cardinality(Done) <= Cardinality(Increment)
  BY <1>1, IncrementSize, FS_Subset
<1>3. Cardinality(Done) \in Nat BY <1>2, FS_CardinalityType
<1> QED BY <1>2, <1>3, IncrementSize

\* A thread's slice begins at a number.
LEMMA FirstNat ==
  ASSUME NEW c \in Core
  PROVE  Omp!First(c) \in Nat
<1> DEFINE S == Core \X Omp!Iteration
           T == {p \in S : p[1] < c /\ p[2] < Omp!Slice(p[1])}
<1>1. IsFiniteSet(Core) BY NbPeAssumption, FS_Interval DEF Core
<1>2. IsFiniteSet(Omp!Iteration) BY FS_Interval, IncrementsAreSome DEF Omp!Iteration
<1>3. IsFiniteSet(S) BY <1>1, <1>2, FS_Product
<1>4. T \in SUBSET S OBVIOUS
<1> HIDE DEF S
<1>5. IsFiniteSet(T)
  <2> HIDE DEF T
  <2> QED BY <1>3, <1>4, FS_Subset
<1>6. Cardinality(T) \in Nat
  <2> HIDE DEF T
  <2> QED BY <1>5, FS_CardinalityType
<1>7. Omp!First(c) = Cardinality(T)
  BY OmpNames DEF Omp!First, Omp!Cardinality, Cardinality, S
<1> QED BY <1>6, <1>7

-----------------------------------------------------------------------------
(* OmpInv is inductive.                                                      *)

LEMMA OmpInitInv == ASSUME Omp!Init PROVE OmpInv
<1> USE ZeroIsACore, OmpNames, IncrementsAreSome DEF Omp!Init, Omp!MainInit
<1>1. OmpTypes
  <2>1. 0 \in 0 .. NB_PE * INCREMENTS BY IncrementSize
  <2>2. /\ fc = "mount" /\ mounted = FALSE /\ core \in [Core -> Omp!Label]
        /\ region \in 1 .. 5 /\ i \in [Core -> Nat] /\ iterated \in [Omp!Iteration -> Nat]
        /\ lock = {}
    BY DEF Omp!Label
  <2> QED BY <2>1, <2>2 DEF OmpTypes
<1>2. Team BY DEF Team, Forked
<1>3. Critical BY DEF Critical, Forked
<1> QED BY <1>1, <1>2, <1>3 DEF OmpInv

\* main on the fabric controller: the cores are at rest, but for core 0 at the
\* call and at its return.
LEMMA OmpFcStep == ASSUME OmpInv, Omp!Fc PROVE OmpInv'
<1> USE ZeroIsACore, OmpNames, IncrementsAreSome DEF OmpInv, Omp!Fc
<1>1. /\ region' = region /\ i' = i /\ iterated' = iterated /\ var' = var
      /\ reg' = reg /\ lock' = lock
  OBVIOUS
<1>2. CASE Omp!Call
  <2>1. /\ fc = "call" /\ fc' = "wait" /\ mounted' = mounted
        /\ core' = [core EXCEPT ![0] = "entry"]
        /\ region = 1 /\ \A c \in Core : core[c] = "idle"
    BY <1>2 DEF Omp!Call, Team, Forked
  <2>2. core' \in [Core -> Omp!Label] /\ core'[0] = "entry"
        /\ \A c \in Core \ {0} : core'[c] = "idle"
    BY <2>1 DEF OmpTypes, Omp!Label
  <2>3. OmpTypes' BY <1>1, <2>1, <2>2 DEF OmpTypes
  <2>4. Team' BY <1>1, <2>1, <2>2 DEF Team, Forked
  <2>5. Critical'
    BY <1>1, <2>1, <2>2 DEF Critical, Forked
  <2> QED BY <2>3, <2>4, <2>5
<1>3. CASE Omp!Return
  <2>1. /\ fc = "wait" /\ fc' = "unmount" /\ mounted' = mounted
        /\ core[0] = "return" /\ core' = [core EXCEPT ![0] = "idle"]
        /\ region = 5 /\ \A c \in Core \ {0} : core[c] = "idle"
    BY <1>3 DEF Omp!Return, Team, Forked
  <2>2. core' \in [Core -> Omp!Label] /\ \A c \in Core : core'[c] = "idle"
    BY <2>1 DEF OmpTypes, Omp!Label
  <2>3. OmpTypes' BY <1>1, <2>1, <2>2 DEF OmpTypes
  <2>4. Team' BY <1>1, <2>1, <2>2 DEF Team, Forked
  <2>5. Critical'
    BY <1>1, <2>1, <2>2 DEF Critical, Forked
  <2> QED BY <2>3, <2>4, <2>5
<1>4. CASE Omp!Mount("call") \/ Omp!CallIgnored \/ Omp!Unmount
  <2>1. core' = core /\ fc # "wait" /\ core[0] = "idle"
    BY <1>4 DEF Omp!Mount, Omp!CallIgnored, Omp!Unmount, Team
  <2>2. OmpTypes' BY <1>1, <1>4, <2>1 DEF OmpTypes, Omp!Mount, Omp!CallIgnored, Omp!Unmount
  <2>3. Team' BY <1>1, <1>4, <2>1 DEF Team, Forked, Omp!Mount, Omp!CallIgnored, Omp!Unmount
  <2>4. Critical' BY <1>1, <2>1 DEF Critical, Forked, Done
  <2> QED BY <2>2, <2>3, <2>4
<1> QED BY <1>2, <1>3, <1>4

\* Core 0 takes the team to its next region, or is through.
LEMMA OmpForkStep == ASSUME OmpInv, Omp!Fork PROVE OmpInv'
<1> USE ZeroIsACore, OmpNames, IncrementsAreSome DEF OmpInv
<1>1. /\ core[0] = "entry" /\ \A c \in Core \ {0} : core[c] = "idle"
      /\ fc' = fc /\ mounted' = mounted /\ region' = region /\ iterated' = iterated
      /\ var' = var /\ reg' = reg /\ lock' = lock /\ lock = {} /\ fc = "wait"
  BY DEF Omp!Fork, Team, Forked, Critical
<1>2. CASE region \in {1, 2, 3}
  <2>1. PICK label \in {"print", "for", "dummy"} :
          /\ core' = [c \in Core |-> label] /\ label \in Places(region)
          /\ region = 3 => label = "dummy"
    BY <1>1, <1>2 DEF Omp!Fork, Omp!rt_team_fork, Places
  <2>2. i' \in [Core -> Nat]
    BY <1>1, <1>2, FirstNat DEF Omp!Fork, OmpTypes
  <2>3. OmpTypes' BY <1>1, <2>1, <2>2 DEF OmpTypes, Omp!Label
  <2>4. Team' BY <1>1, <1>2, <2>1 DEF Team, Forked
  <2>5. Critical' BY <1>1, <1>2, <2>1 DEF Critical
  <2> QED BY <2>3, <2>4, <2>5
<1>3. CASE region = 4
  <2>1. core' = [c \in Core |-> "critical"] /\ i' = [c \in Core |-> 0]
    BY <1>1, <1>3 DEF Omp!Fork, Omp!rt_team_fork
  <2>2. OmpTypes' BY <1>1, <2>1 DEF OmpTypes, Omp!Label
  <2>3. Team' BY <1>1, <1>3, <2>1 DEF Team, Forked, Places
  <2>4. Done' = {} BY <2>1 DEF Done, Increment
  <2>5. var = 0 BY <1>1, <1>3 DEF Critical, Forked
  <2>6. Critical'
    BY <1>1, <1>3, <2>1, <2>4, <2>5, FS_EmptySet DEF Critical
  <2> QED BY <2>2, <2>3, <2>6
<1>4. CASE region = 5
  <2>1. core' = [core EXCEPT ![0] = "return"] /\ i' = i
    BY <1>1, <1>4 DEF Omp!Fork
  <2>2. core' \in [Core -> Omp!Label] /\ core'[0] = "return"
        /\ \A c \in Core \ {0} : core'[c] = "idle"
    BY <1>1, <2>1 DEF OmpTypes, Omp!Label
  <2>3. OmpTypes' BY <1>1, <2>1, <2>2 DEF OmpTypes
  <2>4. Team' BY <1>1, <1>4, <2>2 DEF Team, Forked
  <2>5. Critical' BY <1>1, <1>4, <2>2 DEF Critical, Forked
  <2> QED BY <2>3, <2>4, <2>5
<1>5. region \in 1 .. 5 BY DEF OmpTypes
<1>6. region \in {1, 2, 3} \/ region = 4 \/ region = 5 BY <1>5
<1> QED BY <1>2, <1>3, <1>4, <1>6

\* The team is back: after the last region every increment is done.
LEMMA OmpJoinStep == ASSUME OmpInv, Omp!Join PROVE OmpInv'
<1> USE ZeroIsACore, OmpNames, IncrementsAreSome DEF OmpInv
<1>1. /\ \A c \in Core : core[c] = "joined"
      /\ core' = [c \in Core |-> IF c = 0 THEN "entry" ELSE "idle"]
      /\ region' = region + 1 /\ fc' = fc /\ mounted' = mounted /\ i' = i
      /\ iterated' = iterated /\ var' = var /\ reg' = reg /\ lock' = lock
  BY DEF Omp!Join, Omp!Joined, Omp!JoinedTeam
<1>2. Forked /\ region \in 1 .. 4 /\ fc = "wait" /\ lock = {}
  <2>1. Forked BY <1>1 DEF Forked
  <2>2. region \in 1 .. 5 BY DEF OmpTypes
  <2>3. region < 5 /\ fc = "wait" BY <1>1, <2>1 DEF Team
  <2>4. lock = {} BY <1>1 DEF Critical
  <2> QED BY <2>1, <2>2, <2>3, <2>4
<1>3. OmpTypes' BY <1>1, <1>2 DEF OmpTypes, Omp!Label
<1>4. Team' BY <1>1, <1>2 DEF Team, Forked
<1>5. region = 4 => var = NB_PE * INCREMENTS
  <2> SUFFICES ASSUME region = 4 PROVE var = NB_PE * INCREMENTS OBVIOUS
  <2>1. var = Cardinality(Done) /\ \A c \in Core : i[c] = INCREMENTS
    BY <1>1, <1>2 DEF Critical
  <2>2. Done = Increment BY <2>1 DEF Done, Increment
  <2> QED BY <2>1, <2>2, IncrementSize
<1>6. Critical' BY <1>1, <1>2, <1>5 DEF Critical, Forked
<1> QED BY <1>3, <1>4, <1>6

\* The barrier opens for the whole team.
LEMMA OmpBarrierStep == ASSUME OmpInv, Omp!Barrier PROVE OmpInv'
<1> USE ZeroIsACore, OmpNames, IncrementsAreSome DEF OmpInv
<1>1. /\ \A c \in Core : core[c] = "barrier"
      /\ core' = [c \in Core |-> "past"]
      /\ fc' = fc /\ mounted' = mounted /\ region' = region /\ i' = i
      /\ iterated' = iterated /\ var' = var /\ reg' = reg /\ lock' = lock
  BY DEF Omp!Barrier
<1>2. Forked /\ region = 3 /\ fc = "wait"
  BY <1>1 DEF Team, Forked, Places, OmpTypes
<1>3. OmpTypes' BY <1>1 DEF OmpTypes, Omp!Label
<1>4. Team' BY <1>1, <1>2 DEF Team, Forked, Places
<1>5. Critical' BY <1>1, <1>2 DEF Critical
<1> QED BY <1>3, <1>4, <1>5

\* What a core that runs a region finds: the whole team is in it.
LEMMA OmpThreadFinds ==
  ASSUME OmpInv, NEW c \in Core, core[c] \notin {"idle", "entry", "return"}
  PROVE  /\ Forked /\ region \in 1 .. 4 /\ fc = "wait"
         /\ \A d \in Core : core[d] \in Places(region)
<1>1. region \in 1 .. 5 BY DEF OmpInv, OmpTypes
<1>2. Forked BY ZeroIsACore DEF OmpInv, Team, Forked
<1>3. core[0] # "idle" /\ region < 5 BY <1>2 DEF OmpInv, Team, Forked
<1>4. fc = "wait" /\ \A d \in Core : core[d] \in Places(region)
  BY <1>2, <1>3 DEF OmpInv, Team
<1> QED BY <1>1, <1>2, <1>3, <1>4

\* A step of such a core to another place of its region keeps the team together.
LEMMA OmpThreadMoves ==
  ASSUME OmpInv, NEW c \in Core, core[c] \notin {"idle", "entry", "return"},
         NEW label \in Places(region), Omp!Goto(c, label), fc' = fc, region' = region
  PROVE  /\ core' \in [Core -> Omp!Label] /\ core'[c] = label
         /\ \A d \in Core \ {c} : core'[d] = core[d]
         /\ Team' /\ Forked'
<1>1. /\ Forked /\ region \in 1 .. 4 /\ fc = "wait"
      /\ \A d \in Core : core[d] \in Places(region)
  BY OmpThreadFinds
<1>2. label \in Omp!Label \ {"idle", "entry", "return"}
  BY <1>1 DEF Places, Omp!Label
<1>3. /\ core' \in [Core -> Omp!Label] /\ core'[c] = label
      /\ \A d \in Core \ {c} : core'[d] = core[d]
  BY <1>2 DEF OmpInv, OmpTypes, Omp!Goto
<1>4. Forked' BY <1>1, <1>2, <1>3, ZeroIsACore DEF Forked
<1>5. Team' BY <1>1, <1>3, <1>4 DEF Team, Forked
<1> QED BY <1>3, <1>4, <1>5

\* The regions with no lock.
LEMMA OmpPlainStep ==
  ASSUME OmpInv, NEW c \in Core,
         Omp!Greet(c) \/ Omp!Iterate(c) \/ Omp!Dummy(c) \/ Omp!Past(c)
  PROVE  OmpInv'
<1> USE OmpNames, IncrementsAreSome DEF OmpInv
<1>1. core[c] \in {"print", "for", "dummy", "past"} /\ core[c] \notin {"idle", "entry", "return"}
  BY DEF Omp!Greet, Omp!Iterate, Omp!Dummy, Omp!Past
<1>2. /\ Forked /\ region \in 1 .. 3 /\ fc = "wait"
      /\ \A d \in Core : core[d] \in Places(region)
  BY <1>1, OmpThreadFinds DEF Places
<1>3. /\ fc' = fc /\ mounted' = mounted /\ region' = region
      /\ var' = var /\ reg' = reg /\ lock' = lock
  BY DEF Omp!Greet, Omp!Iterate, Omp!Dummy, Omp!Past
<1>4. lock = {} /\ \A d \in Core : core[d] \notin {"load", "store"}
  BY <1>2 DEF Critical, Places
<1>5. i' \in [Core -> Nat] /\ iterated' \in [Omp!Iteration -> Nat]
  <2>1. i \in [Core -> Nat] /\ iterated \in [Omp!Iteration -> Nat] BY DEF OmpTypes
  <2>2. CASE UNCHANGED << i, iterated >> BY <2>1, <2>2
  <2>3. CASE Omp!Iterate(c) /\ i[c] < Omp!First(c) + Omp!Slice(c)
    <3>1. i' = [i EXCEPT ![c] = @ + 1] /\ iterated' = [iterated EXCEPT ![i[c]] = @ + 1]
      BY <2>3 DEF Omp!Iterate
    <3>2. i' \in [Core -> Nat] BY <2>1, <3>1
    <3>3. CASE i[c] \in Omp!Iteration BY <2>1, <3>1, <3>3
    <3>4. CASE i[c] \notin Omp!Iteration
      <4>1. iterated' = iterated BY <2>1, <3>1, <3>4
      <4> QED BY <2>1, <3>2, <4>1
    <3> QED BY <3>2, <3>3, <3>4
  <2> QED BY <2>2, <2>3 DEF Omp!Greet, Omp!Iterate, Omp!Dummy, Omp!Past
<1>6. CASE UNCHANGED core
  <2>1. OmpTypes' BY <1>3, <1>5, <1>6 DEF OmpTypes
  <2>2. Team' /\ Critical' BY <1>2, <1>3, <1>6 DEF Team, Critical, Forked
  <2> QED BY <2>1, <2>2
<1>7. CASE ~UNCHANGED core
  <2>1. PICK label \in Places(region) :
          /\ Omp!Goto(c, label) /\ label \notin {"load", "store"}
    BY <1>1, <1>2, <1>7 DEF Omp!Greet, Omp!Iterate, Omp!Dummy, Omp!Past, Places
  <2>2. /\ core' \in [Core -> Omp!Label] /\ core'[c] = label
        /\ \A d \in Core \ {c} : core'[d] = core[d]
        /\ Team' /\ Forked'
    BY <1>1, <1>3, <2>1, OmpThreadMoves
  <2>3. OmpTypes' BY <1>3, <1>5, <2>2 DEF OmpTypes
  <2>4. Critical' BY <1>2, <1>3, <1>4, <2>1, <2>2 DEF Critical
  <2> QED BY <2>2, <2>3, <2>4
<1> QED BY <1>6, <1>7

\* Taking the lock, or having no increment left.
LEMMA OmpEnterStep == ASSUME OmpInv, NEW c \in Core, Omp!Enter(c) PROVE OmpInv'
<1> DEFINE label == IF i[c] < INCREMENTS THEN "load" ELSE "joined"
<1> USE OmpNames, IncrementsAreSome DEF OmpInv
<1>1. /\ core[c] = "critical" /\ core[c] \notin {"idle", "entry", "return"}
      /\ fc' = fc /\ mounted' = mounted /\ region' = region /\ i' = i
      /\ iterated' = iterated /\ var' = var /\ reg' = reg
      /\ Omp!Goto(c, label)
      /\ i[c] < INCREMENTS => lock = {} /\ lock' = {c}
      /\ ~(i[c] < INCREMENTS) => lock' = lock
  BY DEF Omp!Enter
<1>2. /\ Forked /\ region = 4 /\ fc = "wait" /\ label \in Places(region)
  BY <1>1, OmpThreadFinds DEF Places
<1>3. /\ core' \in [Core -> Omp!Label] /\ core'[c] = label
      /\ \A d \in Core \ {c} : core'[d] = core[d]
      /\ Team' /\ Forked'
  <2> HIDE DEF label
  <2> QED BY <1>1, <1>2, OmpThreadMoves
<1>4. OmpTypes' BY <1>1, <1>3 DEF OmpTypes
<1>5. Done' = Done BY <1>1 DEF Done
<1>6. i[c] \in Nat /\ i[c] <= INCREMENTS /\ INCREMENTS \in Nat
  BY <1>2, IncrementsAreSome DEF Critical, OmpTypes
<1>7. lock' = {d \in Core : core'[d] \in {"load", "store"}} /\ \A d, e \in lock' : d = e
  BY <1>1, <1>3 DEF Critical
<1>8. Critical' BY <1>1, <1>2, <1>3, <1>5, <1>6, <1>7 DEF Critical
<1> QED BY <1>3, <1>4, <1>8

\* Loading var with the lock held.
LEMMA OmpLoadStep == ASSUME OmpInv, NEW c \in Core, Omp!LoadVar(c) PROVE OmpInv'
<1> USE OmpNames, IncrementsAreSome DEF OmpInv
<1>1. /\ core[c] = "load" /\ core[c] \notin {"idle", "entry", "return"}
      /\ fc' = fc /\ mounted' = mounted /\ region' = region /\ i' = i
      /\ iterated' = iterated /\ var' = var /\ lock' = lock
      /\ Omp!Goto(c, "store") /\ reg' = [reg EXCEPT ![c] = var]
  BY DEF Omp!LoadVar
<1>2. /\ Forked /\ region = 4 /\ fc = "wait" /\ "store" \in Places(region)
  BY <1>1, OmpThreadFinds DEF Places
<1>3. /\ core' \in [Core -> Omp!Label] /\ core'[c] = "store"
      /\ \A d \in Core \ {c} : core'[d] = core[d]
      /\ Team' /\ Forked'
  BY <1>1, <1>2, OmpThreadMoves
<1>4. OmpTypes' BY <1>1, <1>3 DEF OmpTypes
<1>5. Done' = Done BY <1>1 DEF Done
<1>6. reg'[c] = var /\ \A d \in Core \ {c} : reg'[d] = reg[d]
  BY <1>1 DEF OmpTypes
<1>7. Critical' BY <1>1, <1>2, <1>3, <1>5, <1>6 DEF Critical
<1> QED BY <1>3, <1>4, <1>7

\* Storing what was loaded: nobody has changed var since, so one increment more
\* is done and var is one more.
LEMMA OmpStoreStep == ASSUME OmpInv, NEW c \in Core, Omp!StoreVar(c) PROVE OmpInv'
<1> USE OmpNames, IncrementsAreSome DEF OmpInv
<1>1. /\ core[c] = "store" /\ core[c] \notin {"idle", "entry", "return"}
      /\ fc' = fc /\ mounted' = mounted /\ region' = region /\ reg' = reg
      /\ iterated' = iterated /\ var' = reg[c] + 1 /\ lock' = lock \ {c}
      /\ Omp!Goto(c, "critical") /\ i' = [i EXCEPT ![c] = @ + 1]
  BY DEF Omp!StoreVar
<1>2. /\ Forked /\ region = 4 /\ fc = "wait" /\ "critical" \in Places(region)
  BY <1>1, OmpThreadFinds DEF Places
<1>3. /\ core' \in [Core -> Omp!Label] /\ core'[c] = "critical"
      /\ \A d \in Core \ {c} : core'[d] = core[d]
      /\ Team' /\ Forked'
  BY <1>1, <1>2, OmpThreadMoves
<1>4. /\ c \in lock /\ i[c] \in Nat /\ i[c] < INCREMENTS /\ reg[c] = var
      /\ var = Cardinality(Done) /\ INCREMENTS \in Nat
  BY <1>1, <1>2 DEF Critical, OmpTypes
<1>5. /\ i' \in [Core -> Nat] /\ i'[c] = i[c] + 1
      /\ \A d \in Core \ {c} : i'[d] = i[d]
  <2>1. i \in [Core -> Nat] BY DEF OmpTypes
  <2> QED BY <1>1, <1>4, <2>1
<1>6. Done' = Done \cup {<< c, i[c] >>} /\ << c, i[c] >> \notin Done
  <2>1. << c, i[c] >> \in Increment BY <1>4 DEF Increment
  <2>2. << c, i[c] >> \notin Done BY <1>4 DEF Done
  <2>3. ASSUME NEW p \in Increment
        PROVE  p[2] < i'[p[1]] <=> p[2] < i[p[1]] \/ p = << c, i[c] >>
    <3>1. p[1] \in Core /\ p[2] \in Nat /\ p = << p[1], p[2] >>
      BY DEF Increment
    <3>2. CASE p[1] = c BY <1>4, <1>5, <3>1, <3>2
    <3>3. CASE p[1] # c BY <1>5, <3>1, <3>3
    <3> QED BY <3>2, <3>3
  <2>4. Done' = {p \in Increment : p[2] < i'[p[1]]} BY DEF Done, Increment
  <2> QED BY <2>1, <2>2, <2>3, <2>4 DEF Done
<1>7. Cardinality(Done') = Cardinality(Done) + 1
  BY <1>6, DoneSize, FS_AddElement
<1>8. Cardinality(Done') \in 0 .. NB_PE * INCREMENTS
  <2>1. Done' \in SUBSET Increment BY DEF Done, Increment
  <2>2. IsFiniteSet(Done') /\ Cardinality(Done') <= Cardinality(Increment)
    BY <2>1, IncrementSize, FS_Subset
  <2>3. Cardinality(Done') \in Nat BY <2>2, FS_CardinalityType
  <2> QED BY <2>2, <2>3, IncrementSize
<1>9. var' = Cardinality(Done') BY <1>1, <1>4, <1>7
<1>10. OmpTypes' BY <1>1, <1>3, <1>5, <1>8, <1>9 DEF OmpTypes
<1>11. lock' = {} /\ \A d \in Core \ {c} : core[d] \notin {"load", "store"}
  BY <1>1, <1>4 DEF Critical
<1>12. Critical'
  BY <1>1, <1>2, <1>3, <1>4, <1>5, <1>9, <1>11 DEF Critical
<1> QED BY <1>3, <1>10, <1>12

LEMMA OmpClusterStep == ASSUME OmpInv, Omp!Cluster PROVE OmpInv'
<1>1. CASE Omp!Fork BY <1>1, OmpForkStep
<1>2. CASE Omp!Join BY <1>2, OmpJoinStep
<1>3. CASE Omp!Barrier BY <1>3, OmpBarrierStep
<1>4. ASSUME NEW c \in Core, Omp!Thread(c) PROVE OmpInv'
  BY <1>4, OmpPlainStep, OmpEnterStep, OmpLoadStep, OmpStoreStep DEF Omp!Thread
<1> QED BY <1>1, <1>2, <1>3, <1>4, OmpNames DEF Omp!Cluster

-----------------------------------------------------------------------------
(* cluster/task.                                                           *)

\* Of everything there are two: FC tasks, CL tasks in a frame, cores of a CL task.
Pair == 0 .. 1

LEMMA PairIs == 0 \in Pair /\ 1 \in Pair /\ \A x \in Pair : x = 0 \/ x = 1
BY DEF Pair

LEMMA PairNames == Task!Fc = Pair /\ Task!Cl = Pair /\ Task!Id = Pair
BY DEF Pair, Task!Fc, Task!Cl, Task!Id

\* FC task f and the CL tasks in its frame: those before j have been pushed,
\* and later waited for.
Frame(f) ==
  /\ task[f] \in {"new", "pushed"} => j[f] = 0 /\ \A c \in Pair : cl[f][c] = "new"
  /\ task[f] = "pushing" => j[f] < 2 /\ \A c \in Pair : (c < j[f]) = (cl[f][c] # "new")
  /\ task[f] = "waiting" =>
       j[f] < 2 /\ \A c \in Pair : cl[f][c] # "new" /\ (c < j[f] => cl[f][c] = "done")
  /\ task[f] = "done" => \A c \in Pair : cl[f][c] = "done"

\* Where main is in its loops, and the events it has left.
Pushed ==
  /\ pc = "alloc" => pool = 0
  /\ pc \in {"mount", "init"} => pool = 2
  /\ pc \in {"alloc", "mount", "init"} => n = 0
  /\ pc = "push" => n < 2 /\ pool = 2 - n
  /\ pc = "wait" => n < 2 /\ pool = n
  /\ pc \in {"alloc", "mount", "init", "push"} => \A f \in Pair : f >= n => task[f] = "new"

\* Task!TypeOK, in the names of this module.
TaskTypes ==
  /\ pc \in {"alloc", "mount", "init", "push", "wait", "exit_0", "exit_-1", "null_event"}
  /\ n \in 0 .. 2 /\ mounted \in BOOLEAN /\ pool \in 0 .. 2
  /\ event \in [Pair -> {"none", "out", "signaled"}]
  /\ task \in [Pair -> {"new", "pushed", "pushing", "waiting", "done"}]
  /\ j \in [Pair -> 0 .. 2]
  /\ cl \in [Pair -> [Pair -> {"new", "pushed", "running", "done"}]]
  /\ ran \in [Pair -> [Pair -> SUBSET Pair]]

TaskInv == TaskTypes /\ Pushed /\ \A f \in Pair : Frame(f)

LEMMA TaskTypesOK == TaskTypes => Task!TypeOK
BY PairNames DEF TaskTypes, Task!TypeOK

LEMMA TaskInit == ASSUME Task!Init PROVE TaskInv
<1> USE PairIs, PairNames
<1>1. /\ pc = "alloc" /\ n = 0 /\ mounted = FALSE /\ pool = 0
      /\ event = [f \in Pair |-> "none"]
      /\ task = [f \in Pair |-> "new"] /\ j = [f \in Pair |-> 0]
      /\ cl = [f \in Pair |-> [c \in Pair |-> "new"]]
      /\ ran = [f \in Pair |-> [c \in Pair |-> {}]]
  BY DEF Task!Init
<1>2. mounted \in BOOLEAN
  BY <1>1
<1>3. /\ event \in [Pair -> {"none", "out", "signaled"}]
      /\ task \in [Pair -> {"new", "pushed", "pushing", "waiting", "done"}]
      /\ j \in [Pair -> 0 .. 2]
  BY <1>1
<1>4. cl \in [Pair -> [Pair -> {"new", "pushed", "running", "done"}]]
  BY <1>1
<1>5. ran \in [Pair -> [Pair -> SUBSET Pair]]
  BY <1>1
<1>6. TaskTypes
  BY <1>1, <1>2, <1>3, <1>4, <1>5 DEF TaskTypes
<1>7. Pushed /\ \A f \in Pair : Frame(f)
  BY <1>1 DEF Pushed, Frame
<1> QED BY <1>6, <1>7 DEF TaskInv

LEMMA TaskMainStep == ASSUME TaskInv, Task!Main PROVE TaskInv'
<1> USE PairIs DEF TaskInv
<1>1. CASE Task!Alloc \/ Task!Mount \/ Task!InitTasks
  <2>1. UNCHANGED << n, event, task, j, cl, ran >>
    BY <1>1 DEF Task!Alloc, Task!Mount, Task!InitTasks, Task!tasks
  <2>2. \/ pc = "alloc" /\ pc' = "mount" /\ pool' = pool + 2
        \/ pc \in {"alloc", "init"} /\ pc' = "exit_-1" /\ pool' = pool
        \/ pc = "mount" /\ pc' = "init" /\ pool' = pool
        \/ pc = "init" /\ pc' = "push" /\ pool' = pool
    BY <1>1 DEF Task!Alloc, Task!Mount, Task!InitTasks, Task!rt_event_alloc
  <2>3. mounted' \in BOOLEAN
    BY <1>1 DEF TaskTypes, Task!Alloc, Task!Mount, Task!InitTasks
  <2>4. pool' \in 0 .. 2
    BY <2>2 DEF TaskTypes, Pushed
  <2>5. Pushed'
    BY <2>1, <2>2 DEF Pushed
  <2>6. TaskTypes'
    BY <2>1, <2>2, <2>3, <2>4 DEF TaskTypes
  <2> QED BY <2>1, <2>5, <2>6 DEF Frame
<1>2. CASE Task!PushFc
  <2>1. pc = "push" /\ n \in Pair /\ pool = 2 - n /\ task[n] = "new"
    BY <1>2 DEF Task!PushFc, TaskTypes, Pushed
  <2>2. /\ pool' = pool - 1 /\ UNCHANGED << mounted, j, cl, ran >>
        /\ event' = [event EXCEPT ![n] = "out"] /\ task' = [task EXCEPT ![n] = "pushed"]
        /\ \/ n = 1 /\ n' = 0 /\ pc' = "wait"
           \/ n = 0 /\ n' = 1 /\ pc' = "push"
    BY <1>2, <2>1 DEF Task!PushFc, Task!HasEvents, Task!rt_event_get
  <2>3. /\ task' \in [Pair -> {"new", "pushed", "pushing", "waiting", "done"}]
        /\ task'[n] = "pushed" /\ \A f \in Pair : f # n => task'[f] = task[f]
        /\ event' \in [Pair -> {"none", "out", "signaled"}]
    BY <2>1, <2>2 DEF TaskTypes
  <2>4. TaskTypes'
    <3>1. pool' \in 0 .. 2 /\ n' \in 0 .. 2
      BY <2>1, <2>2
    <3> QED BY <2>1, <2>2, <2>3, <3>1 DEF TaskTypes
  <2>5. Pushed'
    BY <2>1, <2>2, <2>3 DEF Pushed
  <2>6. ASSUME NEW f \in Pair PROVE Frame(f)'
    <3>1. Frame(f) OBVIOUS
    <3>2. CASE f = n BY <2>1, <2>2, <2>3, <3>1, <3>2 DEF Frame
    <3>3. CASE f # n BY <2>2, <2>3, <3>1, <3>3 DEF Frame
    <3> QED BY <3>2, <3>3
  <2> QED BY <2>4, <2>5, <2>6
<1>3. CASE Task!WaitFc
  <2>1. pc = "wait" /\ n \in Pair /\ pool = n
    <3>1. pc = "wait" /\ n \in 0 .. 2
      BY <1>3 DEF Task!WaitFc, TaskTypes
    <3>2. n < 2 /\ pool = n
      BY <3>1 DEF Pushed
    <3> QED BY <3>1, <3>2
  <2>2. /\ pool' = pool + 1 /\ n' = n + 1 /\ UNCHANGED << mounted, task, j, cl, ran >>
        /\ event' = [event EXCEPT ![n] = "none"]
        /\ (n = 0 /\ pc' = "wait") \/ (n = 1 /\ pc' = "exit_0")
    BY <1>3, <2>1 DEF Task!WaitFc, Task!rt_event_free, Task!tasks
  <2>3. event' \in [Pair -> {"none", "out", "signaled"}]
    BY <2>1, <2>2 DEF TaskTypes
  <2>4. TaskTypes'
    <3>1. CASE n = 0
      <4>1. pool' = 1 /\ n' = 1 /\ pc' = "wait"
        BY <2>1, <2>2, <3>1
      <4> QED BY <2>2, <2>3, <4>1 DEF TaskTypes
    <3>2. CASE n = 1
      <4>1. pool' = 2 /\ n' = 2 /\ pc' = "exit_0"
        BY <2>1, <2>2, <3>2
      <4> QED BY <2>2, <2>3, <4>1 DEF TaskTypes
    <3> QED BY <2>1, <3>1, <3>2
  <2>5. Pushed'
    BY <2>1, <2>2 DEF Pushed
  <2> QED BY <2>2, <2>4, <2>5 DEF Frame
<1> QED BY <1>1, <1>2, <1>3 DEF Task!Main

\* A step of an FC task that has been pushed, or of one in its frame.
LEMMA TaskMoves ==
  ASSUME TaskInv, UNCHANGED << pc, n, mounted, pool >>, NEW f \in Pair,
         task[f] # "new", Frame(f)', TaskTypes',
         \A g \in Pair : g # f => task'[g] = task[g] /\ j'[g] = j[g] /\ cl'[g] = cl[g]
  PROVE  TaskInv'
<1>1. Pushed'
  BY DEF TaskInv, Pushed
<1>2. ASSUME NEW g \in Pair PROVE Frame(g)'
  <2>1. Frame(g) BY DEF TaskInv
  <2>2. CASE g = f BY <2>2
  <2>3. CASE g # f BY <2>1, <2>3 DEF Frame
  <2> QED BY <2>2, <2>3
<1> QED BY <1>1, <1>2 DEF TaskInv

LEMMA TaskClusterStep == ASSUME TaskInv, Task!Cluster PROVE TaskInv'
<1> USE PairIs, PairNames
<1>1. TaskTypes /\ UNCHANGED << pc, n, mounted, pool >>
  BY DEF TaskInv, Task!Cluster, Task!StartFc, Task!PushCl, Task!WaitCl, Task!StartCl,
         Task!cl_task_entry, Task!main
<1>2. ASSUME NEW f \in Pair, Task!StartFc(f) PROVE TaskInv'
  <2>1. /\ task[f] = "pushed" /\ task' = [task EXCEPT ![f] = "pushing"]
        /\ UNCHANGED << event, j, cl, ran >>
    BY <1>2 DEF Task!StartFc
  <2>2. TaskTypes' /\ task'[f] = "pushing" /\ \A g \in Pair : g # f => task'[g] = task[g]
    BY <1>1, <2>1 DEF TaskTypes
  <2>3. Frame(f) BY DEF TaskInv
  <2>4. Frame(f)'
    BY <2>1, <2>2, <2>3 DEF Frame
  <2> QED BY <1>1, <2>1, <2>2, <2>4, TaskMoves
<1>3. ASSUME NEW f \in Pair, Task!PushCl(f) PROVE TaskInv'
  <2>1. task[f] = "pushing" /\ Frame(f) /\ j[f] \in Pair
    <3>1. task[f] = "pushing" /\ Frame(f) /\ j[f] \in 0 .. 2
      BY <1>1, <1>3 DEF Task!PushCl, TaskInv, TaskTypes
    <3> QED BY <3>1 DEF Frame
  <2>2. /\ cl' = [cl EXCEPT ![f][j[f]] = "pushed"] /\ UNCHANGED << event, ran >>
        /\ \/ j[f] = 1 /\ task' = [task EXCEPT ![f] = "waiting"] /\ j' = [j EXCEPT ![f] = 0]
           \/ j[f] = 0 /\ task' = task /\ j' = [j EXCEPT ![f] = 1]
    <3>1. j[f] = 0 => [j EXCEPT ![f] = @ + 1] = [j EXCEPT ![f] = 1]
      OBVIOUS
    <3> QED BY <1>3, <2>1, <3>1 DEF Task!PushCl
  <2>3. /\ cl' \in [Pair -> [Pair -> {"new", "pushed", "running", "done"}]]
        /\ cl'[f][j[f]] = "pushed" /\ \A c \in Pair : c # j[f] => cl'[f][c] = cl[f][c]
        /\ \A g \in Pair : g # f => cl'[g] = cl[g]
    BY <1>1, <2>1, <2>2 DEF TaskTypes
  <2>4. /\ task' \in [Pair -> {"new", "pushed", "pushing", "waiting", "done"}]
        /\ j' \in [Pair -> 0 .. 2]
        /\ \A g \in Pair : g # f => task'[g] = task[g] /\ j'[g] = j[g]
        /\ \/ j[f] = 1 /\ task'[f] = "waiting" /\ j'[f] = 0
           \/ j[f] = 0 /\ task'[f] = "pushing" /\ j'[f] = 1
    <3>1. /\ task \in [Pair -> {"new", "pushed", "pushing", "waiting", "done"}]
          /\ j \in [Pair -> 0 .. 2]
      BY <1>1 DEF TaskTypes
    <3>2. CASE j[f] = 1
      BY <2>1, <2>2, <3>1, <3>2
    <3>3. CASE j[f] = 0
      BY <2>1, <2>2, <3>1, <3>3
    <3> QED BY <2>1, <3>2, <3>3
  <2>5. TaskTypes'
    BY <1>1, <2>2, <2>3, <2>4 DEF TaskTypes
  <2>6. Frame(f)'
    BY <2>1, <2>3, <2>4 DEF Frame
  <2> QED BY <1>1, <2>1, <2>3, <2>4, <2>5, <2>6, TaskMoves
<1>4. ASSUME NEW f \in Pair, Task!WaitCl(f) PROVE TaskInv'
  <2>1. task[f] = "waiting" /\ cl[f][j[f]] = "done" /\ Frame(f) /\ j[f] \in Pair
    <3>1. task[f] = "waiting" /\ cl[f][j[f]] = "done" /\ Frame(f) /\ j[f] \in 0 .. 2
      BY <1>1, <1>4 DEF Task!WaitCl, TaskInv, TaskTypes
    <3> QED BY <3>1 DEF Frame
  <2>2. /\ j' = [j EXCEPT ![f] = @ + 1] /\ UNCHANGED << cl, ran >>
        /\ \/ j[f] = 1 /\ task' = [task EXCEPT ![f] = "done"]
              /\ event' = [event EXCEPT ![f] = "signaled"]
           \/ j[f] = 0 /\ task' = task /\ event' = event
    BY <1>1, <1>4, <2>1 DEF Task!WaitCl
  <2>3. /\ task' \in [Pair -> {"new", "pushed", "pushing", "waiting", "done"}]
        /\ j' \in [Pair -> 0 .. 2] /\ event' \in [Pair -> {"none", "out", "signaled"}]
        /\ \A g \in Pair : g # f => task'[g] = task[g] /\ j'[g] = j[g]
        /\ \/ j[f] = 1 /\ task'[f] = "done"
           \/ j[f] = 0 /\ task'[f] = "waiting" /\ j'[f] = 1
    <3>1. /\ task \in [Pair -> {"new", "pushed", "pushing", "waiting", "done"}]
          /\ j \in [Pair -> 0 .. 2] /\ event \in [Pair -> {"none", "out", "signaled"}]
      BY <1>1 DEF TaskTypes
    <3>2. CASE j[f] = 1
      BY <2>1, <2>2, <3>1, <3>2
    <3>3. CASE j[f] = 0
      BY <2>1, <2>2, <3>1, <3>3
    <3> QED BY <2>1, <3>2, <3>3
  <2>4. TaskTypes'
    BY <1>1, <2>2, <2>3 DEF TaskTypes
  <2>5. Frame(f)'
    BY <2>1, <2>2, <2>3 DEF Frame
  <2> QED BY <1>1, <2>1, <2>2, <2>3, <2>4, <2>5, TaskMoves
<1>5. ASSUME NEW f \in Pair, NEW c \in Pair, Task!StartCl(f, c) PROVE TaskInv'
  <2>1. /\ cl[f][c] = "pushed" /\ cl' = [cl EXCEPT ![f][c] = "running"]
        /\ UNCHANGED << event, task, j, ran >>
    BY <1>5 DEF Task!StartCl
  <2>2. /\ TaskTypes' /\ cl'[f][c] = "running"
        /\ \A d \in Pair : d # c => cl'[f][d] = cl[f][d]
        /\ \A g \in Pair : g # f => cl'[g] = cl[g]
    BY <1>1, <2>1 DEF TaskTypes
  <2>3. Frame(f) BY DEF TaskInv
  <2>4. task[f] # "new" /\ Frame(f)'
    BY <2>1, <2>2, <2>3 DEF Frame
  <2> QED BY <1>1, <2>1, <2>2, <2>4, TaskMoves
<1>6. ASSUME NEW f \in Pair, NEW c \in Pair, Task!cl_task_entry(f, c) PROVE TaskInv'
  <2>1. PICK id \in Pair :
          /\ cl[f][c] = "running" /\ UNCHANGED << event, task, j >>
          /\ ran' = [ran EXCEPT ![f][c] = @ \cup {id}]
          /\ \/ cl' = [cl EXCEPT ![f][c] = "done"]
             \/ cl' = [cl EXCEPT ![f][c] = cl[f][c]]
    BY <1>6 DEF Task!cl_task_entry
  <2>2. ran' \in [Pair -> [Pair -> SUBSET Pair]]
    <3>1. ran \in [Pair -> [Pair -> SUBSET Pair]]
      BY <1>1 DEF TaskTypes
    <3>2. ran[f] \in [Pair -> SUBSET Pair]
      BY <3>1
    <3>3. ran[f][c] \in SUBSET Pair
      BY <3>2
    <3>4. ran[f][c] \cup {id} \in SUBSET Pair
      BY <3>3
    <3>5. [ran[f] EXCEPT ![c] = @ \cup {id}] \in [Pair -> SUBSET Pair]
      BY <3>2, <3>4
    <3> QED BY <2>1, <3>1, <3>5
  <2>3. /\ cl' \in [Pair -> [Pair -> {"new", "pushed", "running", "done"}]]
        /\ cl'[f][c] \in {"running", "done"}
        /\ \A d \in Pair : d # c => cl'[f][d] = cl[f][d]
        /\ \A g \in Pair : g # f => cl'[g] = cl[g]
    <3>1. cl \in [Pair -> [Pair -> {"new", "pushed", "running", "done"}]]
      BY <1>1 DEF TaskTypes
    <3>2. PICK how \in {"running", "done"} : cl' = [cl EXCEPT ![f][c] = how]
      BY <2>1
    <3> QED BY <3>1, <3>2
  <2>4. TaskTypes'
    BY <1>1, <2>1, <2>2, <2>3 DEF TaskTypes
  <2>5. Frame(f) BY DEF TaskInv
  <2>6. task[f] # "new" /\ Frame(f)'
    BY <2>1, <2>3, <2>5 DEF Frame
  <2> QED BY <1>1, <2>1, <2>3, <2>4, <2>6, TaskMoves
<1> QED BY <1>2, <1>3, <1>4, <1>5, <1>6 DEF Task!Cluster

-----------------------------------------------------------------------------
(* perf/fc/cumulative and perf/fc/direct.                                  *)

LEMMA FcPerfNames ==
  /\ FcPerf!Zero = Zero /\ FcPerf!Counters = Counters /\ FcPerf!LeftOver = 0 .. 1
  /\ \A left : FcPerf!PerfReset(left) = PerfReset(left)
  /\ \A one, events : FcPerf!rt_perf_conf(one, events) = rt_perf_conf(one, events)
  /\ \A one : FcPerf!rt_perf_reset(one) = rt_perf_reset(one)
  /\ \A one : FcPerf!rt_perf_start(one) = rt_perf_start(one)
  /\ \A one : FcPerf!rt_perf_stop(one) = rt_perf_stop(one)
  /\ \A one, e : FcPerf!rt_perf_read(one, e) = one.count[e]
  /\ \A one, some, times : FcPerf!Occur(one, some, times) = Occur(one, some, times)
  /\ \A S : FcPerf!Cardinality(S) = Cardinality(S)
BY DEF FcPerf!Zero, Zero, FcPerf!Counters, Counters, FcPerf!LeftOver, FcPerf!PerfReset, PerfReset,
       FcPerf!rt_perf_conf, rt_perf_conf, FcPerf!rt_perf_reset, rt_perf_reset,
       FcPerf!rt_perf_start, rt_perf_start, FcPerf!rt_perf_stop, rt_perf_stop,
       FcPerf!rt_perf_read, FcPerf!Occur, Occur, FcPerf!Cardinality, Cardinality

\* The groups of either program, no event in two of them, and what it prints.
LEMMA FcGroups ==
  /\ Len(FcPerf!Groups) \in Nat \ {0}
  /\ \A p \in 1 .. Len(FcPerf!Groups) : FcPerf!Groups[p] \in SUBSET PerfEvent
  /\ \A p, q \in 1 .. Len(FcPerf!Groups) :
       p # q => FcPerf!Groups[p] \cap FcPerf!Groups[q] = {}
  /\ program = "fc_direct" => Len(FcPerf!Groups) = 1 /\ FcPerf!Groups[1] = FcPerf!Printed
<1>1. CASE program = "fc_direct"
  <2>1. FcPerf!Groups = << Both >> /\ FcPerf!Printed = Both
    BY <1>1 DEF FcPerf!Groups, FcPerf!Printed, Both
  <2> QED BY <1>1, <2>1, BothAreEvents
<1>2. CASE program # "fc_direct"
  <2>1. FcPerf!Groups = PASSES
    BY <1>2 DEF FcPerf!Groups
  <2> QED BY <1>2, <2>1, Groups
<1> QED BY <1>1, <1>2

LEMMA PrintedAreEvents == FcPerf!Printed \in SUBSET PerfEvent /\ IsFiniteSet(FcPerf!Printed)
<1>1. IsFiniteSet(PerfEvent)
  BY ProgramsAssumption DEF FcPerf!PrintAssumption, FcPerf!IsFiniteSet, IsFiniteSet
<1>2. FcPerf!Printed \in SUBSET PerfEvent
  BY BothAreEvents DEF FcPerf!Printed, Both
<1> QED BY <1>1, <1>2, FS_Subset

\* FcPerf!TypeOK, in the names of this module.
FcPerfTypes ==
  /\ at \in {"init", "conf", "start", "bench", "stop", "save", "print", "exit"}
  /\ pass \in 1 .. Len(FcPerf!Groups) + 1
  /\ counters \in Counters
  /\ total \in [PerfEvent -> Nat]
  /\ occurred \in [PerfEvent -> 0 .. MAX_WORK]
  /\ shown \subseteq {0} \X PerfEvent \X (0 .. MAX_WORK)

\* The counters, from the moment they are configured to the moment they are
\* read: at once by the one program, line by line by the other.
FcCounting ==
  /\ program = "fc_direct" => at # "save"
  /\ at \in {"start", "bench", "stop", "save"} => counters.conf = FcPerf!Groups[pass]
  /\ at = "bench" => counters.on /\ counters.count = Zero
  /\ at \in {"stop", "save"} => \A e \in FcPerf!Groups[pass] : counters.count[e] = occurred[e]
  /\ program = "fc_direct" /\ at \in {"print", "exit"} =>
       ~ counters.on /\ \A e \in FcPerf!Printed : counters.count[e] = occurred[e]

\* The structure is short of the group that is being counted.
FcTotal ==
  /\ at = "init" => occurred = Zero
  /\ at \in {"conf", "start", "bench"} => total = occurred
  /\ at \in {"stop", "save"} =>
       \A e \in PerfEvent : total[e] = IF e \in FcPerf!Groups[pass] THEN 0 ELSE occurred[e]
  /\ program = "fc_cumulative" /\ at \in {"print", "exit"} => total = occurred

\* Nothing has occurred in the groups that are still to come.
FcToCome ==
  /\ at \in {"init", "conf", "start", "bench", "stop", "save"} => pass <= Len(FcPerf!Groups)
  /\ at \in {"init", "conf", "start", "bench"} =>
       \A p \in pass .. Len(FcPerf!Groups) : \A e \in FcPerf!Groups[p] : occurred[e] = 0
  /\ at \in {"stop", "save"} =>
       \A p \in pass + 1 .. Len(FcPerf!Groups) : \A e \in FcPerf!Groups[p] : occurred[e] = 0

FcShown ==
  /\ at \notin {"print", "exit"} => shown = {}
  /\ \A s \in shown : s[2] \in FcPerf!Printed /\ s[3] = occurred[s[2]]
  /\ at = "exit" => {s[2] : s \in shown} = FcPerf!Printed

FcPerfInv == FcPerfTypes /\ FcCounting /\ FcTotal /\ FcToCome /\ FcShown

LEMMA FcPerfTypesOK == FcPerfTypes => FcPerf!TypeOK
BY FcPerfNames DEF FcPerfTypes, FcPerf!TypeOK

LEMMA FcPerfInit == ASSUME FcPerf!Start PROVE FcPerfInv
<1>1. PICK left \in 0 .. 1 : counters = PerfReset(left) /\ total = [e \in PerfEvent |-> left]
  BY FcPerfNames DEF FcPerf!Start
<1>2. at = "init" /\ pass = 1 /\ occurred = Zero /\ shown = {}
  BY FcPerfNames DEF FcPerf!Start
<1>3. FcPerfTypes
  <2>1. counters \in Counters /\ total \in [PerfEvent -> Nat]
    BY <1>1, ResetType
  <2> QED BY <1>2, <2>1, FcGroups, ZeroType DEF FcPerfTypes
<1>4. FcToCome
  BY <1>2, FcGroups, ZeroType DEF FcToCome
<1> QED BY <1>2, <1>3, <1>4 DEF FcPerfInv, FcCounting, FcTotal, FcShown

\* What stays as it is when the program does.
LEMMA FcPerfSame ==
  ASSUME UNCHANGED program
  PROVE  FcPerf!Groups' = FcPerf!Groups /\ FcPerf!Printed' = FcPerf!Printed
BY DEF FcPerf!Groups, FcPerf!Printed

\* The calls that set the counters up.
LEMMA FcSetUpStep ==
  ASSUME FcPerfInv, FcPerf!PerfInit \/ FcPerf!Conf \/ FcPerf!ResetStart
  PROVE  FcPerfInv'
<1>1. UNCHANGED << program, pass, occurred, shown >>
  BY DEF FcPerf!PerfInit, FcPerf!Conf, FcPerf!ResetStart
<1>2. FcPerf!Groups' = FcPerf!Groups /\ FcPerf!Printed' = FcPerf!Printed
  BY <1>1, FcPerfSame
<1>3. /\ counters \in Counters /\ total \in [PerfEvent -> Nat] /\ pass \in 1 .. Len(FcPerf!Groups) + 1
      /\ occurred \in [PerfEvent -> 0 .. MAX_WORK]
  BY DEF FcPerfInv, FcPerfTypes
<1>4. ASSUME at \in {"init", "conf", "start"}, at' \in {"conf", "start", "bench"},
             counters' \in Counters, total' = occurred,
             FcCounting'
      PROVE  FcPerfInv'
  <2>1. total' \in [PerfEvent -> Nat]
    BY <1>3, <1>4, Groups
  <2>2. FcPerfTypes'
    BY <1>1, <1>2, <1>4, <2>1 DEF FcPerfInv, FcPerfTypes
  <2>3. FcToCome'
    BY <1>1, <1>2, <1>4 DEF FcPerfInv, FcToCome
  <2>4. FcTotal' /\ FcShown'
    BY <1>1, <1>2, <1>4 DEF FcPerfInv, FcTotal, FcShown
  <2> QED BY <1>4, <2>2, <2>3, <2>4 DEF FcPerfInv
<1>5. CASE FcPerf!PerfInit
  <2>1. at = "init" /\ at' = "conf" /\ total' = Zero /\ counters' = counters
    BY <1>5, FcPerfNames DEF FcPerf!PerfInit
  <2>2. occurred = Zero
    BY <2>1 DEF FcPerfInv, FcTotal
  <2> QED BY <1>3, <1>4, <2>1, <2>2 DEF FcCounting
<1>6. CASE FcPerf!Conf
  <2> DEFINE set == rt_perf_conf(counters, FcPerf!Groups[pass])
  <2>1. /\ at = "conf" /\ at' = "start" /\ total' = total /\ counters' = Occur(set, PerfEvent, 1)
    BY <1>6, FcPerfNames DEF FcPerf!Conf, FcPerf!Runtime
  <2>2. FcPerf!Groups[pass] \in SUBSET PerfEvent /\ total = occurred
    BY <1>3, <2>1, FcGroups DEF FcPerfInv, FcToCome, FcTotal
  <2>3. set \in Counters /\ set.conf = FcPerf!Groups[pass]
    BY <1>3, <2>2, ConfCounters
  <2> HIDE DEF set
  <2>4. counters' \in Counters /\ counters'.conf = set.conf
    BY <2>1, <2>3, OccurCounters
  <2> QED BY <1>1, <1>2, <1>4, <2>1, <2>2, <2>3, <2>4 DEF FcCounting
<1>7. CASE FcPerf!ResetStart
  <2>1. /\ at = "start" /\ at' = "bench" /\ total' = total
        /\ counters' = rt_perf_start(rt_perf_reset(counters))
    BY <1>7, FcPerfNames DEF FcPerf!ResetStart
  <2>2. total = occurred /\ counters.conf = FcPerf!Groups[pass]
    BY <2>1 DEF FcPerfInv, FcTotal, FcCounting
  <2>3. /\ rt_perf_reset(counters) \in Counters /\ rt_perf_reset(counters).count = Zero
        /\ rt_perf_reset(counters).conf = counters.conf
    BY <1>3, SwitchCounters
  <2>4. /\ counters' \in Counters /\ counters'.on /\ counters'.count = Zero
        /\ counters'.conf = counters.conf
    BY <2>1, <2>3, SwitchCounters
  <2> QED BY <1>1, <1>2, <1>4, <2>1, <2>2, <2>4 DEF FcCounting
<1> QED BY <1>5, <1>6, <1>7

LEMMA FcBenchStep == ASSUME FcPerfInv, FcPerf!Bench PROVE FcPerfInv'
<1>1. PICK times \in 0 .. MAX_WORK :
        /\ at = "bench" /\ at' = "stop"
        /\ counters' = Occur(counters, PerfEvent, times)
        /\ occurred' = [e \in PerfEvent |-> IF e \in FcPerf!Groups[pass] THEN times ELSE occurred[e]]
        /\ UNCHANGED << program, pass, total, shown >>
  BY FcPerfNames DEF FcPerf!Bench
<1>2. FcPerf!Groups' = FcPerf!Groups /\ FcPerf!Printed' = FcPerf!Printed
  BY <1>1, FcPerfSame
<1>3. /\ counters \in Counters /\ total \in [PerfEvent -> Nat]
      /\ occurred \in [PerfEvent -> 0 .. MAX_WORK] /\ times \in Nat /\ total = occurred
      /\ pass \in 1 .. Len(FcPerf!Groups)
      /\ FcPerf!Groups[pass] \in SUBSET PerfEvent
      /\ counters.conf = FcPerf!Groups[pass] /\ counters.on /\ counters.count = Zero
  <2>1. pass \in 1 .. Len(FcPerf!Groups)
    BY <1>1, FcGroups DEF FcPerfInv, FcPerfTypes, FcToCome
  <2> QED BY <1>1, <2>1, FcGroups, Groups DEF FcPerfInv, FcPerfTypes, FcTotal, FcCounting
<1>4. /\ counters' \in Counters /\ counters'.conf = FcPerf!Groups[pass]
      /\ \A e \in FcPerf!Groups[pass] : counters'.count[e] = times
  <2>1. counters' \in Counters /\ counters'.conf = counters.conf
    BY <1>1, <1>3, OccurCounters
  <2>2. \A e \in counters.conf \cap PerfEvent : counters'.count[e] = counters.count[e] + times
    BY <1>1, <1>3, OccurCounters
  <2>3. ASSUME NEW e \in FcPerf!Groups[pass] PROVE counters'.count[e] = times
    <3>1. e \in PerfEvent /\ Zero[e] = 0
      BY <1>3, ZeroType
    <3>2. counters'.count[e] = counters.count[e] + times
      BY <1>3, <2>2, <3>1
    <3> QED BY <1>3, <3>1, <3>2
  <2> QED BY <1>3, <2>1, <2>3
<1>5. /\ occurred' \in [PerfEvent -> 0 .. MAX_WORK]
      /\ \A e \in PerfEvent : occurred'[e] = IF e \in FcPerf!Groups[pass] THEN times ELSE occurred[e]
  BY <1>1, <1>3
<1>6. FcPerfTypes'
  BY <1>1, <1>2, <1>3, <1>4, <1>5 DEF FcPerfInv, FcPerfTypes
<1>7. FcCounting'
  BY <1>1, <1>2, <1>3, <1>4, <1>5 DEF FcCounting
<1>8. FcTotal'
  <2>1. \A e \in FcPerf!Groups[pass] : occurred[e] = 0
    BY <1>1, <1>3, FcGroups DEF FcPerfInv, FcToCome
  <2>2. \A e \in PerfEvent : total[e] = IF e \in FcPerf!Groups[pass] THEN 0 ELSE occurred'[e]
    BY <1>3, <1>5, <2>1
  <2> QED BY <1>1, <1>2, <2>2 DEF FcTotal
<1>9. FcToCome'
  <2>1. ASSUME NEW p \in pass + 1 .. Len(FcPerf!Groups), NEW e \in FcPerf!Groups[p]
        PROVE  occurred'[e] = 0
    <3>1. p \in 1 .. Len(FcPerf!Groups) /\ p \in pass .. Len(FcPerf!Groups) /\ p # pass
      BY <1>3, FcGroups
    <3>2. e \in PerfEvent /\ e \notin FcPerf!Groups[pass]
      BY <1>3, <2>1, <3>1, FcGroups
    <3>3. occurred[e] = 0
      BY <1>1, <2>1, <3>1 DEF FcPerfInv, FcToCome
    <3> QED BY <1>5, <3>2, <3>3
  <2> QED BY <1>1, <1>2, <1>3, <2>1 DEF FcToCome
<1>10. FcShown'
  BY <1>1, <1>2 DEF FcPerfInv, FcShown
<1> QED BY <1>6, <1>7, <1>8, <1>9, <1>10 DEF FcPerfInv

LEMMA FcStopStep == ASSUME FcPerfInv, FcPerf!Stop, program \in FcPerf!Program PROVE FcPerfInv'
<1>1. /\ at = "stop" /\ counters' = Occur(rt_perf_stop(counters), PerfEvent, 1)
      /\ program = "fc_direct" => at' = "print"
      /\ program # "fc_direct" => at' = "save"
      /\ UNCHANGED << program, pass, total, occurred, shown >>
  BY FcPerfNames DEF FcPerf!Stop, FcPerf!Runtime
<1>2. FcPerf!Groups' = FcPerf!Groups /\ FcPerf!Printed' = FcPerf!Printed
  BY <1>1, FcPerfSame
<1>3. counters \in Counters /\ pass \in 1 .. Len(FcPerf!Groups)
  <2>1. counters \in Counters /\ pass \in 1 .. Len(FcPerf!Groups) + 1 /\ pass <= Len(FcPerf!Groups)
    BY <1>1 DEF FcPerfInv, FcPerfTypes, FcToCome
  <2> QED BY <2>1, FcGroups
<1>4. /\ counters' \in Counters /\ ~ counters'.on /\ counters'.conf = counters.conf
      /\ \A e \in PerfEvent : counters'.count[e] = counters.count[e]
  <2> DEFINE off == rt_perf_stop(counters)
  <2>1. off \in Counters /\ ~ off.on /\ off.conf = counters.conf /\ off.count = counters.count
    BY <1>3, SwitchCounters
  <2>2. counters' = Occur(off, PerfEvent, 1)
    BY <1>1
  <2> HIDE DEF off
  <2>3. counters' \in Counters /\ counters'.conf = off.conf
    BY <2>1, <2>2, OccurCounters
  <2>4. ~ counters'.on
    BY <2>1, <2>2, OccurCounters
  <2>5. \A e \in PerfEvent : counters'.count[e] = off.count[e]
    BY <2>1, <2>2, OccurCounters
  <2> QED BY <2>1, <2>3, <2>4, <2>5
<1>5. \A e \in FcPerf!Groups[pass] : counters'.count[e] = occurred[e]
  BY <1>1, <1>3, <1>4, FcGroups DEF FcPerfInv, FcCounting
<1>6. FcPerfTypes'
  BY <1>1, <1>2, <1>4 DEF FcPerfInv, FcPerfTypes
<1>7. CASE program = "fc_direct"
  <2>1. at' = "print" /\ program' = "fc_direct"
    BY <1>1, <1>7
  <2>2. FcPerf!Groups[pass] = FcPerf!Printed
    <3>1. Len(FcPerf!Groups) = 1 /\ FcPerf!Groups[1] = FcPerf!Printed
      BY <1>7, FcGroups
    <3>2. pass = 1
      BY <1>3, <3>1
    <3> QED BY <3>1, <3>2
  <2>3. FcCounting'
    BY <1>1, <1>2, <1>4, <1>5, <2>1, <2>2 DEF FcCounting
  <2>4. FcTotal' /\ FcToCome' /\ FcShown'
    BY <1>1, <1>2, <2>1 DEF FcPerfInv, FcTotal, FcToCome, FcShown
  <2> QED BY <1>6, <2>3, <2>4 DEF FcPerfInv
<1>8. CASE program # "fc_direct"
  <2>1. at' = "save"
    BY <1>1, <1>8
  <2>2. FcCounting'
    BY <1>1, <1>2, <1>4, <1>5, <1>8, <2>1 DEF FcPerfInv, FcCounting
  <2>3. FcTotal' /\ FcToCome' /\ FcShown'
    BY <1>1, <1>2, <2>1 DEF FcPerfInv, FcTotal, FcToCome, FcShown
  <2> QED BY <1>6, <2>2, <2>3 DEF FcPerfInv
<1> QED BY <1>7, <1>8

LEMMA FcSaveStep == ASSUME FcPerfInv, FcPerf!Save, program # "fc_direct" PROVE FcPerfInv'
<1>1. /\ at = "save" /\ pass' = pass + 1
      /\ pass = Len(FcPerf!Groups) => at' = "print"
      /\ pass # Len(FcPerf!Groups) => at' = "conf"
      /\ total' = [e \in PerfEvent |-> total[e] + (IF e \in counters.conf THEN counters.count[e] ELSE 0)]
      /\ UNCHANGED << program, counters, occurred, shown >>
  BY DEF FcPerf!Save, FcPerf!rt_perf_save
<1>2. FcPerf!Groups' = FcPerf!Groups /\ FcPerf!Printed' = FcPerf!Printed
  BY <1>1, FcPerfSame
<1>3. /\ pass \in 1 .. Len(FcPerf!Groups) /\ occurred \in [PerfEvent -> 0 .. MAX_WORK]
      /\ FcPerf!Groups[pass] \in SUBSET PerfEvent
  <2>1. pass \in 1 .. Len(FcPerf!Groups) + 1 /\ pass <= Len(FcPerf!Groups)
    BY <1>1 DEF FcPerfInv, FcPerfTypes, FcToCome
  <2> QED BY <2>1, FcGroups DEF FcPerfInv, FcPerfTypes
<1>4. total' = occurred
  <2>1. ASSUME NEW e \in PerfEvent PROVE total'[e] = occurred[e]
    <3>1. counters.conf = FcPerf!Groups[pass] /\ occurred[e] \in Nat
      BY <1>1, <1>3, Groups DEF FcPerfInv, FcCounting
    <3>2. CASE e \in FcPerf!Groups[pass]
      <4>1. total[e] = 0 /\ counters.count[e] = occurred[e]
        BY <1>1, <3>2 DEF FcPerfInv, FcTotal, FcCounting
      <4> QED BY <1>1, <3>1, <3>2, <4>1
    <3>3. CASE e \notin FcPerf!Groups[pass]
      <4>1. total[e] = occurred[e]
        BY <1>1, <3>3 DEF FcPerfInv, FcTotal
      <4> QED BY <1>1, <3>1, <3>3, <4>1
    <3> QED BY <3>2, <3>3
  <2> QED BY <1>1, <1>3, <2>1
<1>5. pass' \in 1 .. Len(FcPerf!Groups) + 1
  BY <1>1, <1>3, FcGroups
<1>6. at' \in {"print", "conf"}
  BY <1>1
<1>7. FcPerfTypes'
  <2>1. total' \in [PerfEvent -> Nat]
    BY <1>3, <1>4, Groups
  <2> QED BY <1>1, <1>2, <1>5, <1>6, <2>1 DEF FcPerfInv, FcPerfTypes
<1>8. FcCounting'
  BY <1>1, <1>6 DEF FcCounting
<1>9. FcTotal'
  BY <1>1, <1>4, <1>6 DEF FcTotal
<1>10. FcToCome'
  <2>1. \A p \in pass' .. Len(FcPerf!Groups) : \A e \in FcPerf!Groups[p] : occurred[e] = 0
    BY <1>1 DEF FcPerfInv, FcToCome
  <2>2. at' = "conf" => pass' <= Len(FcPerf!Groups)
    BY <1>1, <1>3, FcGroups
  <2> QED BY <1>1, <1>2, <1>6, <2>1, <2>2 DEF FcToCome
<1>11. FcShown'
  BY <1>1, <1>2, <1>6 DEF FcPerfInv, FcShown
<1> QED BY <1>7, <1>8, <1>9, <1>10, <1>11 DEF FcPerfInv

\* One line more: the lines are as many as the events when each has its own.
LEMMA FcShowStep == ASSUME FcPerfInv, FcPerf!Show, program \in FcPerf!Program PROVE FcPerfInv'
<1>1. PICK e \in FcPerf!Printed \ {s[2] : s \in shown} :
        /\ shown' = shown \cup {<< 0, e, IF program = "fc_direct" THEN counters.count[e] ELSE total[e] >>}
        /\ at = "print" /\ counters' = Occur(counters, PerfEvent, 1)
        /\ at' = IF Cardinality(shown') = Cardinality(FcPerf!Printed) THEN "exit" ELSE "print"
        /\ UNCHANGED << program, pass, total, occurred >>
  BY FcPerfNames DEF FcPerf!Show, FcPerf!Runtime
<1>2. FcPerf!Groups' = FcPerf!Groups /\ FcPerf!Printed' = FcPerf!Printed
  BY <1>1, FcPerfSame
<1>3. /\ counters \in Counters /\ occurred \in [PerfEvent -> 0 .. MAX_WORK] /\ e \in PerfEvent
      /\ at' \in {"print", "exit"}
  BY <1>1, PrintedAreEvents DEF FcPerfInv, FcPerfTypes
<1>4. shown' = shown \cup {<< 0, e, occurred[e] >>}
  <2>1. CASE program = "fc_direct"
    BY <1>1, <2>1 DEF FcPerfInv, FcCounting
  <2>2. CASE program # "fc_direct"
    <3>1. total = occurred
      BY <1>1, <2>2 DEF FcPerfInv, FcTotal, FcPerf!Program
    <3> QED BY <1>1, <2>2, <3>1
  <2> QED BY <2>1, <2>2
<1>5. counters' \in Counters
  BY <1>1, <1>3, OccurCounters
<1>6. FcPerfTypes'
  <2>1. shown' \subseteq {0} \X PerfEvent \X (0 .. MAX_WORK)
    <3>1. << 0, e, occurred[e] >> \in {0} \X PerfEvent \X (0 .. MAX_WORK)
      BY <1>3
    <3> QED BY <1>4, <3>1 DEF FcPerfInv, FcPerfTypes
  <2> QED BY <1>1, <1>2, <1>3, <1>5, <2>1 DEF FcPerfInv, FcPerfTypes
<1>7. FcCounting'
  <2>1. ASSUME program = "fc_direct"
        PROVE  ~ counters'.on /\ \A f \in FcPerf!Printed : counters'.count[f] = occurred[f]
    <3>1. ~ counters.on /\ \A f \in FcPerf!Printed : counters.count[f] = occurred[f]
      BY <1>1, <2>1 DEF FcPerfInv, FcCounting
    <3>2. \A f \in PerfEvent : counters'.count[f] = counters.count[f]
      BY <1>1, <1>3, <3>1, OccurCounters
    <3>3. ~ counters'.on
      BY <1>1, <1>3, <3>1, OccurCounters
    <3> QED BY <3>1, <3>2, <3>3, PrintedAreEvents
  <2> QED BY <1>1, <1>2, <1>3, <2>1 DEF FcCounting
<1>8. FcTotal' /\ FcToCome'
  BY <1>1, <1>2, <1>3 DEF FcPerfInv, FcTotal, FcToCome
<1>9. \A s \in shown' : s[2] \in FcPerf!Printed /\ s[3] = occurred[s[2]]
  BY <1>1, <1>4 DEF FcPerfInv, FcShown
<1>10. Cardinality(shown') = Cardinality(FcPerf!Printed) => {s[2] : s \in shown'} = FcPerf!Printed
  <2> DEFINE line == [s \in shown' |-> s[2]]
  <2>1. line \in Injection(shown', FcPerf!Printed)
    <3>1. line \in [shown' -> FcPerf!Printed]
      BY <1>9
    <3>2. ASSUME NEW s \in shown', NEW t \in shown', line[s] = line[t] PROVE s = t
      <4>1. s[2] = t[2] /\ s[3] = t[3]
        BY <1>9, <3>2
      <4>2. s \in {0} \X PerfEvent \X (0 .. MAX_WORK) /\ t \in {0} \X PerfEvent \X (0 .. MAX_WORK)
        BY <1>6 DEF FcPerfTypes
      <4> QED BY <4>1, <4>2
    <3> QED BY <3>1, <3>2 DEF Injection, IsInjective
  <2>2. Cardinality(shown') = Cardinality(FcPerf!Printed) => line \in Surjection(shown', FcPerf!Printed)
    BY <2>1, PrintedAreEvents, FS_Injection
  <2>3. ASSUME NEW f \in FcPerf!Printed, Cardinality(shown') = Cardinality(FcPerf!Printed)
        PROVE  f \in {s[2] : s \in shown'}
    <3>1. PICK s \in shown' : line[s] = f
      BY <2>2, <2>3 DEF Surjection
    <3> QED BY <3>1
  <2>4. {s[2] : s \in shown'} \subseteq FcPerf!Printed
    BY <1>9
  <2> HIDE DEF line
  <2> QED BY <2>3, <2>4
<1>11. FcShown'
  BY <1>1, <1>2, <1>3, <1>9, <1>10 DEF FcShown
<1> QED BY <1>6, <1>7, <1>8, <1>11 DEF FcPerfInv

LEMMA FcPerfStep ==
  ASSUME FcPerfInv, FcPerf!Main, program \in FcPerf!Program
  PROVE  FcPerfInv'
<1>1. FcPerf!Save => program # "fc_direct"
  BY DEF FcPerf!Save, FcPerfInv, FcCounting
<1> QED BY <1>1, FcSetUpStep, FcBenchStep, FcStopStep, FcSaveStep, FcShowStep DEF FcPerf!Main

-----------------------------------------------------------------------------
(* All the programs.                                                       *)

\* Each program has its own invariant, and the cores rest in those that leave
\* them alone.
IInv ==
  /\ program \in Fork!Program => MainInv /\ ForkInv
  /\ program = "perf_cumulative" => MainInv /\ CumulativeInv
  /\ program = "perf_direct" => MainInv /\ DirectInv
  /\ program = "openmp" => OmpInv
  /\ program = "task" => TaskInv /\ AllAt({"idle"})
  /\ program \in FcPerf!Program => FcPerfInv /\ AllAt({"idle"})
  /\ program \in Fork!Program \cup FcPerf!Program
                 \cup {"perf_cumulative", "perf_direct", "openmp", "task"}

LEMMA InitIInv == Init => IInv
<1> SUFFICES ASSUME Init PROVE IInv
  OBVIOUS
<1>1. /\ Fork!Start /\ Cumulative!Init /\ Direct!Init /\ Omp!Init /\ Task!Init /\ FcPerf!Start
      /\ program \in Fork!Program \cup FcPerf!Program
                     \cup {"perf_cumulative", "perf_direct", "openmp", "task"}
  BY DEF Init
<1>2. AllAt({"idle"})
  BY <1>1, ForkNames DEF Fork!Start, Fork!MainInit, AllAt
<1> QED BY <1>1, <1>2, ForkInit, CumulativeInit, DirectInit, OmpInitInv, TaskInit, FcPerfInit
        DEF IInv

\* The programs are different ones.
LEMMA OneProgram ==
  ASSUME IInv, UNCHANGED program
  PROVE  /\ program \in Fork!Program /\ MainInv' /\ ForkInv' => IInv'
         /\ program = "perf_cumulative" /\ MainInv' /\ CumulativeInv' => IInv'
         /\ program = "perf_direct" /\ MainInv' /\ DirectInv' => IInv'
         /\ program = "openmp" /\ OmpInv' => IInv'
         /\ program = "task" /\ TaskInv' /\ AllAt({"idle"})' => IInv'
         /\ program \in FcPerf!Program /\ FcPerfInv' /\ AllAt({"idle"})' => IInv'
BY DEF IInv, Fork!Program, FcPerf!Program

LEMMA FcIInv == ASSUME IInv, FcStep PROVE IInv'
<1>1. CASE InFork /\ Fork!Fc
  <2>1. program \in Fork!Program /\ MainInv /\ ForkInv
    BY <1>1 DEF InFork, IInv
  <2>2. UNCHANGED program
    BY <1>1 DEF Fork!Fc, Fork!MountCluster, Fork!AllocStacks, Fork!CallCluster, Fork!NoCall,
                Fork!CallReturns, Fork!UnmountCluster
  <2> QED BY <1>1, <2>1, <2>2, ForkFcStep, OneProgram
<1>2. CASE InCumulative /\ Cumulative!Fc
  BY <1>2, CumulativeFcStep, OneProgram DEF InCumulative, IInv
<1>3. CASE InDirect /\ Direct!Fc
  BY <1>3, DirectFcStep, OneProgram DEF InDirect, IInv
<1>4. CASE InOmp /\ Omp!Fc
  BY <1>4, OmpFcStep, OneProgram DEF InOmp, IInv
<1>5. CASE InTask /\ Task!Main
  <2>1. AllAt({"idle"})'
    BY <1>5 DEF InTask, clusterVars, IInv, AllAt
  <2> QED BY <1>5, <2>1, TaskMainStep, OneProgram DEF InTask, IInv
<1>6. CASE InFcPerf /\ FcPerf!Main
  <2>1. program \in FcPerf!Program /\ FcPerfInv /\ AllAt({"idle"})'
    BY <1>6 DEF InFcPerf, clusterVars, IInv, AllAt
  <2>2. UNCHANGED program
    BY <1>6 DEF FcPerf!Main, FcPerf!PerfInit, FcPerf!Conf, FcPerf!ResetStart, FcPerf!Bench,
                FcPerf!Stop, FcPerf!Save, FcPerf!Show
  <2> QED BY <1>6, <2>1, <2>2, FcPerfStep, OneProgram
<1> QED BY <1>1, <1>2, <1>3, <1>4, <1>5, <1>6 DEF FcStep

LEMMA ClusterIInv == ASSUME IInv, ClusterStep PROVE IInv'
<1>1. CASE InFork /\ Fork!Cluster
  <2>1. program \in Fork!Program /\ MainInv /\ ForkInv
    BY <1>1 DEF InFork, IInv
  <2>2. UNCHANGED program
    BY <1>1 DEF Fork!Cluster, Fork!cluster_entry, Fork!pe_entry, Fork!Join
  <2> QED BY <1>1, <2>1, <2>2, ForkClusterStep, OneProgram
<1>2. CASE InCumulative /\ Cumulative!Cluster
  BY <1>2, CumulativeClusterStep, OneProgram DEF InCumulative, IInv
<1>3. CASE InDirect /\ Direct!Cluster
  BY <1>3, DirectClusterStep, OneProgram DEF InDirect, IInv
<1>4. CASE InOmp /\ Omp!Cluster
  BY <1>4, OmpClusterStep, OneProgram DEF InOmp, IInv
<1>5. CASE InTask /\ Task!Cluster
  <2>1. AllAt({"idle"})'
    BY <1>5 DEF InTask, clusterVars, IInv, AllAt
  <2> QED BY <1>5, <2>1, TaskClusterStep, OneProgram DEF InTask, IInv
<1> QED BY <1>1, <1>2, <1>3, <1>4, <1>5 DEF ClusterStep

LEMMA SameIInv == ASSUME IInv, UNCHANGED vars PROVE IInv'
<1>1. UNCHANGED << program, mounted, fc, core, block, entered, trace, cores_events, hw, work,
                   pass, perf, shown, region, i, iterated, var, reg, lock,
                   pc, n, pool, event, task, j, cl, ran, at, counters, total, occurred >>
  BY DEF vars, clusterVars, forkVars, countVars, passVars, ompVars, taskVars, fcPerfVars
<1>2. /\ MainInv => MainInv'
      /\ AllAt({"idle"}) => AllAt({"idle"})'
  BY <1>1 DEF MainInv, AllAt
<1>3. ForkInv => ForkInv'
  BY <1>1 DEF ForkInv, Fork!TypeOK, Alone, AllAt
<1>4. CumulativeInv => CumulativeInv'
  BY <1>1 DEF CumulativeInv, CumulativeTypes, Alone, AllAt, Cumulated, StillToRun, Counting
<1>5. DirectInv => DirectInv'
  BY <1>1 DEF DirectInv, DirectTypes, DirectTeam, Alone, AllAt, Counted, Measuring, Reported
<1>6. OmpInv => OmpInv'
  <2>1. OmpTypes => OmpTypes'
    BY <1>1 DEF OmpTypes
  <2>2. Team => Team'
    BY <1>1 DEF Team, Forked
  <2>3. Critical => Critical'
    BY <1>1 DEF Critical, Forked, Done
  <2> QED BY <2>1, <2>2, <2>3 DEF OmpInv
<1>7. TaskInv => TaskInv'
  BY <1>1 DEF TaskInv, TaskTypes, Pushed, Frame
<1>8. FcPerfInv => FcPerfInv'
  <2>1. FcPerf!Groups' = FcPerf!Groups /\ FcPerf!Printed' = FcPerf!Printed
    BY <1>1, FcPerfSame
  <2> QED BY <1>1, <2>1 DEF FcPerfInv, FcPerfTypes, FcCounting, FcTotal, FcToCome, FcShown
<1> QED BY <1>1, <1>2, <1>3, <1>4, <1>5, <1>6, <1>7, <1>8 DEF IInv

-----------------------------------------------------------------------------
(* The theorems.                                                           *)

\* Every reachable state satisfies the inductive invariant.
THEOREM Inductive == Spec => []IInv
<1>1. IInv /\ [Next]_vars => IInv'
  BY FcIInv, ClusterIInv, SameIInv DEF Next, Stopped
<1> QED BY <1>1, InitIInv, PTL DEF Spec

\* The types of every program's variables.
THEOREM TypeCorrect == Spec => []TypeOK
<1>1. IInv => TypeOK
  <2>1. ASSUME IInv PROVE TypeOK
    <3>1. program \in Fork!Program => Fork!TypeOK
      BY <2>1 DEF IInv, ForkInv
    <3>2. program = "perf_cumulative" => Cumulative!TypeOK
      BY <2>1, CumulativeTypesOK DEF IInv, CumulativeInv
    <3>3. program = "perf_direct" => Direct!TypeOK
      BY <2>1, DirectTypesOK DEF IInv, DirectInv
    <3>4. program = "openmp" => Omp!TypeOK
      BY <2>1, OmpTypesOK DEF IInv, OmpInv
    <3>5. program = "task" => Task!TypeOK
      BY <2>1, TaskTypesOK DEF IInv, TaskInv
    <3>6. program \in FcPerf!Program => FcPerf!TypeOK
      BY <2>1, FcPerfTypesOK DEF IInv, FcPerfInv
    <3> QED BY <3>1, <3>2, <3>3, <3>4, <3>5, <3>6 DEF TypeOK
  <2> QED BY <2>1
<1> QED BY <1>1, Inductive, PTL

\* No program turns the cluster off, or returns from main, while a core of it
\* is at work; and perf/vcd's trace is high while a core is in the function.
THEOREM ClusterStaysOn == Spec => []OnWhileUsed
<1>1. ASSUME IInv PROVE OnWhileUsed
  <2>1. ASSUME NEW c \in Core, core[c] # "idle" PROVE mounted /\ fc = "wait"
    <3>1. CASE MainInv
      BY <2>1, <3>1, AtWork DEF MainInv
    <3>2. CASE OmpInv
      <4>1. fc = "wait"
        BY <2>1, <3>2, ZeroIsACore DEF OmpInv, Team, Forked
      <4> QED BY <3>2, <4>1 DEF OmpInv, OmpTypes
    <3>3. CASE AllAt({"idle"})
      BY <2>1, <3>3 DEF AllAt
    <3> QED BY <1>1, <3>1, <3>2, <3>3 DEF IInv
  <2>2. program = "vcd" /\ (\E c \in Core : core[c] = "pe_entry") => trace = 1
    BY <1>1 DEF IInv, ForkInv, Fork!Program
  <2> QED BY <2>1, <2>2 DEF OnWhileUsed
<1> QED BY <1>1, Inductive, PTL

\* perf/cluster/cumulative and perf/fc/cumulative: what do_bench has saved, pass
\* after pass, is what its own benchmarks counted.
THEOREM SavedRight == Spec => []SavedIsMeasured
<1>1. ASSUME IInv PROVE SavedIsMeasured
  <2>1. ASSUME program = "perf_cumulative", core[0] = "display" PROVE perf = work
    <3>1. MainInv /\ CumulativeInv /\ CumulativeTypes
      BY <1>1, <2>1 DEF IInv, CumulativeInv
    <3>2. Alone({"entry", "do_bench", "display", "return"})
      BY <2>1, <3>1, ZeroIsACore, AtWork DEF CumulativeInv, AllAt, InBench
    <3>3. \A c \in Core : core[c] # "save" /\ Cumulated(c)
      BY <2>1, <3>1, <3>2 DEF CumulativeInv, Alone
    <3>4. \A c \in Core : \A e \in PerfEvent : perf[c][e] = work[c][e]
      BY <3>3 DEF Cumulated
    <3> QED BY <3>1, <3>4 DEF CumulativeTypes
  <2>2. program \in FcPerf!Program => FcPerf!SavedIsMeasured
    BY <1>1 DEF IInv, FcPerfInv, FcTotal, FcPerf!SavedIsMeasured
  <2> QED BY <2>1, <2>2 DEF SavedIsMeasured, Cumulative!SavedIsMeasured
<1> QED BY <1>1, Inductive, PTL

\* perf/cluster/direct and perf/fc: every line printed is what its own core
\* counted in the benchmark, and none is missing at the end.
THEOREM ShownRight == Spec => []ShownIsMeasured
<1>1. ASSUME IInv PROVE ShownIsMeasured
  <2>1. program = "perf_direct" => Direct!ShownIsMeasured
    BY <1>1, DirectNames DEF IInv, DirectInv, DirectTeam, Reported, Direct!ShownIsMeasured
  <2>2. program \in FcPerf!Program => FcPerf!ShownIsMeasured
    BY <1>1 DEF IInv, FcPerfInv, FcShown, FcPerf!ShownIsMeasured
  <2> QED BY <2>1, <2>2 DEF ShownIsMeasured
<1> QED BY <1>1, Inductive, PTL

\* openmp/simple's critical section: when core 0 is through with the last
\* region, var is the number of increments of all the cores.
THEOREM NoIncrementLost == Spec => []VarIsTotal
<1>1. IInv => VarIsTotal
  BY DEF IInv, OmpInv, Critical, VarIsTotal, Omp!VarIsTotal
<1> QED BY <1>1, Inductive, PTL

\* cluster/task: a CL task is queued or running only while the FC task whose
\* frame it lives in has not returned.
THEOREM FramesLive == Spec => []FrameOutlivesTasks
<1>1. ASSUME IInv PROVE FrameOutlivesTasks
  <2> SUFFICES ASSUME program = "task", NEW f \in Pair, NEW c \in Pair,
                      cl[f][c] \in {"pushed", "running"}
               PROVE  task[f] \in {"pushing", "waiting"}
    BY PairNames DEF FrameOutlivesTasks, Task!FrameOutlivesTasks
  <2>1. Frame(f) /\ task[f] \in {"new", "pushed", "pushing", "waiting", "done"}
    BY <1>1 DEF IInv, TaskInv, TaskTypes
  <2> QED BY <2>1 DEF Frame, Pair
<1> QED BY <1>1, Inductive, PTL
=============================================================================
