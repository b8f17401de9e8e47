----------------------------- MODULE ClusterFork -----------------------------
(***************************************************************************)
(* cluster/call, cluster/fork, cluster/fork_user_stack and perf/vcd: run   *)
(* an entry point on the cluster; in all but the first it forks the team   *)
(* of cores, in fork_user_stack on stacks main has allocated, and in vcd   *)
(* with a trace held high meanwhile.                                       *)
(***************************************************************************)
EXTENDS ClusterMain

CONSTANTS MASTER_STACK_SIZE, SLAVE_STACK_SIZE

StackAssumption ==
  MASTER_STACK_SIZE \in Nat \ {0} /\ SLAVE_STACK_SIZE \in Nat \ {0}

VARIABLES program,  \* which of the programs this is
          block,    \* bytes of cluster memory main holds for the stacks
          entered,  \* how often each core has run pe_entry
          trace     \* the level of vcd's trace

vars == << mainVars, program, block, entered, trace >>

Program == {"call", "fork", "fork_user_stack", "vcd"}

TypeOK ==
  /\ fc \in {"mount", "alloc", "call", "wait", "unmount", "exit_0", "exit_-1"}
  /\ mounted \in BOOLEAN
  /\ core \in [Core -> {"idle", "entry", "pe_entry", "joined", "return"}]
  /\ program \in Program
  /\ block \in Nat
  /\ entered \in [Core -> 0 .. 1]
  /\ trace \in 0 .. 1

Start == MainInit /\ block = 0 /\ entered = [c \in Core |-> 0] /\ trace = 0

Init == program \in Program /\ Start

-----------------------------------------------------------------------------
MountCluster == /\ Mount(IF program = "fork_user_stack" THEN "alloc" ELSE "call")
                /\ UNCHANGED << program, block, entered, trace >>

\* rt_alloc, which may return NULL.
AllocStacks ==
  /\ fc = "alloc"
  /\ \/ fc' = "call" /\ block' = SLAVE_STACK_SIZE * (NB_PE - 1) + MASTER_STACK_SIZE
     \/ fc' = "exit_-1" /\ UNCHANGED block
  /\ UNCHANGED << mounted, core, program, entered, trace >>

\* Of these programs only vcd looks at what rt_cluster_call returns.
NoCall == IF program = "vcd" THEN CallFails ELSE CallIgnored

CallCluster == (Call \/ NoCall) /\ UNCHANGED << program, block, entered, trace >>

\* Mutant: an asynchronous call, with nothing to wait for it.
CallReturns_Async ==
  /\ fc = "wait" /\ fc' = "unmount"
  /\ UNCHANGED << mounted, core, program, block, entered, trace >>

CallReturns == Return /\ UNCHANGED << program, block, entered, trace >>

UnmountCluster == Unmount /\ UNCHANGED << program, block, entered, trace >>

\* The level of the trace, in the program that has one.
gv_vcd_dump_trace(level) == trace' = IF program = "vcd" THEN level ELSE trace

\* The entry point, on core 0.
cluster_entry ==
  /\ core[0] = "entry"
  /\ IF program = "call"
       THEN core' = [core EXCEPT ![0] = "return"]
       ELSE rt_team_fork("pe_entry")
  /\ gv_vcd_dump_trace(1)
  /\ UNCHANGED << fc, mounted, program, block, entered >>

\* Mutant: a core does not come back from the function it was forked to.
pe_entry_Stays(c) ==
  /\ core[c] = "pe_entry"
  /\ entered' = [entered EXCEPT ![c] = 1]
  /\ UNCHANGED << mainVars, program, block, trace >>

pe_entry(c) ==
  /\ core[c] = "pe_entry"
  /\ core' = [core EXCEPT ![c] = "joined"]
  /\ entered' = [entered EXCEPT ![c] = @ + 1]
  /\ UNCHANGED << fc, mounted, program, block, trace >>

Join ==
  /\ Joined
  /\ core' = JoinedTeam("return")
  /\ gv_vcd_dump_trace(0)
  /\ UNCHANGED << fc, mounted, program, block, entered >>

Stopped == MainStopped /\ UNCHANGED vars

Fc      == MountCluster \/ AllocStacks \/ CallCluster \/ CallReturns \/ UnmountCluster
Cluster == cluster_entry \/ Join \/ \E c \in Core : pe_entry(c)

Next == Fc \/ Cluster \/ Stopped

Spec == Init /\ [][Next]_vars /\ WF_vars(Fc) /\ WF_vars(Cluster)

-----------------------------------------------------------------------------
\* fork_user_stack/test.c:36: the cluster is turned off when main is through
\* with it.  Main does not do so when rt_alloc fails.
OffAtExit == program = "fork_user_stack" /\ MainStopped => ~mounted
=============================================================================
