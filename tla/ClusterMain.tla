----------------------------- MODULE ClusterMain -----------------------------
(***************************************************************************)
(* The fabric controller's main as the cluster examples share it - mount   *)
(* the cluster, call an entry point on it, unmount it - and what they use  *)
(* of the runtime: a synchronous rt_cluster_call that runs the entry on    *)
(* core 0, and rt_team_fork, which runs a function on every core and       *)
(* returns on core 0 when all of them are back from it.                    *)
(***************************************************************************)
EXTENDS Integers

CONSTANT NB_PE  \* rt_nb_pe()

ASSUME NbPeAssumption == NB_PE \in Nat \ {0}

Core == 0 .. NB_PE - 1

VARIABLES fc,       \* where main is on the fabric controller
          mounted,  \* the cluster is on
          core      \* where each core is: "idle", or a label of the program

mainVars == << fc, mounted, core >>

MainInit == fc = "mount" /\ mounted = FALSE /\ core = [c \in Core |-> "idle"]

Mount(next) == fc = "mount" /\ fc' = next /\ mounted' = TRUE /\ UNCHANGED core

Call == /\ fc = "call" /\ fc' = "wait"
        /\ core' = [core EXCEPT ![0] = "entry"]
        /\ UNCHANGED mounted

\* The call fails: some programs return at once, the others do not look.
CallFails   == fc = "call" /\ fc' = "exit_-1" /\ UNCHANGED << mounted, core >>
CallIgnored == fc = "call" /\ fc' = "unmount" /\ UNCHANGED << mounted, core >>

Return == /\ fc = "wait" /\ core[0] = "return"
          /\ fc' = "unmount" /\ core' = [core EXCEPT ![0] = "idle"]
          /\ UNCHANGED mounted

Unmount == fc = "unmount" /\ fc' = "exit_0" /\ mounted' = FALSE /\ UNCHANGED core

MainStopped == fc \in {"exit_0", "exit_-1"}

\* rt_team_fork called by core 0, and its return.
rt_team_fork(function) == core' = [c \in Core |-> function]
Joined                 == \A c \in Core : core[c] = "joined"
JoinedTeam(resume)     == [c \in Core |-> IF c = 0 THEN resume ELSE "idle"]
=============================================================================
