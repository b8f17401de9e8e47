------------------------------ MODULE OmpSimple ------------------------------
(***************************************************************************)
(* openmp/simple: core 0 of the cluster runs four parallel regions, one    *)
(* after the other: a print, a statically scheduled loop, a barrier, and a *)
(* shared counter incremented in a critical section.  The pragmas are what *)
(* the OpenMP runtime makes of them: a fork with a join, a slice of the    *)
(* loop for each thread, a barrier of the team, one lock.                  *)
(***************************************************************************)
EXTENDS ClusterMain, FiniteSets

CONSTANTS ITERATIONS,  \* 32 in the code
          INCREMENTS   \* 100 in the code

OmpAssumption == ITERATIONS \in Nat \ {0} /\ INCREMENTS \in Nat \ {0}

VARIABLES region,    \* the parallel region core 0 is at
          i,         \* each core's loop variable
          iterated,  \* how often each iteration of the loop has run
          var,       \* the shared counter
          reg,       \* what each core has loaded of it
          lock       \* the cores in the critical section

vars == << mainVars, region, i, iterated, var, reg, lock >>

Label == {"idle", "entry", "return", "print", "for", "dummy", "barrier", "past",
          "critical", "load", "store", "joined"}

Iteration == 0 .. ITERATIONS - 1

TypeOK ==
  /\ fc \in {"mount", "call", "wait", "unmount", "exit_0"}
  /\ mounted \in BOOLEAN
  /\ core \in [Core -> Label]
  /\ region \in 1 .. 5
  /\ i \in [Core -> Nat]
  /\ iterated \in [Iteration -> Nat]
  /\ var \in 0 .. NB_PE * INCREMENTS
  /\ reg \in [Core -> 0 .. NB_PE * INCREMENTS]
  /\ lock \subseteq Core

Init == /\ MainInit
        /\ region = 1
        /\ i = [c \in Core |-> 0]
        /\ iterated = [n \in Iteration |-> 0]
        /\ var = 0 /\ reg = [c \in Core |-> 0] /\ lock = {}

-----------------------------------------------------------------------------
Fc == /\ Mount("call") \/ Call \/ CallIgnored \/ Return \/ Unmount
      /\ UNCHANGED << region, i, iterated, var, reg, lock >>

\* Thread c's slice of the loop: the first threads take one iteration more
\* when the iterations do not divide up evenly.
Slice(c) == ITERATIONS \div NB_PE + (IF c < ITERATIONS % NB_PE THEN 1 ELSE 0)
First(c) == Cardinality({p \in Core \X Iteration : p[1] < c /\ p[2] < Slice(p[1])})

\* Core 0 enters the next region with the whole team, or returns.
Fork ==
  /\ core[0] = "entry"
  /\ \/ region = 1 /\ rt_team_fork("print") /\ UNCHANGED i
     \/ region = 2 /\ rt_team_fork("for") /\ i' = [c \in Core |-> First(c)]
     \/ region = 3 /\ rt_team_fork("dummy") /\ UNCHANGED i
     \/ region = 4 /\ rt_team_fork("critical") /\ i' = [c \in Core |-> 0]
     \/ region = 5 /\ core' = [core EXCEPT ![0] = "return"] /\ UNCHANGED i
  /\ UNCHANGED << fc, mounted, region, iterated, var, reg, lock >>

Join ==
  /\ Joined
  /\ core' = JoinedTeam("entry")
  /\ region' = region + 1
  /\ UNCHANGED << fc, mounted, i, iterated, var, reg, lock >>

-----------------------------------------------------------------------------
(* The regions, on core c.                                                 *)

Goto(c, label) == core' = [core EXCEPT ![c] = label]

Greet(c) ==
  /\ core[c] = "print"
  /\ Goto(c, "joined")
  /\ UNCHANGED << fc, mounted, region, i, iterated, var, reg, lock >>

Iterate(c) ==
  /\ core[c] = "for"
  /\ IF i[c] < First(c) + Slice(c)
       THEN /\ iterated' = [iterated EXCEPT ![i[c]] = @ + 1]
            /\ i' = [i EXCEPT ![c] = @ + 1]
            /\ UNCHANGED core
       ELSE Goto(c, "joined") /\ UNCHANGED << i, iterated >>
  /\ UNCHANGED << fc, mounted, region, var, reg, lock >>

Dummy(c) ==
  /\ core[c] = "dummy"
  /\ Goto(c, "barrier")
  /\ UNCHANGED << fc, mounted, region, i, iterated, var, reg, lock >>

\* The barrier opens when the last core has reached it.
Barrier ==
  /\ \A c \in Core : core[c] = "barrier"
  /\ core' = [c \in Core |-> "past"]
  /\ UNCHANGED << fc, mounted, region, i, iterated, var, reg, lock >>

Past(c) ==
  /\ core[c] = "past"
  /\ Goto(c, "joined")
  /\ UNCHANGED << fc, mounted, region, i, iterated, var, reg, lock >>

\* Mutant: var++ is not in a critical section.
Enter_NoLock(c) ==
  /\ core[c] = "critical"
  /\ IF i[c] < INCREMENTS
       THEN lock' = lock \cup {c} /\ Goto(c, "load")
       ELSE Goto(c, "joined") /\ UNCHANGED lock
  /\ UNCHANGED << fc, mounted, region, i, iterated, var, reg >>

Enter(c) ==
  /\ core[c] = "critical"
  /\ IF i[c] < INCREMENTS
       THEN lock = {} /\ lock' = {c} /\ Goto(c, "load")
       ELSE Goto(c, "joined") /\ UNCHANGED lock
  /\ UNCHANGED << fc, mounted, region, i, iterated, var, reg >>

\* var++ is a load and a store.
LoadVar(c) ==
  /\ core[c] = "load"
  /\ reg' = [reg EXCEPT ![c] = var] /\ Goto(c, "store")
  /\ UNCHANGED << fc, mounted, region, i, iterated, var, lock >>

StoreVar(c) ==
  /\ core[c] = "store"
  /\ var' = reg[c] + 1 /\ Goto(c, "critical")
  /\ lock' = lock \ {c} /\ i' = [i EXCEPT ![c] = @ + 1]
  /\ UNCHANGED << fc, mounted, region, iterated, reg >>

-----------------------------------------------------------------------------
Stopped == MainStopped /\ UNCHANGED vars

Thread(c) == \/ Greet(c) \/ Iterate(c) \/ Dummy(c) \/ Past(c)
             \/ Enter(c) \/ LoadVar(c) \/ StoreVar(c)

Cluster == Fork \/ Join \/ Barrier \/ \E c \in Core : Thread(c)

Next == Fc \/ Cluster \/ Stopped

Spec == Init /\ [][Next]_vars /\ WF_vars(Fc) /\ WF_vars(Cluster)

-----------------------------------------------------------------------------
\* "Var is %d": no increment is lost.
VarIsTotal == core[0] = "entry" /\ region = 5 => var = NB_PE * INCREMENTS
=============================================================================
